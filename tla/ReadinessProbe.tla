----------------------------- MODULE ReadinessProbe -----------------------------
(***************************************************************************)
(* The readiness of the web process (packages/db, probePostgresReadiness;   *)
(* apps/web/src/server.ts, status): a probe pings the database within a      *)
(* deadline and then verifies the LISTEN connection (TimelineListener).      *)
(* Probes, the LISTEN connection and other requests share the pool.          *)
(*                                                                         *)
(* An acquisition is a call of pool.connect.  The probe that made it may     *)
(* have given up; then it is late, and its client is of no use to anybody.   *)
(***************************************************************************)
EXTENDS TimelineListener

CONSTANTS
    PoolSize,        \* max of the pool
    MaxAcquisitions, \* bound: acquisitions of probes under way
    MaxBorrowed      \* bound: clients that other requests use

ASSUME ProbeAssumption ==
    /\ IsFiniteSet(Probes)
    /\ PoolSize \in Nat \ {0}
    /\ MaxAcquisitions \in Nat /\ MaxBorrowed \in Nat

VARIABLES
    checkedOut,  \* clients of the pool that are not idle
    pinging,     \* where the ping of a probe is
    acquires,    \* the acquisition that a ping awaits
    acquisition, \* state of each acquisition
    pending,     \* pendingReadinessAcquisitions of the pool, 0 for none
    borrowed,    \* clients that other requests use
    database     \* databaseReady

pingVars == <<pinging, acquires, acquisition, pending, borrowed, database>>
allVars  == <<listenerVars, checkedOut, pingVars>>

Acquisitions == 1..MaxAcquisitions

ProbeInit ==
    /\ ListenerInit
    /\ checkedOut = 1
    /\ pinging = [p \in Probes |-> "new"]
    /\ acquires = [p \in Probes |-> 0]
    /\ acquisition = [k \in Acquisitions |-> "none"]
    /\ pending = 0 /\ borrowed = 0 /\ database = TRUE

\* What follows a ping, with its result.
Answer(p, result) ==
    /\ pinging' = [pinging EXCEPT ![p] = "answered"]
    /\ database' = result

-----------------------------------------------------------------------------
(* probePostgresReadiness.                                                  *)

\* While an acquisition is late, no other is started.
Ping(p) ==
    /\ Quiet
    /\ at[p] = "request" /\ pinging[p] = "new"
    /\ IF pending # 0
       THEN Answer(p, FALSE) /\ UNCHANGED <<acquires, acquisition>>
       ELSE /\ \E k \in Acquisitions :
                /\ acquisition[k] = "none"
                /\ \A j \in Acquisitions : acquisition[j] = "none" => k <= j
                /\ acquisition' = [acquisition EXCEPT ![k] = "waiting"]
                /\ acquires' = [acquires EXCEPT ![p] = k]
            /\ pinging' = [pinging EXCEPT ![p] = "acquiring"]
            /\ UNCHANGED database
    /\ UNCHANGED <<listenerVars, checkedOut, pending, borrowed>>

\* The timer is first: the acquisition is late from now on, and pending (it
\* takes the place of one that another probe has given up).
AcquisitionTimesOut(p) ==
    /\ Quiet /\ Fault
    /\ pinging[p] = "acquiring"
    /\ acquisition' = [acquisition EXCEPT ![acquires[p]] = "late"]
    /\ pending' = acquires[p]
    /\ acquires' = [acquires EXCEPT ![p] = 0]
    /\ Answer(p, FALSE)
    /\ UNCHANGED <<store, web, local, checkedOut, borrowed>>

\* A late acquisition is over: it is pending no longer, unless another one is.
Forget(k) == pending' = IF pending = k THEN 0 ELSE pending

\* Mutant: whoever takes a client too late keeps it.
AcquireKeepingClient(k) ==
    /\ Quiet
    /\ checkedOut < PoolSize /\ at[Shutdown] # "stopped"
    /\ acquisition[k] # "none"
    /\ acquisition' = [acquisition EXCEPT ![k] = "none"]
    /\ checkedOut' = checkedOut + 1
    /\ \/ /\ acquisition[k] = "late"
          /\ Forget(k)
          /\ UNCHANGED <<pinging, acquires>>
       \/ \E p \in Probes :
          /\ acquires[p] = k
          /\ pinging' = [pinging EXCEPT ![p] = "querying"]
          /\ acquires' = [acquires EXCEPT ![p] = 0]
          /\ UNCHANGED pending
    /\ UNCHANGED <<listenerVars, borrowed, database>>

\* The pool has a client.  The probe sends its query; a late client is
\* released at once.
Acquire(k) ==
    /\ Quiet
    /\ checkedOut < PoolSize /\ at[Shutdown] # "stopped"
    /\ acquisition' = [acquisition EXCEPT ![k] = "none"]
    /\ \/ /\ acquisition[k] = "late"
          /\ Forget(k)
          /\ UNCHANGED <<checkedOut, pinging, acquires>>
       \/ \E p \in Probes :
          /\ acquires[p] = k
          /\ checkedOut' = checkedOut + 1
          /\ pinging' = [pinging EXCEPT ![p] = "querying"]
          /\ acquires' = [acquires EXCEPT ![p] = 0]
          /\ UNCHANGED pending
    /\ UNCHANGED <<listenerVars, borrowed, database>>

\* Mutant: a late acquisition that fails stays pending.
RefuseStaysPending(k) ==
    /\ Quiet
    /\ acquisition' = [acquisition EXCEPT ![k] = "none"]
    /\ \/ /\ acquisition[k] = "late"
          /\ UNCHANGED <<pending, pinging, acquires, database, faults>>
       \/ \E p \in Probes :
          /\ acquires[p] = k /\ Fault
          /\ acquires' = [acquires EXCEPT ![p] = 0]
          /\ Answer(p, FALSE)
          /\ UNCHANGED pending
    /\ UNCHANGED <<store, web, local, checkedOut, borrowed>>

\* Connecting fails, or the pool's own timeout is up.
Refuse(k) ==
    /\ Quiet
    /\ acquisition' = [acquisition EXCEPT ![k] = "none"]
    /\ \/ /\ acquisition[k] = "late"
          /\ Forget(k)
          /\ UNCHANGED <<pinging, acquires, database, faults>>
       \/ \E p \in Probes :
          /\ acquires[p] = k /\ Fault
          /\ acquires' = [acquires EXCEPT ![p] = 0]
          /\ Answer(p, FALSE)
          /\ UNCHANGED pending
    /\ UNCHANGED <<store, web, local, checkedOut, borrowed>>

\* The query is answered, or fails or is late; its client is released.
Query(p, result) ==
    /\ Quiet
    /\ pinging[p] = "querying"
    /\ checkedOut' = checkedOut - 1
    /\ Answer(p, result)
    /\ UNCHANGED <<store, web, local, acquires, acquisition, pending, borrowed>>

QueryAnswered(p) == Query(p, TRUE) /\ UNCHANGED faults
QueryFails(p)    == Fault /\ Query(p, FALSE)

-----------------------------------------------------------------------------
(* The other users of the pool.                                             *)

Borrow ==
    /\ Quiet /\ ~stopping
    /\ borrowed < MaxBorrowed /\ checkedOut < PoolSize
    /\ borrowed' = borrowed + 1 /\ checkedOut' = checkedOut + 1
    /\ UNCHANGED <<listenerVars, pinging, acquires, acquisition, pending, database>>

Return ==
    /\ Quiet
    /\ borrowed > 0
    /\ borrowed' = borrowed - 1 /\ checkedOut' = checkedOut - 1
    /\ UNCHANGED <<listenerVars, pinging, acquires, acquisition, pending, database>>

-----------------------------------------------------------------------------
(* The listener and the shutdown, with the pool.                            *)

\* A step of TimelineListener takes its clients from the pool.
FromPool ==
    /\ checkedOut' = checkedOut + Cardinality(out') - Cardinality(out)
    /\ checkedOut' <= PoolSize

ListenerSteps == FromPool /\ UNCHANGED pingVars

ContinueAll == Continue /\ ListenerSteps
SetUp       == Setup /\ ListenerSteps
Clean(a)    == Unlisten(a) /\ ListenerSteps
StreamStep(s) == StreamSubscribes(s) /\ ListenerSteps
GiveUp      == StopReadiness /\ ListenerSteps

\* The pool has ended when every client is back.
PoolEnded == checkedOut = 0 /\ Stopped /\ ListenerSteps

\* A probe arrives: its ping comes first.
ProbeArrives(p) ==
    /\ Arrive(p)
    /\ pinging' = [pinging EXCEPT ![p] = "new"]
    /\ UNCHANGED <<checkedOut, acquires, acquisition, pending, borrowed, database>>

\* status goes on with the LISTEN connection, whatever the ping was answered.
\* (A bound: not while another probe does so.)
VerifyAfter(p) ==
    /\ pinging[p] = "answered"
    /\ \A q \in Probes \ {p} : at[q] \in {"idle", "request"}
    /\ Verify(p)
    /\ ListenerSteps

\* What a handler or the shutdown does next when it is not suspended.
StreamGoesOn(s) == StreamStep(s) \/ Clean(s)
ProbeGoesOn(p)  == ProbeArrives(p) \/ Ping(p) \/ QueryAnswered(p) \/ VerifyAfter(p) \/ Clean(p)
CloseGoesOn     == GiveUp \/ PoolEnded \/ Clean(Shutdown)

CloseAll ==
    /\ Stop
    /\ database' = FALSE
    /\ UNCHANGED <<checkedOut, pinging, acquires, acquisition, pending, borrowed>>

Faults ==
    \/ ((SetupFails \/ ListenLost) /\ ListenerSteps)
    \/ \E p \in Probes : AcquisitionTimesOut(p) \/ QueryFails(p)

ProbeNext ==
    \/ ContinueAll \/ SetUp \/ CloseAll \/ CloseGoesOn \/ Faults
    \/ Borrow \/ Return
    \/ \E s \in Streams : StreamGoesOn(s) \/ ((Arrive(s) \/ StreamDisconnects(s)) /\ ListenerSteps)
    \/ \E p \in Probes : ProbeGoesOn(p)
    \/ \E k \in Acquisitions : Acquire(k) \/ Refuse(k)

ProbeSpec == ProbeInit /\ [][ProbeNext]_allVars

\* As in TimelineListener; acquisitions are served or refused, other requests
\* return their clients.
ProbeFairSpec ==
    /\ ProbeSpec
    /\ WF_allVars(ContinueAll)
    /\ SF_allVars(SetUp) /\ SF_allVars(CloseGoesOn) /\ SF_allVars(Return)
    /\ SF_allVars(\E k \in Acquisitions : Acquire(k) \/ Refuse(k))
    /\ \A s \in Streams : SF_allVars(StreamGoesOn(s))
    /\ \A p \in Probes : SF_allVars(ProbeGoesOn(p))

-----------------------------------------------------------------------------
(* Properties.                                                              *)

\* A client that is checked out is in use: by the LISTEN connection or who
\* releases it, by the query of a probe or by a request -- never by a probe
\* that gave up.  A probe is turned away only while an acquisition is late.
PoolAccounted ==
    /\ ClientsAccounted
    /\ checkedOut = Cardinality(out) + Cardinality({p \in Probes : pinging[p] = "querying"}) + borrowed
    /\ pending # 0 => acquisition[pending] = "late"

\* While the process runs, readiness comes back once failures end: no late
\* acquisition, lost connection or full pool keeps the probes from succeeding.
ReadinessReturns == []<>((ready /\ database) \/ stopping)
=============================================================================
