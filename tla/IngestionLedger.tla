--------------------------- MODULE IngestionLedger ---------------------------
(***************************************************************************)
(* What Cluster observation promises to the rest of Tracegarden, without    *)
(* lists, watches, retries or processes.  Kubernetes produces a numbered    *)
(* history of changes.  Each stream (one namespace and one resource kind)   *)
(* owns a durable checkpoint, and the database owns the set of changes that *)
(* were stored as Observations.  A checkpoint may only move in three ways:  *)
(* over the next change of its stream, which is stored in the same step;    *)
(* over revisions that hold no change of its stream; or, from nothing, to   *)
(* a listing whose live objects are stored in the same step.                *)
(***************************************************************************)
EXTENDS Naturals, Sequences

CONSTANTS
    Streams,    \* the (namespace, resource kind) pairs
    Objects     \* the object UIDs inside a stream

VARIABLES
    history,    \* Kubernetes: the i-th change has resourceVersion i
    checkpoint, \* database: last covered resourceVersion of a stream, 0 if none
    observed    \* database: resourceVersions stored as Observations

ledgerVars == <<history, checkpoint, observed>>

\* A change creates or modifies an object ("live") or deletes it.
Change == [stream : Streams, object : Objects, live : BOOLEAN]

Revisions == 1..Len(history)

\* The changes of stream s with a revision in a set of revisions.
ChangesOf(s, revisions) == {i \in revisions : history[i].stream = s}

\* Revision i is the newest change of its object among the first v revisions.
Newest(i, v) ==
    \A j \in (i + 1)..v :
        ~(history[j].stream = history[i].stream /\ history[j].object = history[i].object)

\* What a list of stream s returns at revision v: the objects that exist.
Listing(s, v) == {i \in ChangesOf(s, 1..v) : Newest(i, v) /\ history[i].live}

\* The next change that a watch of stream s opened at revision v delivers.
NextChange(s, v, i) ==
    /\ i \in ChangesOf(s, (v + 1)..Len(history))
    /\ ChangesOf(s, (v + 1)..(i - 1)) = {}

\* The Cluster has a past when observation starts.
LedgerInit ==
    /\ history \in Seq(Change)
    /\ checkpoint = [s \in Streams |-> 0]
    /\ observed = {}

\* Kubernetes commits a change.
Occur ==
    /\ \E c \in Change : history' = Append(history, c)
    /\ UNCHANGED <<checkpoint, observed>>

\* An expired position is forgotten.
Forget(s) ==
    /\ checkpoint' = [checkpoint EXCEPT ![s] = 0]
    /\ UNCHANGED <<history, observed>>

\* A stream without a position starts from a listing.
Rebase(s) ==
    /\ checkpoint[s] = 0
    /\ \E v \in Revisions :
        /\ checkpoint' = [checkpoint EXCEPT ![s] = v]
        /\ observed' = observed \cup Listing(s, v)
    /\ UNCHANGED history

\* The next change is stored and covered in one step.
Ingest(s) ==
    /\ checkpoint[s] # 0
    /\ \E i \in Revisions :
        /\ NextChange(s, checkpoint[s], i)
        /\ checkpoint' = [checkpoint EXCEPT ![s] = i]
        /\ observed' = observed \cup {i}
    /\ UNCHANGED history

\* A bookmark covers revisions that hold nothing for this stream.
Bookmark(s) ==
    /\ checkpoint[s] # 0
    /\ \E v \in Revisions :
        /\ v > checkpoint[s]
        /\ ChangesOf(s, (checkpoint[s] + 1)..v) = {}
        /\ checkpoint' = [checkpoint EXCEPT ![s] = v]
    /\ UNCHANGED <<history, observed>>

\* Replays and one-off collections store real changes and move no checkpoint.
Replay ==
    /\ \E stored \in SUBSET Revisions : observed' = observed \cup stored
    /\ UNCHANGED <<history, checkpoint>>

LedgerNext ==
    \/ Occur
    \/ Replay
    \/ \E s \in Streams : Forget(s) \/ Rebase(s) \/ Ingest(s) \/ Bookmark(s)

LedgerSpec == LedgerInit /\ [][LedgerNext]_ledgerVars

-----------------------------------------------------------------------------
\* Everything that exists at a stream's checkpoint has been stored: the newest
\* change of every live object at or before the checkpoint is an Observation.
CheckpointCovered ==
    \A s \in Streams : Listing(s, checkpoint[s]) \subseteq observed

\* A checkpoint that moves forward from a position skips no change: everything
\* between the two positions is stored when it moves (no gap without a relist).
NothingSkipped ==
    [][\A s \in Streams :
          checkpoint[s] # 0 /\ checkpoint'[s] > checkpoint[s]
          => ChangesOf(s, (checkpoint[s] + 1)..checkpoint'[s]) \subseteq observed']_ledgerVars
=============================================================================
