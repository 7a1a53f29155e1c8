---------------------------- MODULE ObservedStream ----------------------------
(***************************************************************************)
(* What a Kubernetes watch promises to the collector, with everything that  *)
(* happens on the way left out: the changes the API server puts on the wire *)
(* are handed over in their order, none left out, from the position the     *)
(* watch was opened at; and a stream that ends quietly has handed over all  *)
(* of them, unless the collector itself asked for the end.                  *)
(***************************************************************************)
EXTENDS Naturals, Sequences

VARIABLES
    history,  \* Kubernetes: the changes so far; the i-th has resourceVersion i
    watched,  \* the collection of the stream
    sent,     \* resourceVersion of the last change on the wire
    taken,    \* resourceVersion of the last change handed over
    aborted,  \* the collector has asked for the end
    state     \* "before", "open", "ended" quietly, "failed" with an error, "left"

streamVars == <<sent, taken, aborted, state>>

\* i is the first change of the stream's collection after resourceVersion r.
NextOf(r, i) ==
    /\ i \in (r + 1)..Len(history)
    /\ history[i].collection = watched
    /\ \A j \in (r + 1)..(i - 1) : history[j].collection # watched

StreamInit ==
    /\ sent = 0 /\ taken = 0
    /\ aborted = FALSE
    /\ state = "before"

\* The stream is opened at the resourceVersion of a list (0: from the start).
Open ==
    /\ state = "before"
    /\ state' = "open"
    /\ \E v \in 0..Len(history) : sent' = v /\ taken' = v
    /\ UNCHANGED aborted

\* The API server puts the next change on the wire.
Send ==
    /\ state = "open"
    /\ NextOf(sent, sent')
    /\ UNCHANGED <<taken, aborted, state>>

\* The next change is handed over.
Take ==
    /\ state = "open" /\ taken < sent
    /\ NextOf(taken, taken')
    /\ UNCHANGED <<sent, aborted, state>>

Abort ==
    /\ aborted' = TRUE
    /\ UNCHANGED <<sent, taken>>
    /\ state' \in {state, IF state \in {"before", "open"} THEN "failed" ELSE state}

\* The stream is over; quietly only if nothing that was sent is missing.
Close ==
    /\ state \in {"before", "open"}
    /\ \/ state' = "ended" /\ (taken = sent \/ aborted)
       \/ state' \in {"failed", "left"}
    /\ UNCHANGED <<sent, taken, aborted>>

StreamNext == Open \/ Send \/ Take \/ Abort \/ Close

StreamSpec == StreamInit /\ [][StreamNext]_streamVars
=============================================================================
