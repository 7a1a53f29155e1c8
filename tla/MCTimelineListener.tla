-------------------------- MODULE MCTimelineListener --------------------------
(* Two probes overlap. *)
EXTENDS TimelineListener

CONSTANTS p1, p2

MCTwoProbes == {p1, p2}
MCNoStreams == {}
=============================================================================
