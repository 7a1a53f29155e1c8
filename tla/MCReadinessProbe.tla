---------------------------- MODULE MCReadinessProbe ----------------------------
(* Two probes and a stream share a pool with other requests. *)
EXTENDS ReadinessProbe

CONSTANTS p1, p2, s1

MCProbes  == {p1, p2}
MCStreams == {s1}
=============================================================================
