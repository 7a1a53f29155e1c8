------------------------------ MODULE MCAttention ------------------------------
(* An instance of Attention for TLC: the resource fails, recovers and fails. *)
EXTENDS Attention, TLC

CONSTANTS m1, m2, r1, r2

MCMembers   == {m1, m2}
MCRequests  == {r1, r2}
MCUnhealthy == {1, 3}
MCSymmetry  == Permutations(MCMembers) \cup Permutations(MCRequests)
=============================================================================
