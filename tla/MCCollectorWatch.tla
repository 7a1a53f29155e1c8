--------------------------- MODULE MCCollectorWatch ---------------------------
(* Instances of CollectorWatch for TLC. *)
EXTENDS CollectorWatch

CONSTANTS s1, s2, o1

MCStreams == {s1, s2}
MCObjects == {o1}

\* Both streams are approved, and stay so.
MCFullScope  == {{s1, s2}}
\* Nothing or one stream is approved, and stays so; the other is activity of
\* the Cluster that nobody observes.
MCMaybeScope == {{}, {s1}}
\* An owner approves the second stream or withdraws it.
MCSomeScopes == {{s1}, {s1, s2}}
=============================================================================
