-------------------------- MODULE MCSessionFamilies --------------------------
(* One account, two requests at a time: enough for every race of a refresh *)
(* with another refresh, a replay, a logout or a revocation.               *)
EXTENDS SessionFamilies, TLC

CONSTANTS alice, s1, s2, s3, w1, w2

MCAccounts  == {alice}
MCSessions3 == {s1, s2, s3}
MCWorkers   == {w1, w2}

\* Sound for safety: identifiers and workers are interchangeable.
MCSymmetry3 == Permutations(MCSessions3) \cup Permutations(MCWorkers)
=============================================================================
