------------------------ MODULE MCCandidatePipeline ------------------------
(* Model values of the constants of CandidatePipeline for TLC.              *)
EXTENDS CandidatePipeline, TLC

CONSTANTS h1, h2, builder, security, quality, l1, ap1, s1, s2

\* Identities are only compared for equality.
Interchangeable == Permutations({h1, h2})

\* The clock stands still: the run authority lets deadlines pass.
ClockStandsStill == now = 0
=============================================================================
