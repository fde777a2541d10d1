------------------------ MODULE MCReleaseAuthority ------------------------
(* Model values of the constants of ReleaseAuthority for TLC.               *)
EXTENDS ReleaseAuthority, TLC

CONSTANTS h1, h2, builder, security, quality, critic, l1, ap1, ap2

\* Identities and approval rows are only compared for equality.
Interchangeable == Permutations({h1, h2}) \cup Permutations({ap1, ap2})
=============================================================================
