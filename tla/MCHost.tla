------------------------------- MODULE MCHost -------------------------------
(* Model values of the constants of Host for TLC.                           *)
EXTENDS Host, TLC

CONSTANTS p1, p2, p3, l1, l2, l3

\* Processes are only compared for equality.
Interchangeable == Permutations({p1, p2, p3}) \cup Permutations({l1, l2, l3})
=============================================================================
