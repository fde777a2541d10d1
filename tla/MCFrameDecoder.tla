--------------------------- MODULE MCFrameDecoder ---------------------------
(* Values of the constants of FrameDecoder for TLC.                         *)
EXTENDS FrameDecoder, SequencesExt

CONSTANTS ping, a, b

\* From below the least to above the greatest valid value.
NumbersOf == -1..5

\* Contents of no, one and two bytes.
SizeOf == [empty |-> 0, small |-> 1, large |-> 2]

Concatenations == UNION {[1..n -> Data] : n \in 0..MaxCount}
TotalOf == [p \in Concatenations |-> FoldLeft(LAMBDA sum, d : sum + Size[d], 0, p)]

\* The concatenations that start with the small piece are frames.
ReadableOf == {p \in Concatenations : p # <<>> /\ p[1] = "small"}
=============================================================================
