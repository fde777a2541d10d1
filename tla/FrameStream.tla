----------------------------- MODULE FrameStream -----------------------------
(***************************************************************************)
(* What the decoder of OMP's output promises (rpc-frame.ts): which lines   *)
(* make up a frame, as a property of the lines themselves.                 *)
(*                                                                         *)
(* A frame comes whole in one line, or as the chunks 0, 1, ... of it in as *)
(* many consecutive lines.  A line either completes a frame, which is      *)
(* returned, or goes on with one, or is an error; after an error, as after *)
(* a frame, the next line starts afresh.                                   *)
(***************************************************************************)
EXTENDS Integers, Sequences

CONSTANTS
  Whole,      \* frames that come in one line
  Unusable,   \* a line that is too long, no JSON, or no frame
  Ids,        \* chunkId
  Numbers,    \* values OMP may give for index, count and byteLength
  Data,       \* contents of a chunk
  Garbled,    \* contents that are not the canonical base64 of anything
  Size,       \* bytes in the contents of a chunk
  Total,      \* bytes in the concatenation of the contents of chunks
  Readable,   \* concatenations that are the UTF-8 of the JSON of a frame
  MaxCount,   \* MAX_CHUNK_COUNT
  MaxBytes,   \* maxReassembledBytes
  NoLine      \* no line is being decoded

Pieces == UNION {[1..n -> Data] : n \in 0..MaxCount}

Chunk == [chunkId : Ids, index : Numbers, count : Numbers,
          byteLength : Numbers, data : Data \cup {Garbled}]

Line == Whole \cup {Unusable} \cup Chunk

VARIABLES
  line,      \* the line whose turn it is
  pending,   \* the lines before it, since the latest frame or error
  result     \* what the line before it led to

Result == [frames : {<<>>} \cup {<<f>> : f \in Whole \cup Pieces},
           threw  : BOOLEAN]

Returns(frames) == result' = [frames |-> frames, threw |-> FALSE]
Throws == result' = [frames |-> <<>>, threw |-> TRUE]

-----------------------------------------------------------------------------
\* Its fields are within their bounds, and its contents canonical base64.
Acceptable(l) ==
  /\ l \in Chunk
  /\ l.count \in 1..MaxCount
  /\ l.index \in 0..(l.count - 1)
  /\ l.byteLength \in 1..MaxBytes
  /\ l.data # Garbled

\* The first Len(ls) chunks of one frame, in order.
InOrder(ls) ==
  \A i \in 1..Len(ls) :
    /\ Acceptable(ls[i])
    /\ ls[i].index = i - 1
    /\ ls[i].chunkId = ls[1].chunkId
    /\ ls[i].count = ls[1].count
    /\ ls[i].byteLength = ls[1].byteLength

Contents(ls) == [i \in 1..Len(ls) |-> ls[i].data]

\* A frame was begun and is within its declared length.
Partial(ls) ==
  /\ InOrder(ls)
  /\ Len(ls) < ls[1].count
  /\ Total[Contents(ls)] <= ls[1].byteLength

\* A frame in chunks, of exactly its declared length.
Complete(ls) ==
  /\ InOrder(ls)
  /\ Len(ls) = ls[1].count
  /\ Total[Contents(ls)] = ls[1].byteLength
  /\ Contents(ls) \in Readable

-----------------------------------------------------------------------------
StreamInit ==
  /\ line = NoLine
  /\ pending = <<>>
  /\ result = [frames |-> <<>>, threw |-> FALSE]

Arrives ==
  /\ line = NoLine
  /\ line' \in Line
  /\ UNCHANGED <<pending, result>>

\* What the lines up to the present one amount to decides.
Receive ==
  LET ls == Append(pending, line)
      alone == pending = <<>> /\ line \in Whole
  IN  /\ line # NoLine
      /\ line' = NoLine
      /\ \/ /\ alone
            /\ Returns(<<line>>)
            /\ pending' = <<>>
         \/ /\ Complete(ls)
            /\ Returns(<<Contents(ls)>>)
            /\ pending' = <<>>
         \/ /\ Partial(ls)
            /\ Returns(<<>>)
            /\ pending' = ls
         \/ /\ ~alone /\ ~Complete(ls) /\ ~Partial(ls)
            /\ Throws
            /\ pending' = <<>>

\* The process is gone: a frame that was begun is an error.
StreamEnds ==
  /\ line = NoLine
  /\ IF pending = <<>> THEN Returns(<<>>) ELSE Throws
  /\ pending' = <<>>
  /\ UNCHANGED line

StreamSpec ==
  StreamInit /\ [][Arrives \/ Receive \/ StreamEnds]_<<line, pending, result>>
=============================================================================
