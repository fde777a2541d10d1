---------------------------- MODULE FrameDecoder ----------------------------
(***************************************************************************)
(* RpcFrameDecoder (rpc-frame.ts): decodeLine and decodeChunk for one line *)
(* after the other, and assertComplete when the process has exited.  Each  *)
(* session has a decoder.  A frame that arrives after an error is decoded  *)
(* like any other: the session may be stopping, or on the way down.        *)
(***************************************************************************)
EXTENDS Integers, Sequences

CONSTANTS Whole, Unusable, Ids, Numbers, Data, Garbled, Size, Total, Readable,
          MaxCount, MaxBytes, NoLine,   \* as in FrameStream
          NoChunk                       \* null

VARIABLES
  line,          \* the line whose turn in the frame queue it is
  activeChunk,   \* the ChunkState, or null
  result         \* what the latest call returned or threw

decoderVars == <<line, activeChunk, result>>

\* The lines that the decoder has accepted and not yet returned.
Held ==
  IF activeChunk = NoChunk
    THEN <<>>
    ELSE [i \in 1..activeChunk.nextIndex |->
            [chunkId |-> activeChunk.chunkId, index |-> i - 1,
             count |-> activeChunk.count, byteLength |-> activeChunk.byteLength,
             data |-> activeChunk.chunks[i]]]

Stream == INSTANCE FrameStream WITH pending <- Held

Line == Stream!Line
Chunk == Stream!Chunk
Pieces == Stream!Pieces

ChunkState == [chunkId : Ids, count : 1..MaxCount, byteLength : 1..MaxBytes,
               nextIndex : 1..MaxCount, chunks : Pieces,
               receivedBytes : 0..MaxBytes]

ASSUME LimitsAssumption == MaxCount \in Nat /\ MaxBytes \in Nat
ASSUME NumbersAssumption ==
  Numbers \subseteq Int /\ 0..MaxCount \subseteq Numbers /\ 0..MaxBytes \subseteq Numbers
ASSUME LineAssumption ==
  /\ Whole \cap Chunk = {}
  /\ Unusable \notin Whole \cup Chunk
  /\ NoLine \notin Line
  /\ Garbled \notin Data
ASSUME ReadableAssumption == Readable \subseteq Pieces
ASSUME TotalAssumption ==
  /\ Size \in [Data -> Nat]
  /\ Total \in [Pieces -> Nat]
  /\ Total[<<>>] = 0
  /\ \A p \in Pieces, d \in Data :
       Len(p) < MaxCount => Total[Append(p, d)] = Total[p] + Size[d]
ASSUME NoChunkAssumption == NoChunk \notin ChunkState

DecoderTypeOK ==
  /\ line \in {NoLine} \cup Line
  /\ activeChunk \in {NoChunk} \cup ChunkState
  /\ activeChunk # NoChunk =>
       /\ Len(activeChunk.chunks) = activeChunk.nextIndex
       /\ activeChunk.nextIndex < activeChunk.count
       /\ activeChunk.receivedBytes = Total[activeChunk.chunks]
       /\ activeChunk.receivedBytes <= activeChunk.byteLength
  /\ result \in Stream!Result

Init ==
  /\ line = NoLine
  /\ activeChunk = NoChunk
  /\ result = [frames |-> <<>>, threw |-> FALSE]

Returns(frames) == result' = [frames |-> frames, threw |-> FALSE]
Throws == result' = [frames |-> <<>>, threw |-> TRUE]
Resets == activeChunk' = NoChunk

-----------------------------------------------------------------------------
\* The line is too long, is not JSON, or not an object with a type.
LineUnusable(l) ==
  /\ l = Unusable
  /\ Resets
  /\ Throws

\* Between two chunks it is lost together with them.
WholeFrame(l) ==
  /\ l \in Whole
  /\ Resets
  /\ IF activeChunk = NoChunk THEN Returns(<<l>>) ELSE Throws

\* Its metadata are of the wrong type or out of bounds, or its data are not
\* canonical base64.
WellFormed(l) ==
  /\ 0 <= l.index
  /\ 1 <= l.count /\ l.count <= MaxCount
  /\ l.index < l.count
  /\ 1 <= l.byteLength /\ l.byteLength <= MaxBytes
  /\ l.data # Garbled

ChunkInvalid(l) ==
  /\ l \in Chunk
  /\ ~WellFormed(l)
  /\ Resets
  /\ Throws

Valid(l) == l \in Chunk /\ WellFormed(l)

\* No sequence is open, and this chunk does not start one: nothing to reset.
ChunkOutOfNowhere(l) ==
  /\ Valid(l)
  /\ activeChunk = NoChunk
  /\ l.index # 0
  /\ UNCHANGED activeChunk
  /\ Throws

Active(l) ==
  IF activeChunk = NoChunk
    THEN [chunkId |-> l.chunkId, count |-> l.count, byteLength |-> l.byteLength,
          nextIndex |-> 0, chunks |-> <<>>, receivedBytes |-> 0]
    ELSE activeChunk

\* Seeded fault: chunks of different frames are not told apart.
SameFrameByPlace(l) ==
  /\ Active(l).count = l.count
  /\ Active(l).byteLength = l.byteLength
  /\ Active(l).nextIndex = l.index

SameFrame(l) ==
  /\ Active(l).chunkId = l.chunkId
  /\ Active(l).count = l.count
  /\ Active(l).byteLength = l.byteLength
  /\ Active(l).nextIndex = l.index

ChunkMismatched(l) ==
  /\ Valid(l)
  /\ activeChunk # NoChunk
  /\ ~SameFrame(l)
  /\ Resets
  /\ Throws

\* A chunk that continues the open sequence, or starts one.
Continues(l) == Valid(l) /\ SameFrame(l)

Received(l) == Active(l).receivedBytes + Size[l.data]
Chunks(l) == Append(Active(l).chunks, l.data)

\* Seeded fault: only the limit of the decoder is enforced.
WithinCap(l) == Received(l) <= MaxBytes

Within(l) == Received(l) <= Active(l).byteLength /\ Received(l) <= MaxBytes

SequenceTooLong(l) ==
  /\ Continues(l)
  /\ ~Within(l)
  /\ Resets
  /\ Throws

ChunkHeld(l) ==
  /\ Continues(l)
  /\ Within(l)
  /\ Active(l).nextIndex + 1 < Active(l).count
  /\ activeChunk' =
       [chunkId |-> Active(l).chunkId, count |-> Active(l).count,
        byteLength |-> Active(l).byteLength,
        nextIndex |-> Active(l).nextIndex + 1,
        chunks |-> Chunks(l), receivedBytes |-> Received(l)]
  /\ Returns(<<>>)

\* The last chunk: the declared length must be met, and the concatenation must
\* be valid UTF-8, JSON, and a frame that is no chunk itself.
SequenceEnds(l) ==
  /\ Continues(l)
  /\ Within(l)
  /\ Active(l).nextIndex + 1 >= Active(l).count
  /\ Resets
  /\ IF Received(l) = Active(l).byteLength /\ Chunks(l) \in Readable
       THEN Returns(<<Chunks(l)>>)
       ELSE Throws

\* assertComplete, in handleExit.
AssertComplete ==
  /\ line = NoLine
  /\ UNCHANGED line
  /\ IF activeChunk = NoChunk THEN Returns(<<>>) ELSE Throws
  /\ Resets

-----------------------------------------------------------------------------
\* The frame queue comes to the next line.
LineTaken ==
  /\ line = NoLine
  /\ line' \in Line
  /\ UNCHANGED <<activeChunk, result>>

Decode(l) ==
  \/ LineUnusable(l) \/ WholeFrame(l) \/ ChunkInvalid(l) \/ ChunkOutOfNowhere(l)
  \/ ChunkMismatched(l) \/ SequenceTooLong(l) \/ ChunkHeld(l) \/ SequenceEnds(l)

LineDecoded ==
  /\ line # NoLine
  /\ line' = NoLine
  /\ Decode(line)

Next == LineTaken \/ LineDecoded \/ AssertComplete

DecoderSpec == Init /\ [][Next]_decoderVars

\* What is returned is always a whole line, or the chunks of exactly one frame
\* in exactly their order, of the declared length; nothing that is neither held
\* nor returned goes without an error; and what is held is bounded.  The lines
\* may be anything: chunks of two frames interleaved, repeated, missing, of
\* changing metadata, cut off by the end of the process.
\* (decodeChunk compares each chunk with the state the chunks before it left.)
ImplementsStream == Stream!StreamSpec
=============================================================================
