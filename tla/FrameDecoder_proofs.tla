------------------------- MODULE FrameDecoder_proofs -------------------------
(***************************************************************************)
(* The decoder is type correct, and it implements FrameStream, for any     *)
(* limits, frames, identifiers and contents.                               *)
(***************************************************************************)
EXTENDS FrameDecoder, SequenceTheorems, TLAPS

USE DEF Line, Chunk, Pieces

LEMMA PiecesAre ==
  ASSUME NEW n \in Nat, n <= MaxCount, NEW p \in [1..n -> Data]
  PROVE  p \in Pieces /\ Len(p) = n /\ p \in Seq(Data)
<1>1. p \in Pieces
  BY LimitsAssumption DEF Stream!Pieces
<1> QED
  BY <1>1

LEMMA AppendIs ==
  ASSUME NEW n \in Nat, NEW p \in [1..n -> Data], NEW d \in Data
  PROVE  /\ Append(p, d) \in [1..(n + 1) -> Data]
         /\ \A i \in 1..n : Append(p, d)[i] = p[i]
         /\ Append(p, d)[n + 1] = d
<1>1. p \in Seq(Data) /\ Len(p) = n
  OBVIOUS
<1>2. Append(p, d) \in Seq(Data) /\ Len(Append(p, d)) = n + 1
  BY <1>1, AppendProperties
<1>3. Append(p, d) \in [1..(n + 1) -> Data]
  BY <1>2, LenProperties
<1>4. /\ \A i \in 1..n : Append(p, d)[i] = p[i]
      /\ Append(p, d)[n + 1] = d
  BY <1>1, AppendProperties
<1> QED
  BY <1>3, <1>4

\* The state against which a chunk of a known frame is compared.
LEMMA ActiveIsSound ==
  ASSUME DecoderTypeOK, NEW l, Continues(l)
  PROVE  /\ Active(l).chunkId = l.chunkId /\ l.chunkId \in Ids
         /\ Active(l).count = l.count /\ l.count \in 1..MaxCount
         /\ Active(l).byteLength = l.byteLength /\ l.byteLength \in 1..MaxBytes
         /\ Active(l).nextIndex = l.index /\ l.index \in 0..(l.count - 1)
         /\ l.data \in Data
         /\ Active(l).chunks \in [1..l.index -> Data]
         /\ Active(l).receivedBytes = Total[Active(l).chunks]
         /\ Active(l).receivedBytes \in Nat
<1>1. l \in Chunk /\ WellFormed(l) /\ SameFrame(l)
  BY DEF Continues, Valid
<1>2. /\ l.chunkId \in Ids /\ l.index \in Int /\ l.count \in Int
      /\ l.byteLength \in Int /\ l.data \in Data \cup {Garbled}
  BY <1>1, NumbersAssumption DEF Stream!Chunk
<1>3. /\ l.count \in 1..MaxCount /\ l.index \in 0..(l.count - 1)
      /\ l.byteLength \in 1..MaxBytes /\ l.data \in Data
  BY <1>1, <1>2, LimitsAssumption DEF WellFormed
<1>4. /\ Active(l).chunkId = l.chunkId /\ Active(l).count = l.count
      /\ Active(l).byteLength = l.byteLength /\ Active(l).nextIndex = l.index
  BY <1>1 DEF SameFrame
<1>5. CASE activeChunk = NoChunk
  <2>1. Active(l).nextIndex = 0 /\ Active(l).chunks = <<>>
        /\ Active(l).receivedBytes = 0
    BY <1>5 DEF Active
  <2>2. <<>> \in [1..0 -> Data]
    OBVIOUS
  <2> QED
    BY <1>2, <1>3, <1>4, <2>1, <2>2, TotalAssumption
<1>6. CASE activeChunk # NoChunk
  <2>1. Active(l) = activeChunk
    BY <1>6 DEF Active
  <2>2. /\ activeChunk.chunks \in Pieces
        /\ Len(activeChunk.chunks) = activeChunk.nextIndex
        /\ activeChunk.receivedBytes = Total[activeChunk.chunks]
        /\ activeChunk.receivedBytes \in Nat
    BY <1>6, LimitsAssumption DEF DecoderTypeOK, ChunkState
  <2>3. PICK n \in 0..MaxCount : activeChunk.chunks \in [1..n -> Data]
    BY <2>2 DEF Stream!Pieces
  <2>4. Len(activeChunk.chunks) = n
    BY <2>3, PiecesAre, LimitsAssumption
  <2>5. n = l.index
    BY <1>4, <2>1, <2>2, <2>4
  <2> QED
    BY <1>2, <1>3, <1>4, <2>1, <2>2, <2>3, <2>5
<1> QED
  BY <1>5, <1>6

LEMMA ChunksAreSound ==
  ASSUME DecoderTypeOK, NEW l, Continues(l)
  PROVE  /\ Chunks(l) \in [1..(l.index + 1) -> Data]
         /\ Chunks(l) \in Pieces /\ Len(Chunks(l)) = l.index + 1
         /\ Received(l) = Total[Chunks(l)] /\ Received(l) \in Nat
<1> DEFINE p == Active(l).chunks
           n == l.index
<1>1. /\ n \in Nat /\ l.count \in 1..MaxCount /\ n < l.count /\ l.data \in Data
      /\ p \in [1..n -> Data]
      /\ Active(l).receivedBytes = Total[p] /\ Active(l).receivedBytes \in Nat
  BY ActiveIsSound, LimitsAssumption
<1>2. p \in Pieces /\ Len(p) = n /\ p \in Seq(Data)
  BY <1>1, PiecesAre, LimitsAssumption
<1>3. Append(p, l.data) \in [1..(n + 1) -> Data]
  BY <1>1, AppendIs
<1>4. Append(p, l.data) \in Pieces /\ Len(Append(p, l.data)) = n + 1
  <2>1. n + 1 \in Nat /\ n + 1 <= MaxCount
    BY <1>1, LimitsAssumption
  <2> QED
    BY <1>3, <2>1, PiecesAre
<1>5. n < MaxCount
  BY <1>1, LimitsAssumption
<1>6. Total[Append(p, l.data)] = Total[p] + Size[l.data]
  BY <1>1, <1>2, <1>5, TotalAssumption
<1>7. Size[l.data] \in Nat
  BY <1>1, TotalAssumption
<1> QED
  BY <1>1, <1>3, <1>4, <1>6, <1>7 DEF Chunks, Received

-----------------------------------------------------------------------------
LEMMA ErrorIsResult == [frames |-> <<>>, threw |-> TRUE] \in Stream!Result
  BY DEF Stream!Result

LEMMA NothingIsResult == [frames |-> <<>>, threw |-> FALSE] \in Stream!Result
  BY DEF Stream!Result

LEMMA FrameIsResult ==
  ASSUME NEW f \in Whole \cup Pieces
  PROVE  [frames |-> <<f>>, threw |-> FALSE] \in Stream!Result
  BY DEF Stream!Result

\* Type correctness of a decoder that is idle afterwards.
LEMMA IdleIsTyped ==
  ASSUME line' \in {NoLine} \cup Line, activeChunk' = NoChunk,
         result' \in Stream!Result
  PROVE  DecoderTypeOK'
  BY DEF DecoderTypeOK, Stream!Line, Stream!Chunk, Stream!Result, Stream!Pieces

LEMMA HoldingIsTyped ==
  ASSUME DecoderTypeOK, NEW l, ChunkHeld(l), line' = NoLine
  PROVE  DecoderTypeOK'
<1>1. Continues(l) /\ Within(l) /\ Active(l).nextIndex + 1 < Active(l).count
  BY DEF ChunkHeld
<1> DEFINE a == Active(l)
<1>2. /\ l.chunkId \in Ids /\ l.count \in 1..MaxCount /\ l.byteLength \in 1..MaxBytes
      /\ l.index \in 0..(l.count - 1)
      /\ a.nextIndex = l.index /\ a.count = l.count
      /\ a.chunkId = l.chunkId /\ a.byteLength = l.byteLength
  BY <1>1, ActiveIsSound
<1>3. activeChunk' = [chunkId |-> l.chunkId, count |-> l.count,
                      byteLength |-> l.byteLength, nextIndex |-> l.index + 1,
                      chunks |-> Chunks(l), receivedBytes |-> Received(l)]
  BY <1>2 DEF ChunkHeld
<1>4. /\ Chunks(l) \in Pieces /\ Len(Chunks(l)) = l.index + 1
      /\ Received(l) = Total[Chunks(l)] /\ Received(l) \in Nat
  BY <1>1, ChunksAreSound
<1>5. Received(l) <= l.byteLength /\ Received(l) \in 0..MaxBytes
  BY <1>1, <1>2, <1>4, LimitsAssumption DEF Within
<1>6. l.index + 1 \in 1..MaxCount /\ l.index + 1 < l.count
  BY <1>1, <1>2, LimitsAssumption
<1>7. activeChunk' \in ChunkState
  BY <1>2, <1>3, <1>4, <1>5, <1>6 DEF ChunkState
<1>8. result' \in Stream!Result
  BY NothingIsResult DEF ChunkHeld, Returns
<1>9. /\ activeChunk'.nextIndex = l.index + 1 /\ activeChunk'.chunks = Chunks(l)
       /\ activeChunk'.receivedBytes = Received(l)
       /\ activeChunk'.count = l.count /\ activeChunk'.byteLength = l.byteLength
  BY <1>3
<1> QED
  BY <1>4, <1>5, <1>6, <1>7, <1>8, <1>9
     DEF DecoderTypeOK, Stream!Line, Stream!Chunk, Stream!Result, Stream!Pieces

LEMMA DecodingIsTyped ==
  ASSUME DecoderTypeOK, NEW l \in Line, Decode(l), line' = NoLine
  PROVE  DecoderTypeOK'
<1>1. ASSUME Throws
      PROVE  result' \in Stream!Result
  BY <1>1, ErrorIsResult DEF Throws
<1>2. CASE LineUnusable(l) \/ ChunkInvalid(l) \/ ChunkMismatched(l)
           \/ SequenceTooLong(l)
  BY <1>1, <1>2, IdleIsTyped
     DEF LineUnusable, ChunkInvalid, ChunkMismatched, SequenceTooLong, Resets
<1>3. CASE WholeFrame(l)
  <2>1. result' \in Stream!Result
    BY <1>1, <1>3, FrameIsResult DEF WholeFrame, Returns
  <2> QED
    BY <1>3, <2>1, IdleIsTyped DEF WholeFrame, Resets
<1>4. CASE ChunkOutOfNowhere(l)
  BY <1>1, <1>4, IdleIsTyped DEF ChunkOutOfNowhere
<1>5. CASE ChunkHeld(l)
  BY <1>5, HoldingIsTyped
<1>6. CASE SequenceEnds(l)
  <2>1. Chunks(l) \in Pieces
    BY <1>6, ChunksAreSound DEF SequenceEnds
  <2>2. result' \in Stream!Result
    BY <1>1, <1>6, <2>1, FrameIsResult DEF SequenceEnds, Returns
  <2> QED
    BY <1>6, <2>2, IdleIsTyped DEF SequenceEnds, Resets
<1> QED
  BY <1>2, <1>3, <1>4, <1>5, <1>6 DEF Decode

LEMMA StepIsTyped ==
  ASSUME DecoderTypeOK, [Next]_decoderVars
  PROVE  DecoderTypeOK'
<1>1. CASE LineTaken
  BY <1>1 DEF LineTaken, DecoderTypeOK, Stream!Line, Stream!Chunk, Stream!Result,
              Stream!Pieces
<1>2. CASE LineDecoded
  <2>1. line \in Line /\ Decode(line) /\ line' = NoLine
    BY <1>2 DEF LineDecoded, DecoderTypeOK
  <2> QED
    BY <2>1, DecodingIsTyped
<1>3. CASE AssertComplete
  <2>1. result' \in Stream!Result
    BY <1>3, ErrorIsResult, NothingIsResult DEF AssertComplete, Returns, Throws
  <2> QED
    BY <1>3, <2>1, IdleIsTyped DEF AssertComplete, Resets
<1>4. CASE UNCHANGED decoderVars
  BY <1>4 DEF decoderVars, DecoderTypeOK, Stream!Line, Stream!Chunk,
              Stream!Result, Stream!Pieces
<1> QED
  BY <1>1, <1>2, <1>3, <1>4 DEF Next

\* Every behaviour of the decoder is type correct: what it holds is bounded by
\* the declared length of the frame and by the limits of the decoder, and the
\* bytes it has counted are those it holds.
THEOREM DecoderTypeCorrect == DecoderSpec => []DecoderTypeOK
<1>1. Init => DecoderTypeOK
  BY NothingIsResult DEF Init, DecoderTypeOK
<1> QED
  BY <1>1, StepIsTyped, PTL DEF DecoderSpec

-----------------------------------------------------------------------------
(* The refinement: what the decoder holds are the lines themselves *)


-----------------------------------------------------------------------------
(* The refinement: the decoder accepts what is the beginning of a frame *)

HeldCount == IF activeChunk = NoChunk THEN 0 ELSE activeChunk.nextIndex

HeldChunk(i) == [chunkId |-> activeChunk.chunkId, index |-> i - 1,
                 count |-> activeChunk.count, byteLength |-> activeChunk.byteLength,
                 data |-> activeChunk.chunks[i]]

\* What is held are the chunks 0, 1, ... of one frame.
LEMMA HeldIs ==
  ASSUME DecoderTypeOK
  PROVE  /\ HeldCount \in Nat
         /\ Held \in [1..HeldCount -> Chunk]
         /\ \A i \in 1..HeldCount : Held[i] = HeldChunk(i)
         /\ \A i \in 1..HeldCount : Stream!Acceptable(HeldChunk(i))
<1>1. CASE activeChunk = NoChunk
  BY <1>1 DEF Held, HeldCount
<1>2. CASE activeChunk # NoChunk
  <2> DEFINE n == activeChunk.nextIndex
  <2>1. /\ activeChunk.chunkId \in Ids /\ activeChunk.count \in 1..MaxCount
        /\ activeChunk.byteLength \in 1..MaxBytes /\ n \in 1..MaxCount
        /\ activeChunk.chunks \in Pieces /\ Len(activeChunk.chunks) = n
        /\ n < activeChunk.count
    BY <1>2 DEF DecoderTypeOK, ChunkState
  <2>2. PICK k \in 0..MaxCount : activeChunk.chunks \in [1..k -> Data]
    BY <2>1 DEF Stream!Pieces
  <2>3. k = n
    BY <2>1, <2>2, PiecesAre, LimitsAssumption
  <2>4. HeldCount = n /\ Held = [i \in 1..n |-> HeldChunk(i)]
    BY <1>2 DEF Held, HeldCount, HeldChunk
  <2>5. ASSUME NEW i \in 1..n
        PROVE  HeldChunk(i) \in Chunk /\ Stream!Acceptable(HeldChunk(i))
    <3>1. /\ activeChunk.chunks[i] \in Data
          /\ i - 1 \in 0..(activeChunk.count - 1) /\ i - 1 \in 0..MaxCount
          /\ activeChunk.count \in 0..MaxCount
          /\ activeChunk.byteLength \in 0..MaxBytes
      BY <2>1, <2>2, <2>3, LimitsAssumption
    <3>2. /\ i - 1 \in Numbers /\ activeChunk.count \in Numbers
          /\ activeChunk.byteLength \in Numbers
          /\ activeChunk.chunks[i] # Garbled
      BY <3>1, NumbersAssumption, LineAssumption
    <3>3. HeldChunk(i) \in Chunk
      BY <2>1, <3>1, <3>2 DEF HeldChunk, Stream!Chunk
    <3> QED
      BY <2>1, <3>1, <3>2, <3>3 DEF HeldChunk, Stream!Acceptable
  <2> QED
    BY <2>1, <2>4, <2>5, LimitsAssumption
<1> QED
  BY <1>1, <1>2

LEMMA HoldsNothing ==
  ASSUME DecoderTypeOK
  PROVE  Held = <<>> <=> activeChunk = NoChunk
<1>1. ASSUME activeChunk # NoChunk
      PROVE  Held # <<>>
  <2>1. HeldCount \in Nat \ {0} /\ Held \in [1..HeldCount -> Chunk]
    BY <1>1, HeldIs, LimitsAssumption DEF HeldCount, DecoderTypeOK, ChunkState
  <2> QED
    BY <2>1
<1> QED
  BY <1>1 DEF Held

\* The lines up to l.
LEMMA LinesAre ==
  ASSUME DecoderTypeOK, NEW l \in Line
  PROVE  LET ls == Append(Held, l) IN
         /\ Len(ls) = HeldCount + 1
         /\ ls[HeldCount + 1] = l
         /\ \A i \in 1..HeldCount : ls[i] = HeldChunk(i)
<1>1. HeldCount \in Nat /\ Held \in [1..HeldCount -> Chunk]
      /\ \A i \in 1..HeldCount : Held[i] = HeldChunk(i)
  BY HeldIs
<1>2. Held \in Seq(Line) /\ Len(Held) = HeldCount
  BY <1>1 DEF Stream!Line
<1> QED
  BY <1>1, <1>2, AppendProperties

LEMMA AcceptableIsValid ==
  ASSUME NEW l \in Line
  PROVE  Stream!Acceptable(l) <=> Valid(l)
<1>1. CASE l \in Chunk
  <2>1. l.index \in Int /\ l.count \in Int /\ l.byteLength \in Int
    BY <1>1, NumbersAssumption DEF Stream!Chunk
  <2> QED
    BY <1>1, <2>1, LimitsAssumption DEF Stream!Acceptable, Valid, WellFormed
<1>2. CASE l \notin Chunk
  BY <1>2 DEF Stream!Acceptable, Valid
<1> QED
  BY <1>1, <1>2

LEMMA InOrderIsContinues ==
  ASSUME DecoderTypeOK, NEW l \in Line
  PROVE  Stream!InOrder(Append(Held, l)) <=> Continues(l)
<1> DEFINE ls == Append(Held, l)
           n == HeldCount
<1>0. /\ n \in Nat /\ Len(ls) = n + 1 /\ ls[n + 1] = l
      /\ \A i \in 1..n : ls[i] = HeldChunk(i)
      /\ \A i \in 1..n : Stream!Acceptable(HeldChunk(i))
  BY HeldIs, LinesAre
<1> HIDE DEF ls, n
<1>1. ASSUME NEW i \in 1..n
      PROVE  /\ HeldChunk(i).index = i - 1
             /\ HeldChunk(i).chunkId = activeChunk.chunkId
             /\ HeldChunk(i).count = activeChunk.count
             /\ HeldChunk(i).byteLength = activeChunk.byteLength
  BY DEF HeldChunk
<1>2. CASE activeChunk = NoChunk
  <2>1. n = 0
    BY <1>2 DEF n, HeldCount
  <2>2. Stream!InOrder(ls) <=> Stream!Acceptable(l) /\ l.index = 0
    BY <1>0, <2>1 DEF Stream!InOrder
  <2>3. SameFrame(l) <=> l.index = 0
    BY <1>2 DEF SameFrame, Active
  <2> QED
    BY <2>2, <2>3, AcceptableIsValid DEF Continues, ls
<1>3. CASE activeChunk # NoChunk
  <2>1. n = activeChunk.nextIndex /\ n \in Nat \ {0}
    BY <1>0, <1>3, LimitsAssumption DEF n, HeldCount, DecoderTypeOK, ChunkState
  <2>2. ls[1] = HeldChunk(1) /\ 1 \in 1..n
    BY <1>0, <2>1
  <2>3. /\ ls[1].chunkId = activeChunk.chunkId /\ ls[1].count = activeChunk.count
        /\ ls[1].byteLength = activeChunk.byteLength
    BY <1>1, <2>2
  <2>4. SameFrame(l) <=> /\ l.index = n
                         /\ l.chunkId = ls[1].chunkId
                         /\ l.count = ls[1].count
                         /\ l.byteLength = ls[1].byteLength
    BY <1>3, <2>1, <2>3 DEF SameFrame, Active
  <2>5. Stream!InOrder(ls) => Stream!Acceptable(l) /\ SameFrame(l)
    <3>1. n + 1 \in 1..Len(ls) /\ (n + 1) - 1 = n
      BY <1>0
    <3> QED
      BY <1>0, <2>4, <3>1 DEF Stream!InOrder
  <2>6. ASSUME Stream!Acceptable(l), SameFrame(l), NEW i \in 1..Len(ls)
        PROVE  /\ Stream!Acceptable(ls[i])
               /\ ls[i].index = i - 1
               /\ ls[i].chunkId = ls[1].chunkId
               /\ ls[i].count = ls[1].count
               /\ ls[i].byteLength = ls[1].byteLength
    <3>1. CASE i \in 1..n
      BY <1>0, <1>1, <2>3, <3>1
    <3>2. CASE i = n + 1
      BY <1>0, <2>4, <2>6, <3>2
    <3> QED
      BY <1>0, <3>1, <3>2
  <2> QED
    BY <2>5, <2>6, AcceptableIsValid DEF Continues, Stream!InOrder, ls
<1> QED
  BY <1>2, <1>3

\* The decoder counts and concatenates what the lines contain.
LEMMA ContentsAreChunks ==
  ASSUME DecoderTypeOK, NEW l \in Line, Continues(l)
  PROVE  LET ls == Append(Held, l) IN
         /\ Len(ls) = Active(l).nextIndex + 1
         /\ ls[1].count = Active(l).count
         /\ ls[1].byteLength = Active(l).byteLength
         /\ Stream!Contents(ls) = Chunks(l)
         /\ Total[Stream!Contents(ls)] = Received(l)
<1> DEFINE ls == Append(Held, l)
           n == HeldCount
<1>0. /\ n \in Nat /\ Len(ls) = n + 1 /\ ls[n + 1] = l
      /\ \A i \in 1..n : ls[i] = HeldChunk(i)
  BY HeldIs, LinesAre
<1>1. /\ Active(l).count = l.count /\ Active(l).byteLength = l.byteLength
      /\ Active(l).nextIndex = l.index /\ l.data \in Data
      /\ Active(l).chunks \in [1..l.index -> Data]
      /\ l.index \in 0..(l.count - 1) /\ l.count \in 1..MaxCount
  BY ActiveIsSound
<1>2. n = l.index
  BY <1>1, LimitsAssumption DEF HeldCount, Active
<1>3. ls[1].count = Active(l).count /\ ls[1].byteLength = Active(l).byteLength
  <2>1. CASE activeChunk = NoChunk
    BY <1>0, <1>1, <2>1 DEF HeldCount
  <2>2. CASE activeChunk # NoChunk
    <3>1. n \in Nat \ {0} /\ Active(l) = activeChunk
      BY <1>0, <2>2, LimitsAssumption DEF HeldCount, DecoderTypeOK, ChunkState, Active
    <3>2. ls[1] = HeldChunk(1)
      BY <1>0, <3>1
    <3> HIDE DEF ls
    <3> QED
      BY <3>1, <3>2 DEF HeldChunk
  <2> QED
    BY <2>1, <2>2
<1>4. /\ Chunks(l) \in [1..(n + 1) -> Data]
      /\ \A i \in 1..n : Chunks(l)[i] = Active(l).chunks[i]
      /\ Chunks(l)[n + 1] = l.data
  BY <1>0, <1>1, <1>2, AppendIs DEF Chunks
<1>5. \A i \in 1..n : ls[i].data = Active(l).chunks[i]
  <2>1. CASE activeChunk = NoChunk
    BY <2>1 DEF HeldCount
  <2>2. CASE activeChunk # NoChunk
    <3>1. \A i \in 1..n : ls[i] = HeldChunk(i)
      BY <1>0
    <3>2. Active(l) = activeChunk
      BY <2>2 DEF Active
    <3>3. \A i \in 1..n : HeldChunk(i).data = activeChunk.chunks[i]
      BY DEF HeldChunk
    <3> HIDE DEF ls, n
    <3> QED
      BY <3>1, <3>2, <3>3
  <2> QED
    BY <2>1, <2>2
<1>6. Stream!Contents(ls) = [i \in 1..(n + 1) |-> ls[i].data]
  BY <1>0 DEF Stream!Contents
<1> HIDE DEF ls, n
<1>7. \A i \in 1..(n + 1) : ls[i].data = Chunks(l)[i]
  BY <1>0, <1>4, <1>5
<1>8. Stream!Contents(ls) = Chunks(l)
  BY <1>4, <1>6, <1>7
<1>9. Received(l) = Total[Chunks(l)]
  BY ChunksAreSound
<1> QED
  BY <1>0, <1>1, <1>2, <1>3, <1>8, <1>9 DEF ls, n

-----------------------------------------------------------------------------
\* What is held after the step, when nothing is or one chunk more.
LEMMA IdleHoldsNothing ==
  ASSUME activeChunk' = NoChunk
  PROVE  Held' = <<>>
  BY DEF Held

LEMMA HoldingOneMore ==
  ASSUME DecoderTypeOK, NEW l \in Line, ChunkHeld(l), line' = NoLine
  PROVE  Held' = Append(Held, l)
<1> DEFINE n == HeldCount
           a == activeChunk'
<1>1. /\ Active(l).chunkId = l.chunkId /\ Active(l).count = l.count
      /\ Active(l).byteLength = l.byteLength /\ Active(l).nextIndex = l.index
      /\ l.data \in Data /\ l.index \in 0..(l.count - 1) /\ l.count \in 1..MaxCount
      /\ Active(l).chunks \in [1..l.index -> Data]
  BY ActiveIsSound DEF ChunkHeld
<1>2. n = l.index /\ n \in Nat
  BY <1>1, LimitsAssumption DEF HeldCount, Active
<1>3. a = [chunkId |-> l.chunkId, count |-> l.count, byteLength |-> l.byteLength,
           nextIndex |-> n + 1, chunks |-> Chunks(l), receivedBytes |-> Received(l)]
  BY <1>1, <1>2 DEF ChunkHeld
<1>4. DecoderTypeOK' /\ a # NoChunk
  <2>1. DecoderTypeOK'
    BY HoldingIsTyped
  <2>2. a \in ChunkState
    <3>1. /\ l.chunkId \in Ids /\ l.byteLength \in 1..MaxBytes
          /\ Chunks(l) \in Pieces /\ Received(l) \in Nat
      BY ActiveIsSound, ChunksAreSound DEF ChunkHeld
    <3>2. n + 1 \in 1..MaxCount /\ Received(l) \in 0..MaxBytes
      BY <1>1, <1>2, <3>1, LimitsAssumption DEF ChunkHeld, Within
    <3> QED
      BY <1>1, <1>3, <3>1, <3>2 DEF ChunkState
  <2> QED
    BY <2>1, <2>2, NoChunkAssumption
<1>5. Held' = [i \in 1..(n + 1) |->
                 [chunkId |-> l.chunkId, index |-> i - 1, count |-> l.count,
                  byteLength |-> l.byteLength, data |-> Chunks(l)[i]]]
  BY <1>3, <1>4 DEF Held
<1>6. /\ \A i \in 1..n : Chunks(l)[i] = Active(l).chunks[i]
      /\ Chunks(l)[n + 1] = l.data
  BY <1>1, <1>2, AppendIs DEF Chunks
<1>7. /\ Held \in [1..n -> Chunk]
      /\ \A i \in 1..n : Held[i] = HeldChunk(i)
  BY HeldIs
<1>8. l \in Chunk
  BY DEF ChunkHeld, Continues, Valid
<1>9. Append(Held, l) = [i \in 1..(n + 1) |-> IF i <= n THEN Held[i] ELSE l]
  <2>1. Held \in Seq(Chunk) /\ Len(Held) = n
    BY <1>2, <1>7
  <2>2. Append(Held, l) \in Seq(Chunk) /\ Len(Append(Held, l)) = n + 1
        /\ (\A i \in 1..n : Append(Held, l)[i] = Held[i])
        /\ Append(Held, l)[n + 1] = l
    BY <1>8, <2>1, AppendProperties
  <2>3. Append(Held, l) \in [1..(n + 1) -> Chunk]
    BY <2>2, LenProperties
  <2> DEFINE s == Append(Held, l)
  <2>4. \A i \in 1..(n + 1) : s[i] = IF i <= n THEN Held[i] ELSE l
    BY <1>2, <2>2
  <2>5. s \in [1..(n + 1) -> Chunk]
    BY <2>3
  <2> HIDE DEF n, s
  <2>6. s = [i \in 1..(n + 1) |-> IF i <= n THEN Held[i] ELSE l]
    BY <2>4, <2>5
  <2> QED
    BY <2>6 DEF s
<1>10. ASSUME NEW i \in 1..n
       PROVE  Held[i] = [chunkId |-> l.chunkId, index |-> i - 1, count |-> l.count,
                         byteLength |-> l.byteLength, data |-> Chunks(l)[i]]
  <2>1. activeChunk # NoChunk
    BY <1>2 DEF HeldCount
  <2>2. Active(l) = activeChunk
    BY <2>1 DEF Active
  <2> QED
    BY <1>1, <1>6, <1>7, <2>2 DEF HeldChunk
<1>11. l = [chunkId |-> l.chunkId, index |-> (n + 1) - 1, count |-> l.count,
            byteLength |-> l.byteLength, data |-> Chunks(l)[n + 1]]
  <2>1. l.index = (n + 1) - 1
    BY <1>1, <1>2
  <2> HIDE DEF n
  <2> QED
    BY <1>6, <1>8, <2>1 DEF Stream!Chunk
<1> HIDE DEF n, a
<1> QED
  BY <1>2, <1>5, <1>9, <1>10, <1>11

-----------------------------------------------------------------------------
(* Every step of the decoder is one of the stream *)

LEMMA DecodingImplements ==
  ASSUME DecoderTypeOK, line # NoLine, line \in Line, Decode(line), line' = NoLine
  PROVE  Stream!Receive
<1> DEFINE ls == Append(Held, line)
           alone == Held = <<>> /\ line \in Whole
<1>1. Stream!InOrder(ls) <=> Continues(line)
  BY InOrderIsContinues
<1>2. Continues(line) =>
        /\ Len(ls) = Active(line).nextIndex + 1
        /\ ls[1].count = Active(line).count
        /\ ls[1].byteLength = Active(line).byteLength
        /\ Stream!Contents(ls) = Chunks(line)
        /\ Total[Stream!Contents(ls)] = Received(line)
  BY ContentsAreChunks
<1>3. Held = <<>> <=> activeChunk = NoChunk
  BY HoldsNothing
<1>4. line \in Chunk => line \notin Whole /\ line # Unusable
  BY LineAssumption
<1>5. Continues(line) => /\ line \in Chunk
                         /\ Active(line).nextIndex \in Nat
                         /\ Active(line).count \in Nat
                         /\ Active(line).nextIndex < Active(line).count
                         /\ Active(line).byteLength \in 1..MaxBytes
                         /\ Received(line) \in Nat
  <2> SUFFICES ASSUME Continues(line)
               PROVE  /\ line \in Chunk
                      /\ Active(line).nextIndex \in Nat
                      /\ Active(line).count \in Nat
                      /\ Active(line).nextIndex < Active(line).count
                      /\ Active(line).byteLength \in 1..MaxBytes
                      /\ Received(line) \in Nat
    OBVIOUS
  <2> QED
    BY ActiveIsSound, ChunksAreSound, LimitsAssumption DEF Continues, Valid
<1>6. Continues(line) =>
        /\ Stream!Partial(ls) <=> /\ Active(line).nextIndex + 1 < Active(line).count
                                  /\ Within(line)
        /\ Stream!Complete(ls) <=> /\ Active(line).nextIndex + 1 = Active(line).count
                                   /\ Received(line) = Active(line).byteLength
                                   /\ Chunks(line) \in Readable
  <2> SUFFICES ASSUME Continues(line)
               PROVE  /\ Stream!Partial(ls) <=>
                            /\ Active(line).nextIndex + 1 < Active(line).count
                            /\ Within(line)
                      /\ Stream!Complete(ls) <=>
                            /\ Active(line).nextIndex + 1 = Active(line).count
                            /\ Received(line) = Active(line).byteLength
                            /\ Chunks(line) \in Readable
    OBVIOUS
  <2> HIDE DEF ls
  <2>1. Within(line) <=> Received(line) <= Active(line).byteLength
    BY <1>5, LimitsAssumption DEF Within
  <2> QED
    BY <1>1, <1>2, <2>1 DEF Stream!Partial, Stream!Complete
<1>7. ~Continues(line) => ~Stream!Partial(ls) /\ ~Stream!Complete(ls)
  BY <1>1 DEF Stream!Partial, Stream!Complete
<1> HIDE DEF ls
<1>8. ASSUME ~alone, ~Stream!Complete(ls), ~Stream!Partial(ls),
             Throws, Held' = <<>>
      PROVE  Stream!Receive
  BY <1>8 DEF Stream!Receive, Stream!Throws, Throws, ls
<1>9. CASE LineUnusable(line)
  <2>1. line \notin Whole /\ line \notin Chunk
    BY <1>9, LineAssumption DEF LineUnusable
  <2>2. ~Continues(line)
    BY <2>1 DEF Continues, Valid
  <2> QED
    BY <1>7, <1>8, <1>9, <2>1, <2>2, IdleHoldsNothing DEF LineUnusable, Resets
<1>10. CASE WholeFrame(line)
  <2>1. line \notin Chunk /\ ~Continues(line) /\ Held' = <<>>
    BY <1>4, <1>10, IdleHoldsNothing DEF WholeFrame, Continues, Valid, Resets
  <2>2. CASE activeChunk = NoChunk
    BY <1>3, <1>10, <2>1, <2>2
       DEF WholeFrame, Stream!Receive, Returns, Stream!Returns
  <2>3. CASE activeChunk # NoChunk
    BY <1>3, <1>7, <1>8, <1>10, <2>1, <2>3 DEF WholeFrame
  <2> QED
    BY <2>2, <2>3
<1>11. CASE \/ ChunkInvalid(line) \/ ChunkOutOfNowhere(line)
            \/ ChunkMismatched(line)
  <2>1. line \in Chunk /\ Throws /\ activeChunk' = NoChunk
    BY <1>11 DEF ChunkInvalid, ChunkOutOfNowhere, ChunkMismatched, Valid, Resets
  <2>2. ~Continues(line)
    BY <1>11 DEF ChunkInvalid, ChunkOutOfNowhere, ChunkMismatched, Continues,
                 Valid, SameFrame, Active
  <2> QED
    BY <1>4, <1>7, <1>8, <2>1, <2>2, IdleHoldsNothing
<1>12. CASE SequenceTooLong(line)
  <2>1. Continues(line) /\ ~Within(line) /\ Throws /\ activeChunk' = NoChunk
    BY <1>12 DEF SequenceTooLong, Resets
  <2>2. Received(line) # Active(line).byteLength
    BY <1>5, <2>1, LimitsAssumption DEF Within
  <2> QED
    BY <1>4, <1>5, <1>6, <1>8, <2>1, <2>2, IdleHoldsNothing
<1>13. CASE ChunkHeld(line)
  <2>1. Continues(line) /\ Stream!Partial(ls) /\ Returns(<<>>)
    BY <1>6, <1>13 DEF ChunkHeld
  <2>2. Held' = ls
    BY <1>13, HoldingOneMore DEF ls
  <2> QED
    BY <2>1, <2>2 DEF Stream!Receive, Returns, Stream!Returns, ls
<1>14. CASE SequenceEnds(line)
  <2>1. /\ Continues(line) /\ Held' = <<>>
        /\ Active(line).nextIndex + 1 = Active(line).count
        /\ ~(Active(line).nextIndex + 1 < Active(line).count)
    BY <1>5, <1>14, IdleHoldsNothing DEF SequenceEnds, Resets
  <2>2. CASE Received(line) = Active(line).byteLength /\ Chunks(line) \in Readable
    <3>1. Returns(<<Stream!Contents(ls)>>) /\ Stream!Complete(ls)
      BY <1>2, <1>6, <1>14, <2>1, <2>2 DEF SequenceEnds
    <3> QED
      BY <2>1, <3>1 DEF Stream!Receive, Returns, Stream!Returns, ls
  <2>3. CASE ~(Received(line) = Active(line).byteLength /\ Chunks(line) \in Readable)
    <3>1. Throws /\ ~Stream!Complete(ls) /\ ~Stream!Partial(ls)
      BY <1>6, <1>14, <2>1, <2>3 DEF SequenceEnds
    <3> QED
      BY <1>4, <1>5, <1>8, <2>1, <3>1
  <2> QED
    BY <2>2, <2>3
<1> QED
  BY <1>9, <1>10, <1>11, <1>12, <1>13, <1>14 DEF Decode

\* The decoder implements the stream of frames: from any lines it returns the
\* frames that are in them, in their order, and nothing else, and it answers
\* every other line with an error.
THEOREM DecoderImplementsStream == DecoderSpec => ImplementsStream
<1>1. Init => Stream!StreamInit
  BY DEF Init, Stream!StreamInit, Held
<1>2. ASSUME DecoderTypeOK, [Next]_decoderVars
      PROVE  [Stream!Arrives \/ Stream!Receive \/ Stream!StreamEnds]_<<line, Held, result>>
  <2>1. CASE LineTaken
    BY <2>1 DEF LineTaken, Stream!Arrives, Held
  <2>2. CASE LineDecoded
    <3>1. line # NoLine /\ line \in Line /\ Decode(line) /\ line' = NoLine
      BY <1>2, <2>2 DEF LineDecoded, DecoderTypeOK
    <3> QED
      BY <1>2, <3>1, DecodingImplements
  <2>3. CASE AssertComplete
    <3>1. Held' = <<>> /\ (Held = <<>> <=> activeChunk = NoChunk)
      BY <1>2, <2>3, HoldsNothing, IdleHoldsNothing DEF AssertComplete, Resets
    <3> QED
      BY <2>3, <3>1 DEF AssertComplete, Stream!StreamEnds, Returns,
                        Stream!Returns, Throws, Stream!Throws
  <2>4. CASE UNCHANGED decoderVars
    BY <2>4 DEF decoderVars, Held
  <2> QED
    BY <1>2, <2>1, <2>2, <2>3, <2>4 DEF Next
<1> QED
  BY <1>1, <1>2, DecoderTypeCorrect, PTL
     DEF DecoderSpec, ImplementsStream, Stream!StreamSpec
=============================================================================
