SPECIFICATION DecoderSpec
CONSTANTS
  ping = ping
  a = a
  b = b
  Whole = {ping}
  Unusable = Unusable
  Ids = {a, b}
  Numbers <- NumbersOf
  Data = {"empty", "small", "large"}
  Garbled = Garbled
  Size <- SizeOf
  Total <- TotalOf
  Readable <- ReadableOf
  MaxCount = 3
  MaxBytes = 4
  NoLine = NoLine
  NoChunk = NoChunk
INVARIANTS DecoderTypeOK
PROPERTIES ImplementsStream
