\* Two streams of two lengths, two storage faults of any kind between sealing
\* and opening, both decoders.
SPECIFICATION AltSpec
CONSTANTS
  r1 = r1
  r2 = r2
  a = a
  b = b
  s1 = s1
  s2 = s2
  Recipients = {r1, r2}
  SuiteOf <- MCSuiteOf
  Bad = Bad
  Empty = Empty
  Streams = {s1, s2}
  Byte = {a, b}
  Messages <- MCMessages
  ChunkSizes = {1}
  BaseNonces = {0}
  U32Max = 7
  TagLen = 1
  None = None
  MaxFaults = 2
INVARIANTS StreamInv WholeOrNothing NonceUnique SameStreamVerdict
SYMMETRY MCSymmetry
