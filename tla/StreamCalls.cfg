\* seal_stream over every length and chunk size around the limits of a small
\* u32, one storage fault or a vector of the corpus, and open_stream with every
\* key bundle, with fairness.
SPECIFICATION PstvSpec
CONSTANTS
  r1 = r1
  r2 = r2
  r3 = r3
  a = a
  b = b
  s1 = s1
  Recipients = {r1, r2, r3}
  SuiteOf <- MCSuiteOf
  Bad = Bad
  Empty = Empty
  Streams = {s1}
  Byte = {a, b}
  Messages <- MCLengths
  ChunkSizes = {0, 1, 2, 4, 5, 6}
  BaseNonces = {0}
  U32Max = 5
  TagLen = 1
  None = None
  MaxFaults = 1
  Plaintext <- MCPlaintext
INVARIANTS RefusedOnlyForKey ExpectedStreamCategory RefusedAtFirstMisplaced
PROPERTIES SealFailsOnlyOversize ImplementsTransfer OpenReturns StreamArrives
