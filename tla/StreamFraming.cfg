\* The order FORMAT.md 8.5 states, against open_stream: one stream, one fault.
SPECIFICATION Safety
CONSTANTS
  r1 = r1
  r2 = r2
  a = a
  b = b
  s1 = s1
  Recipients = {r1, r2}
  SuiteOf <- MCSuiteOf
  Bad = Bad
  Empty = Empty
  Streams = {s1}
  Byte = {a, b}
  Messages <- MCMessages
  ChunkSizes = {1}
  BaseNonces = {0}
  U32Max = 7
  TagLen = 1
  None = None
  MaxFaults = 1
INVARIANTS FramingBeforeSecret
