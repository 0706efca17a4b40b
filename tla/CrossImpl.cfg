\* One run, of libraries with any of the defects.
SPECIFICATION Spec
CONSTANTS
  Kems <- MCKems
  Sigs <- MCSigs
  Iterations = 2
  Seeds = {1, 2}
  BlocksOf <- MCBlocksOf
  Drawn = {1, 2}
  Defects <- MCDefects
  MaxRuns = 1
INVARIANTS StatusTellsAll AllCompared
\* A run is made once.
CHECK_DEADLOCK FALSE
