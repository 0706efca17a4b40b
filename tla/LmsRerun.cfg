\* The container of lms.Dockerfile: one run after another.
SPECIFICATION Spec
CONSTANTS
  Runs = {r1, r2}
  Digests = {d1}
  SelfTest = SelfTest
  None = None
  Torn = Torn
  Odd = Odd
INVARIANTS RerunMintsFreshKey
