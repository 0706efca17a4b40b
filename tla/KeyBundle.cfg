\* Bundles of two key pairs, or one sender block of every size around the limit
\* of a field, and every reading of their bytes, damaged or not.
SPECIFICATION Spec
CONSTANTS
  Base = 3
  Material <- MCMaterial
  PrivateParts <- MCPrivate
  BlockMaterial <- MCBlockMaterial
  SuiteNames = {1, 2}
  Shake <- MCShake
  MaxMade = 3
  Bad = Bad
INVARIANTS Canonical RoundTrip KidBinds
PROPERTY ParseEnds
\* The library is not called again.
CHECK_DEADLOCK FALSE
