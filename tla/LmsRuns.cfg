\* Two runs at once, with a builder, crashes and manual deletion of the pair.
SPECIFICATION Spec
CONSTANTS
  Runs = {r1, r2}
  Digests = {d1}
  SelfTest = SelfTest
  None = None
  Torn = Torn
  Odd = Odd
INVARIANTS SignerInv LeafOnce SpentOnDisk PublishedTogether ReleaseDigest
PROPERTY ImplementsSigning
SYMMETRY MCSymmetry
