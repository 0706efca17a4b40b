\* Three commands in two processes, in each of the sessions.
SPECIFICATION Spec
CONSTANTS
  p1 = p1
  p2 = p2
  alice = alice
  text = text
  pw = pw
  NoPass = NoPass
  None = None
  Procs <- MCProcs
  Prefixes = {alice}
  Docs <- MCDocs
  Passphrases <- MCPassphrases
  Sessions <- MCSessions
  MaxCommands = 3
SYMMETRY Interchangeable
INVARIANTS
  SecretsOwnerOnly
  HalvesInOrder
  OneLock
  OpenedWasSealed
  VerifiedWasSigned
\* The commands are used up.
CHECK_DEADLOCK FALSE
