\* One signed envelope, its lengths cut elsewhere in the row of bytes that was
\* signed, opened by a caller who expects the signer.
SPECIFICATION AltSpec
CONSTANTS
  r1 = r1
  r2 = r2
  s1 = s1
  s2 = s2
  e1 = e1
  e2 = e2
  Recipients = {r1, r2}
  SuiteOf <- MCSuiteOf
  Bad = Bad
  Empty = Empty
  Calls = {e1}
  Messages = {"m"}
  Senders = {s1, s2}
  SigSuiteOf <- MCSigSuiteOf
  Ppks = {"p"}
  Nonces = {0}
  SealKeys <- MCOwnPairs
  OpenKeys <- MCPublic
  Roles = {"kem_pub", "kem_priv"}
  Policies = {"unset", "required", "forbidden"}
  None = None
  MaxFaults = 1
INVARIANT SecretOnlyForSignedFields
