\* One envelope, every argument of encrypt and of decrypt, and every vector of
\* the corpus; storage does not fail.
SPECIFICATION PstvSpec
CONSTANTS
  r1 = r1
  r2 = r2
  r3 = r3
  r4 = r4
  s1 = s1
  s2 = s2
  s3 = s3
  e1 = e1
  e2 = e2
  Recipients = {r1, r2, r3, r4}
  SuiteOf <- MCSuiteOf
  Bad = Bad
  Empty = Empty
  Calls = {e1, e2}
  Messages = {"m"}
  Senders = {s1, s2, s3}
  SigSuiteOf <- MCSigSuiteOf
  Ppks = {"p", "q"}
  Nonces = {0}
  SealKeys <- MCPairs
  OpenKeys <- MCBundles
  Roles = {"kem_pub", "kem_priv"}
  Policies = {"unset", "required", "optional", "forbidden", "unknown"}
  None = None
  MaxFaults = 0
  MaxSealed = 1
INVARIANTS AcceptableOpens AltOpensExactly ExpectedCategory ReachesItsLayer
