\* Two envelopes, one storage fault of any kind, two senders expected, both
\* decoders.
SPECIFICATION AltSpec
CONSTANTS
  r1 = r1
  r2 = r2
  s1 = s1
  s2 = s2
  e1 = e1
  e2 = e2
  Recipients = {r1, r2}
  SuiteOf <- MCSuiteOf
  Bad = Bad
  Empty = Empty
  Calls = {e1, e2}
  Messages = {"m"}
  Senders = {s1, s2}
  SigSuiteOf <- MCSigSuiteOf
  Ppks = {"p"}
  Nonces = {0}
  SealKeys <- MCOwnPairs
  OpenKeys <- MCPublic
  Roles = {"kem_pub", "kem_priv"}
  Policies = {"unset", "required", "forbidden"}
  None = None
  MaxFaults = 1
INVARIANTS EnvelopeInv OpensOnlyAcceptable SecretOnlyForSender SameVerdict
PROPERTY ImplementsTransfer
