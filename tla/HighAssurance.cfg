\* Two signing calls of any kind, and every verification of what can be put
\* together from what they returned.
SPECIFICATION Spec
CONSTANTS
  MaxCtx = 2
  Contexts <- MCContexts
  Messages <- MCMessages
  SIG_CTX <- MCSigCtx
  HA_CTX <- MCHaCtx
  Params = {1}
  BadParam = 9
  AlgOf <- MCAlgOf
  Raw = {1, 2}
  SignatureOf <- MCSignatureOf
  MaxSigned = 2
INVARIANTS SignedInContext EveryLegSigned CanonicalBlob
