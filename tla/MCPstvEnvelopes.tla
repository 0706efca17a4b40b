--------------------------- MODULE MCPstvEnvelopes ---------------------------
(* Every argument of encrypt and decrypt, and the corpus, for TLC.         *)
EXTENDS PstvEnvelopes, TLC

CONSTANTS r1, r2, r3, r4, s1, s2, s3, e1, e2

(* A hybrid identity of each parameter set, a second one of the first, and *)
(* one without a classical leg.                                            *)
MCSuiteOf == (r1 :> 1) @@ (r2 :> 2) @@ (r3 :> 3) @@ (r4 :> 1)

(* Two signing identities of one parameter set; one of the other, under    *)
(* the suite that altcodec leaves out.                                     *)
MCSigSuiteOf == (s1 :> 1) @@ (s2 :> 3) @@ (s3 :> 1)

(* Every bundle there is, and none; any two of them.                       *)
MCBundles == SigBundles \union {NoBundle}
MCPairs == [priv : MCBundles, pub : MCBundles]
=============================================================================
