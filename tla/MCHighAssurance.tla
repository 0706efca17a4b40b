--------------------------- MODULE MCHighAssurance ---------------------------
(* Instances of HighAssurance for TLC: contexts of every length up to one  *)
(* past the limit, and messages that begin with what a context may end in. *)
EXTENDS HighAssurance

MCContexts == {<<>>, <<0>>, <<0, 1>>, <<0, 0, 1>>}
MCMessages == {<<0>>, <<0, 0>>}
MCAlgOf(magic, p) == IF magic = "VRSK" THEN 1 ELSE p
MCSigCtx == <<0>>
MCHaCtx == <<0, 1>>

(* Signatures of one number, or two, that say who signed what.             *)
Code[d \in Seq(Nat)] == IF d = <<>> THEN 1 ELSE Head(d) + 3 * Code[Tail(d)]
MCSignatureOf(s, k, d) ==
  LET n == 10 * Code[d] + k[2]
  IN  CASE s = "ML-DSA" -> <<n>> [] s = "SLH-DSA" -> <<n, 1>> [] s = "EdDSA" -> <<1, n>>
=============================================================================
