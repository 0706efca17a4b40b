---------------------------- MODULE MCAltStream ----------------------------
(* Instances of AltStream for TLC.                                         *)
EXTENDS AltStream

CONSTANTS r1, r2, a, b, s1, s2

MCSuiteOf == (r1 :> 2) @@ (r2 :> 3)
MCMessages == {<<a, b, b>>, <<b>>}
MCSymmetry == Permutations(Streams)
=============================================================================
