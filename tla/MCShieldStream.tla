--------------------------- MODULE MCShieldStream ---------------------------
(***************************************************************************)
(* ShieldStream with one stream, for TLC.                                  *)
(***************************************************************************)
EXTENDS ShieldStream

CONSTANTS r1, r2, a, b, s1

(* A hybrid suite, and the one without a classical leg.                    *)
MCSuiteOf == (r1 :> 2) @@ (r2 :> 3)

(* Three chunks and one, at chunk size 1.                                  *)
MCMessages == {<<a, b, b>>, <<b>>}
=============================================================================
