----------------------------- MODULE MCAltCodec -----------------------------
(* Instances of AltCodec for TLC.                                          *)
EXTENDS AltCodec, TLC

CONSTANTS r1, r2, s1, s2, e1, e2

(* A recipient in scope and one out of it; two senders of one suite, of    *)
(* whom one signs.                                                         *)
MCSuiteOf == (r1 :> 2) @@ (r2 :> 3)
MCSigSuiteOf == (s1 :> 2) @@ (s2 :> 2)

MCOwnPairs == {[priv |-> NoBundle, pub |-> NoBundle],
               [priv |-> [who |-> s1, role |-> "sig_priv"],
                pub  |-> [who |-> s1, role |-> "sig_pub"]]}
MCPublic == {NoBundle} \union [who : Senders, role : {"sig_pub"}]
=============================================================================
