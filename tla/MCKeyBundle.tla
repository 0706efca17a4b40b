----------------------------- MODULE MCKeyBundle -----------------------------
(* Instances of KeyBundle for TLC: three values to a byte, so that a field *)
(* has at most eight bytes.                                                *)
EXTENDS KeyBundle

(* The input itself for its digest: no two inputs collide.                 *)
MCShake(role, suite, parts) == <<role % 3, suite>> \o parts

(* Two ways to make one row of parts: 1 then 11, and 11 then 1.            *)
MCMaterial == {<<1>>, <<1, 1>>}
(* As long as a field can be, and one longer.                              *)
MCPrivate == {<<2, 0, 2, 0, 2, 0, 2, 0>>, <<2, 0, 2, 0, 2, 0, 2, 0, 2>>}

(* Blocks of every length around the limit.                                *)
MCBlockMaterial == {<<>>, <<0>>, <<0, 0>>, <<1, 2, 0, 1, 0, 2>>,
                    <<2, 1, 0, 1, 0, 2, 1, 1>>, <<2, 1, 0, 1, 0, 2, 1, 1, 0>>}
=============================================================================
