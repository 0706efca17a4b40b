----------------------------- MODULE MCCrossImpl -----------------------------
(* Instances of CrossImpl for TLC: no defect, a defect of one comparison   *)
(* of one or two pairs, for some of what the libraries draw, and one that  *)
(* shows for one message; the results differ, or a library raises.         *)
EXTENDS CrossImpl

MCKems == <<"ML-KEM-768", "ML-KEM-1024">>
MCSigs == <<"ML-DSA-65", "ML-DSA-87">>
MCBlocksOf(s, n) == 1 + ((s + n) % 2)
MCMessages == Seeds \X (1 .. 3 * 2 * Iterations)

KemDefect(name, s, xs) == [name : {name}, at : {s}, drawn : xs, msg : {<<>>}]
SigDefect(name, s, xs, ms) == [name : {name}, at : {s}, drawn : xs, msg : ms]

MCDefects ==
  LET kem == {KemDefect("ML-KEM-768", w, xs) : w \in KemWays \union {"sizes"}, xs \in SUBSET Drawn}
      sig == {SigDefect("ML-DSA-65", w, Drawn, {m}) : w \in SigWays, m \in MCMessages}
             \union {SigDefect("ML-DSA-87", w, {x}, MCMessages) :
                       w \in SigWays \union {"ref accepts own"}, x \in Drawn}
  IN  {[differs |-> k \union s, raises |-> {}] : k \in kem, s \in sig \union {{}}}
      \union {[differs |-> k, raises |-> s] : k \in kem, s \in sig}
      \union {[differs |-> s, raises |-> k] : k \in kem, s \in sig \union {{}}}
=============================================================================
