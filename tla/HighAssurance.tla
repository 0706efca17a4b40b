---------------------------- MODULE HighAssurance ----------------------------
(***************************************************************************)
(* Detached signatures: ML-DSA (sign and verify of vorlath_shield/         *)
(* shield.py), SLH-DSA, EdDSA, and the dual and triple signatures of       *)
(* vorlath_shield/highassurance.py, whose blobs are read field by field.   *)
(*                                                                         *)
(* A signature scheme is ideal: it accepts what the key's owner has signed *)
(* and nothing else.  What is signed is a row of bytes, so that whether a  *)
(* context and a message can be told apart in it is the code's doing.  A   *)
(* blob's body is a row of numbers; a length is one of them (four bytes in *)
(* the code), and may be read where a signature lies.                      *)
(***************************************************************************)
EXTENDS Naturals, Sequences

CONSTANTS
  MaxCtx,               \* the longest context, 255
  Contexts, Messages,   \* byte strings
  SIG_CTX, HA_CTX,      \* the contexts of shield.sign and of the other legs
  Params,               \* known suites, SLH-DSA parameters and EdDSA curves
  BadParam,             \* an unknown one
  AlgOf(_, _),          \* the algorithm of a magic and a parameter: two suites share one
  Raw,                  \* key material
  SignatureOf(_, _, _), \* signature bytes, from scheme, key and data
  MaxSigned             \* bound on signing calls

ASSUME HighAssuranceAssumption ==
  /\ MaxCtx \in Nat /\ MaxSigned \in Nat
  /\ Contexts \subseteq Seq(Nat) /\ Messages \subseteq Seq(Nat)
  /\ SIG_CTX \in Contexts /\ HA_CTX \in Contexts
  /\ Len(SIG_CTX) <= MaxCtx /\ Len(HA_CTX) <= MaxCtx
  /\ BadParam \notin Params

(* _parse_key, _parse_ha and _parse_ec tell the three schemes' bundles     *)
(* apart by magic; the role is public or private.                          *)
Schemes == {"ML-DSA", "SLH-DSA", "EdDSA"}
Magic == [s \in Schemes |->
            CASE s = "ML-DSA" -> "VRSK" [] s = "SLH-DSA" -> "PLHA" [] s = "EdDSA" -> "PLEC"]
BundlesOf(params) ==
  [magic : {Magic[s] : s \in Schemes}, param : params, pub : BOOLEAN, raw : Raw]
Bundles == BundlesOf(Params \union {BadParam})

VARIABLES
  log,   \* every signature made: scheme, key, context, message, data, bytes
  blobs, \* every signature returned: to whom it belongs and its bytes
  nsign, \* signing calls so far
  call   \* the last verification

vars == <<log, blobs, nsign, call>>

-----------------------------------------------------------------------------
(* One scheme.                                                             *)

(* One short: 255 is refused too.                                          *)
CtxTooLongAtLimit(c) == Len(c) >= MaxCtx
CtxTooLong(c) == Len(c) > MaxCtx
(* The form before the length byte, which FORMAT.md:457-459 still gives.   *)
FramedByNul(c, m) == c \o <<0>> \o m
Framed(c, m) == <<Len(c)>> \o c \o m

Usable(s, b, pub) == b.magic = Magic[s] /\ b.pub = pub /\ b.param \in Params
KeyOf(b) == <<AlgOf(b.magic, b.param), b.raw>>

(* sign, high_assurance_sign, ec_sign; ML-DSA frames its context itself.   *)
Signs(s, b, c) == Usable(s, b, FALSE) /\ ~CtxTooLong(c)
Signed(s, b, c, m) ==
  [scheme |-> s, key |-> KeyOf(b), ctx |-> c, msg |-> m, data |-> Framed(c, m),
   sig |-> SignatureOf(s, KeyOf(b), Framed(c, m))]

(* verify, high_assurance_verify, ec_verify: what raises is FALSE.         *)
Accepts(s, b, c, m, sig) ==
  /\ Usable(s, b, TRUE) /\ ~CtxTooLong(c)
  /\ \E r \in log : r.scheme = s /\ r.key = KeyOf(b) /\ r.data = Framed(c, m) /\ r.sig = sig

(* Signature bytes are bytes.                                              *)
ASSUME SignatureAssumption ==
  \A s \in Schemes, b \in Bundles, c \in Contexts, m \in Messages :
    SignatureOf(s, KeyOf(b), Framed(c, m)) \in Seq(Nat)

-----------------------------------------------------------------------------
(* The blobs.                                                              *)

Field(sig) == <<Len(sig)>> \o sig
DualBody(ml, ha) == Field(ml) \o Field(ha)
TripleBody(ml, ha, ec) == Field(ml) \o Field(ha) \o Field(ec)

(* struct.unpack_from raises past the end; a slice stops there.            *)
Slice(b, i, j) == SubSeq(b, i, IF j > Len(b) THEN Len(b) ELSE j)
ReadField(b, st) ==
  IF ~st.ok \/ st.off + 1 > Len(b) THEN [st EXCEPT !.ok = FALSE]
  ELSE LET end == st.off + 1 + b[st.off + 1]
       IN  [ok |-> TRUE, off |-> end, legs |-> Append(st.legs, Slice(b, st.off + 2, end))]

Start == [ok |-> TRUE, off |-> 0, legs |-> <<>>]
ReadDual(b) == ReadField(b, ReadField(b, Start))
ReadTriple(b) == ReadField(b, ReadDual(b))
WholeOrMore(b, st) == st.ok /\ st.off <= Len(b)
Whole(b, st) == st.ok /\ st.off = Len(b)

(* dual_verify and triple_verify, of one public bundle per leg.            *)
DualAccepts(pubs, m, blob) ==
  LET st == ReadDual(blob.body)
  IN  /\ blob.magic = "PLDU" /\ Whole(blob.body, st)
      /\ Accepts("ML-DSA", pubs[1], SIG_CTX, m, st.legs[1])
      /\ Accepts("SLH-DSA", pubs[2], HA_CTX, m, st.legs[2])

TripleAcceptsTwo(pubs, m, blob) ==
  LET st == ReadTriple(blob.body)
  IN  /\ blob.magic = "PLTR" /\ Whole(blob.body, st)
      /\ Accepts("ML-DSA", pubs[1], SIG_CTX, m, st.legs[1])
      /\ Accepts("SLH-DSA", pubs[2], HA_CTX, m, st.legs[2])
TripleAccepts(pubs, m, blob) ==
  LET st == ReadTriple(blob.body)
  IN  /\ blob.magic = "PLTR" /\ Whole(blob.body, st)
      /\ Accepts("ML-DSA", pubs[1], SIG_CTX, m, st.legs[1])
      /\ Accepts("SLH-DSA", pubs[2], HA_CTX, m, st.legs[2])
      /\ Accepts("EdDSA", pubs[3], HA_CTX, m, st.legs[3])

-----------------------------------------------------------------------------
(* Signing.  A call that raises returns nothing and signs nothing.         *)

Idle == call = [op |-> "none"]
MaySign == nsign < MaxSigned /\ Idle

Publish(op, rs, privs, blob) ==
  /\ nsign' = nsign + 1
  /\ log' = log \union {rs[i] : i \in DOMAIN rs}
  /\ blobs' = blobs \union
       {[op |-> op, blob |-> blob, rs |-> rs,
         pubs |-> [i \in DOMAIN privs |-> [privs[i] EXCEPT !.pub = TRUE]]]}
  /\ UNCHANGED call

Sign ==
  MaySign /\ \E s \in Schemes, b \in Bundles, c \in Contexts, m \in Messages :
    LET r == Signed(s, b, c, m)
    IN  Signs(s, b, c) /\ Publish("leg", <<r>>, <<b>>, [magic |-> s, body |-> r.sig])

SignRaises ==
  MaySign /\ \E s \in Schemes, b \in Bundles, c \in Contexts :
    /\ ~Signs(s, b, c)
    /\ call' = [op |-> "raised", scheme |-> s, priv |-> b, ctx |-> c]
    /\ UNCHANGED <<log, blobs, nsign>>

DualSign ==
  MaySign /\ \E mb, hb \in Bundles, m \in Messages :
    LET ml == Signed("ML-DSA", mb, SIG_CTX, m)
        ha == Signed("SLH-DSA", hb, HA_CTX, m)
    IN  /\ Signs("ML-DSA", mb, SIG_CTX) /\ Signs("SLH-DSA", hb, HA_CTX)
        /\ Publish("dual", <<ml, ha>>, <<mb, hb>>,
                   [magic |-> "PLDU", body |-> DualBody(ml.sig, ha.sig)])

TripleSign ==
  MaySign /\ \E mb, hb, eb \in Bundles, m \in Messages :
    LET ml == Signed("ML-DSA", mb, SIG_CTX, m)
        ha == Signed("SLH-DSA", hb, HA_CTX, m)
        ec == Signed("EdDSA", eb, HA_CTX, m)
    IN  /\ Signs("ML-DSA", mb, SIG_CTX) /\ Signs("SLH-DSA", hb, HA_CTX)
        /\ Signs("EdDSA", eb, HA_CTX)
        /\ Publish("triple", <<ml, ha, ec>>, <<mb, hb, eb>>,
                   [magic |-> "PLTR", body |-> TripleBody(ml.sig, ha.sig, ec.sig)])

-----------------------------------------------------------------------------
(* What is verified: a blob as returned, or with one number changed, cut,  *)
(* run on, or under another magic; or put together again from its legs,    *)
(* with one of another blob's in place of its own, or the third left out.  *)

Damaged(blob) ==
  LET b == blob.body
      bodies == {b} \union {[b EXCEPT ![i] = v] : i \in DOMAIN b, v \in 0 .. Len(b)}
                \union {SubSeq(b, 1, n) : n \in 0 .. Len(b)} \union {b \o <<v>> : v \in 0 .. 1}
  IN  [magic : {blob.magic}, body : bodies] \union [magic : {"PLDU", "PLTR"}, body : {b}]

Reassembled(e) ==
  LET own == [i \in DOMAIN e.rs |-> e.rs[i].sig]
      legs == {own} \union {[own EXCEPT ![i] = r.sig] : i \in DOMAIN own, r \in log}
  IN  {[magic |-> "PLDU", body |-> DualBody(l[1], l[2])] : l \in legs}
      \union IF e.op = "triple"
             THEN {[magic |-> "PLTR", body |-> TripleBody(l[1], l[2], l[3])] : l \in legs}
             ELSE {}

(* The public bundles a caller may hold: those of the blob's signers, with *)
(* one of them replaced by any bundle at all.                              *)
Held(e) ==
  {e.pubs} \union {[e.pubs EXCEPT ![i] = b] : i \in DOMAIN e.pubs, b \in BundlesOf(Params)}

Given(e) ==
  [blob : Damaged(e.blob), pubs : {e.pubs}] \union [blob : Reassembled(e), pubs : Held(e)]

Verified(op, s, g, c, m, verdict) ==
  /\ call' = [op |-> op, scheme |-> s, pubs |-> g.pubs, ctx |-> c, msg |-> m, blob |-> g.blob,
              verdict |-> verdict]
  /\ UNCHANGED <<log, blobs, nsign>>

Verify ==
  Idle /\ \E e \in blobs, s \in Schemes, c \in Contexts, m \in Messages :
    /\ e.op = "leg"
    /\ \E ps \in Held(e) :
         Verified("leg", s, [blob |-> e.blob, pubs |-> ps], c, m,
                  Accepts(s, ps[1], c, m, e.blob.body))

DualVerify ==
  Idle /\ \E e \in blobs, m \in Messages :
    /\ e.op # "leg"
    /\ \E g \in Given(e) :
         Verified("dual", "none", g, HA_CTX, m, DualAccepts(g.pubs, m, g.blob))

TripleVerify ==
  Idle /\ \E e \in blobs, m \in Messages :
    /\ e.op = "triple"
    /\ \E g \in Given(e) :
         Verified("triple", "none", g, HA_CTX, m, TripleAccepts(g.pubs, m, g.blob))

Return == /\ ~Idle /\ call' = [op |-> "none"]
          /\ UNCHANGED <<log, blobs, nsign>>

Init == log = {} /\ blobs = {} /\ nsign = 0 /\ call = [op |-> "none"]
Next == Sign \/ SignRaises \/ DualSign \/ TripleSign
        \/ Verify \/ DualVerify \/ TripleVerify \/ Return
Spec == Init /\ [][Next]_vars

-----------------------------------------------------------------------------
(* Properties.                                                             *)

Accepted(op) == call.op = op /\ call.verdict
SignedBy(s, b, c, m) ==
  \E r \in log : r.scheme = s /\ r.key = KeyOf(b) /\ r.ctx = c /\ r.msg = m

SigOf(s, b, c, m, sig) ==
  \E r \in log : /\ r.scheme = s /\ r.key = KeyOf(b) /\ r.ctx = c /\ r.msg = m
                /\ r.sig = sig

(* A context is part of what is signed: a signature is accepted for a      *)
(* context and a message exactly if that key made it for that context and  *)
(* that message, not for two others that lie alike in a row; and signing   *)
(* raises for no usable key in a context of the limit or less              *)
(* (highassurance.py:69-79).                                               *)
SignedInContext ==
  /\ call.op = "leg" =>
       (call.verdict <=> /\ Usable(call.scheme, call.pubs[1], TRUE) /\ Len(call.ctx) <= MaxCtx
                         /\ SigOf(call.scheme, call.pubs[1], call.ctx, call.msg, call.blob.body))
  /\ call.op = "raised" => ~Usable(call.scheme, call.priv, FALSE) \/ Len(call.ctx) > MaxCtx

(* A dual or triple signature is as strong as its strongest leg: every     *)
(* key's owner has signed this message, each with the key the verifier     *)
(* holds, however the legs came together (highassurance.py:107-123,        *)
(* 204-231).                                                               *)
EveryLegSigned ==
  /\ Accepted("dual") \/ Accepted("triple") =>
       /\ SignedBy("ML-DSA", call.pubs[1], SIG_CTX, call.msg)
       /\ SignedBy("SLH-DSA", call.pubs[2], HA_CTX, call.msg)
  /\ Accepted("triple") => SignedBy("EdDSA", call.pubs[3], HA_CTX, call.msg)

(* An accepted blob has one encoding: it is what the writer makes of the   *)
(* legs read from it, with nothing between them and nothing after          *)
(* (highassurance.py:113-119, 218-226).                                    *)
CanonicalBlob ==
  /\ Accepted("dual") =>
       LET l == ReadDual(call.blob.body).legs IN call.blob.body = DualBody(l[1], l[2])
  /\ Accepted("triple") =>
       LET l == ReadTriple(call.blob.body).legs IN call.blob.body = TripleBody(l[1], l[2], l[3])
=============================================================================
