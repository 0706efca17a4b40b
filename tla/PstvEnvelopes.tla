---------------------------- MODULE PstvEnvelopes ----------------------------
(***************************************************************************)
(* interop/gen_pstv_vectors.py: the envelopes of the frozen corpus, as     *)
(* mutations of genuine ones, and their replay through both decoders       *)
(* (interop/test_pstv.py), a vector at a time; and every other envelope as *)
(* decrypt treats it.                                                      *)
(***************************************************************************)
EXTENDS AltCodec, FiniteSets

CONSTANT MaxSealed  \* bound on the envelopes sealed in one behaviour

(* The generator seals a signed envelope twice: there is another call.     *)
ASSUME PstvAssumption == MaxSealed \in Nat /\ \A c \in Calls : Calls # {c}

VARIABLE vec  \* the vector that is replayed, or None

pstvVars == <<altVars, vec>>

-----------------------------------------------------------------------------
(* The genuine envelopes: encrypt's, to a recipient of a suite in scope,   *)
(* from nobody or from a sender of that suite.                             *)

Suites == SuiteIds \ OutOfScopeSuites

Public(who) == [who |-> who, role |-> "sig_pub"]
Pair(who) == [priv |-> [who |-> who, role |-> "sig_priv"], pub |-> Public(who)]
NoPair == [priv |-> NoBundle, pub |-> NoBundle]

PeersOf(s) == {who \in Senders : SigSuiteOf[who] = s}
Anonymous(c) ==
  LET g == sent[c].given
  IN  SuiteOf[g.to] \in Suites /\ g.ppk = Empty /\ g.from = NoPair
Signed(c) ==
  LET g == sent[c].given
  IN  /\ SuiteOf[g.to] \in Suites /\ g.ppk = Empty
      /\ \E who \in PeersOf(SuiteOf[g.to]) : g.from = Pair(who)

(* The second signed envelope: what another call makes of the same.        *)
Again(c) == Envelope(CHOOSE d \in Calls : d # c, sent[c].given, sent[c].env.hdr.nonce)

-----------------------------------------------------------------------------
(* A vector: its tag, the bytes, who opens them and whom they expect, and  *)
(* the category in which both decoders must refuse ("opens": must not).    *)

Vector(tag, e, who, pin, category) ==
  [tag |-> tag, env |-> e, args |-> [rcpt |-> [who |-> who, role |-> "kem_priv"],
                                     expected |-> pin, ppk |-> Empty, policy |-> "unset"],
   expected |-> category]

(* An envelope with another value in one field of its header.              *)
Rewritten(e, field, value) == [e EXCEPT !.hdr = [e.hdr EXCEPT ![field] = value]]

(* _positive_anon, and _negatives that are mutations of that envelope.     *)
(* The flipped tag (337-343) and the flipped ciphertext are one vector of  *)
(* the model: both are sealed bytes that open under nothing.               *)
AnonVectors(c) ==
  LET anon == sent[c].env
      own  == sent[c].given.to
      V(tag, e, category) == Vector(tag, e, own, NoBundle, category)
      Hdr(field, value) == Rewritten(anon, field, value)
      others == {r \in Recipients \ {own} : SuiteOf[r] = SuiteOf[own]}
  IN  { V("anon", anon, "opens"),
        V("ciphertext_bitflip", [anon EXCEPT !.sealed = Bad], "aead"),
        V("suite_id_mutated", Hdr("suite", 3 - SuiteOf[own]), "suite_mismatch"),
        V("truncated", [anon EXCEPT !.tail = "length"], "truncation"),
        V("trailing_bytes", [anon EXCEPT !.tail = "mismatch"], "trailing_data"),
        V("malformed_inner_tlv", [anon EXCEPT !.tail = "header"], "inner_tlv"),
        V("auth_flag_set_empty_block", Hdr("flags", {"authenticated"}), "truncation"),
        V("flags_downgrade_crypto_binding", Hdr("flags", {"other"}), "aead") }
      \union { Vector("wrong_recipient_key", anon, r, NoBundle, "wrong_recipient") : r \in others }

(* _positive_auth, opened with the pin and without, and the negatives that *)
(* are mutations of the signed envelope.                                   *)
AuthVectors(c) ==
  LET auth == sent[c].env
      own  == sent[c].given.to
      spk  == sent[c].given.from.priv.who
      others == PeersOf(SuiteOf[own]) \ {spk}
      V(tag, e, category) == Vector(tag, e, own, Public(spk), category)
      Block2(field, value) ==
        Rewritten(auth, "block", [auth.hdr.block EXCEPT ![field] = value])
  IN  { V("auth", auth, "opens"),
        Vector("auth, no pin", auth, own, NoBundle, "opens"),
        Vector("auth_flag_stripped", Rewritten(auth, "flags", {}), own, NoBundle, "aead"),
        V("sig_bitflip", Block2("sig", BadSignature), "signature"),
        V("sig_misbinding", Block2("sig", Again(c).hdr.block.sig), "signature"),
        V("sender_kid_mismatch", Block2("kid", Bad), "sender_kid") }
      \union { V("sender_pub_swapped", Block2("pub", Public(o)), "sender_kid") : o \in others }
      \union { Vector("wrong_sender_pin", auth, own, Public(o), "sender_pin") : o \in others }

(* _category: what the tests make of an error, of either decoder.  An      *)
(* under-run and an over-claiming length are one error of the model.       *)
CategoriesOf(err) ==
  CASE err \in {"magic", "version"} -> {"framing"}
    [] err \in {"truncated header", "sender block framing"} -> {"truncation", "inner_tlv"}
    [] err = "missing ciphertext length" -> {"truncation"}
    [] err = "length mismatch" -> {"trailing_data"}
    [] err = "suite mismatch" -> {"suite_mismatch"}
    [] err = "key-id mismatch" -> {"wrong_recipient"}
    [] err = "sender key-id" -> {"sender_kid"}
    [] err = "signature" -> {"signature"}
    [] err \in {"unexpected sender", "anonymous"} -> {"sender_pin"}
    [] err = "AEAD open failed" -> {"aead"}
    [] err = "none" -> {"opens"}
    [] OTHER -> {}

-----------------------------------------------------------------------------
(* The corpus is minted from envelopes as encrypt returns them; every other *)
(* call of the two decoders is made on the stored ones.                    *)

Replay ==
  /\ opc = "idle" /\ vec = None
  /\ \E c \in Finished :
       /\ Anonymous(c) \/ Signed(c)
       /\ \E v \in IF Anonymous(c) THEN AnonVectors(c) ELSE AuthVectors(c) :
            vec' = v /\ env' = v.env /\ args' = v.args
  /\ opc' = "parse"
  /\ UNCHANGED <<sent, storeVars, out, oerr, used, alt>>

PstvNext == \/ Replay
            \/ /\ \/ Cardinality(Finished) < MaxSealed /\ Encrypt
                  \/ StorageFault \/ DecryptCall \/ DecryptStep
               /\ UNCHANGED <<alt, vec>>
            \/ OpenEnvelope /\ UNCHANGED vec
            \/ BothReturn /\ vec' = None

PstvSpec == AltInit /\ vec = None /\ [][PstvNext]_pstvVars

-----------------------------------------------------------------------------
(* Properties.                                                             *)

(* Every vector ends in its category with both decoders: each mutation is  *)
(* refused at the layer that the corpus says, never by an earlier check    *)
(* that hides it (gen_pstv_vectors.py:97-117, test_pstv.py:284-335).       *)
ExpectedCategory ==
  alt # None /\ vec # None =>
                /\ vec.expected \in CategoriesOf(oerr)
                /\ vec.expected \in CategoriesOf(alt.err)

(* A crypto vector really gets as far as the cryptography: one in the      *)
(* "aead" category is refused after the private key was used, and one of   *)
(* any other category before it (gen_pstv_vectors.py:245-251, 311-322).    *)
ReachesItsLayer ==
  alt # None /\ vec # None => used = (vec.expected \in {"aead", "opens"})
=============================================================================
