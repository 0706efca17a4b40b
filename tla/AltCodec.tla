------------------------------ MODULE AltCodec ------------------------------
(***************************************************************************)
(* interop/altcodec.py: a second decoder of the envelope, written from     *)
(* FORMAT.md alone, beside shield.decrypt.  Both are given the same stored *)
(* bytes, recipient bundle and expected sender; altcodec has no pre-shared *)
(* key, no policy, and two of the three suites.                            *)
(***************************************************************************)
EXTENDS ShieldEnvelope

VARIABLE alt  \* what open_envelope has made of env and args, or None

altVars == <<vars, alt>>

-----------------------------------------------------------------------------
(* _SUITES; what the reference has and altcodec does not is declared.      *)
AltSuites == {1, 2}
OutOfScopeSuites == {3}
OutOfScopeFlags == {"ppk"}

(* _read_tlv and the fixed prefix, up to the sealed bytes.                 *)
AltParseChecks(e) ==
  << Check("magic", e.hdr.magic = "VRSH"),
     Check("version", e.hdr.version = 2),
     Check("unknown suite", e.hdr.suite \in AltSuites),
     Check("truncated header", e.tail # "header"),
     Check("missing ciphertext length", e.tail # "length"),
     Check("length mismatch", e.tail # "mismatch") >>

AltKeyChecksAnySuite(e, rcpt) ==
  << Check("key role", rcpt.role = "kem_priv"),
     Check("key-id mismatch", rcpt.who = e.hdr.kid) >>
AltKeyChecks(e, rcpt) ==
  << Check("key role", rcpt.role = "kem_priv"),
     Check("suite mismatch", SuiteOf[rcpt.who] = e.hdr.suite),
     Check("key-id mismatch", rcpt.who = e.hdr.kid) >>

(* _pre_auth_transcript and _derive_key: the row of the handshake's fields *)
(* again, wherever it is cut, and a combiner of two legs.                  *)
AltPreAuth(h) == <<h.suite, h.flags, h.kid, h.eph, h.ct, h.nonce>>

AltDeriveKeyUnbound(h, r, senderKid) ==
  [ikm  |-> <<Exchange(r, ReadField(h, "eph")), Decaps(r, ReadField(h, "ct")), Empty>>,
   info |-> <<h.suite, AltPreAuth(h), Empty>>]
AltDeriveKey(h, r, senderKid) ==
  [ikm  |-> <<Exchange(r, ReadField(h, "eph")), Decaps(r, ReadField(h, "ct")), Empty>>,
   info |-> <<h.suite, AltPreAuth(h), senderKid>>]

(* The sender block.  _parse_key of the embedded bundle recomputes its     *)
(* key-id, and so does _sig_key_id for the expected one; the embedded key  *)
(* must be of a suite altcodec has.                                        *)
AltVerifies(h, pub) ==
  h.block.sig = Signature(pub.who, <<AltPreAuth(h), pub.who>>)

AltBlockChecks(h, expected) ==
  LET b == h.block
  IN  << Check("sender block framing", b.framed),
         Check("sender key", b.pub.role = "sig_pub"),
         Check("sender key-id", b.kid = b.pub.who),
         Check("unknown sender suite",
               b.pub.who \in Senders => SigSuiteOf[b.pub.who] \in AltSuites),
         Check("signature", AltVerifies(h, b.pub)),
         Check("expected key role",
               expected # NoBundle => expected.role = "sig_pub"),
         Check("unexpected sender",
               expected # NoBundle => expected.who = b.pub.who) >>

AltSenderChecksUnpinned(e, expected) ==
  IF "authenticated" \in e.hdr.flags THEN AltBlockChecks(e.hdr, expected) ELSE <<>>
AltSenderChecks(e, expected) ==
  IF "authenticated" \in e.hdr.flags THEN AltBlockChecks(e.hdr, expected)
  ELSE << Check("anonymous", expected = NoBundle) >>

AltSenderKid(e) ==
  IF "authenticated" \in e.hdr.flags THEN e.hdr.block.pub.who ELSE Empty

(* ECDH, decapsulation, combiner, AES-GCM; an InvalidTag is wrapped.       *)
AltOpens(e, r) ==
  AeadOpens(AltDeriveKey(e.hdr, r, AltSenderKid(e)), ReadField(e.hdr, "nonce"), e.hdr, e.sealed)

AltFailure(e, a) ==
  FirstFailure(AltParseChecks(e) \o AltKeyChecks(e, a.rcpt)
               \o AltSenderChecks(e, a.expected)
               \o << Check("AEAD open failed", AltOpens(e, a.rcpt.who)) >>)

(* open_envelope, called once decrypt has ended, with the same arguments.  *)
OpenEnvelope ==
  /\ opc \in {"done", "failed"} /\ alt = None
  /\ alt' = LET why == AltFailure(env, args)
            IN  [err |-> why, out |-> IF why = "none" THEN env.sealed.plaintext ELSE None]
  /\ UNCHANGED vars

BothReturn == alt # None /\ DecryptReturn /\ alt' = None

-----------------------------------------------------------------------------
AltInit == Init /\ alt = None

AltNext == \/ /\ Encrypt \/ StorageFault \/ DecryptCall \/ DecryptStep
              /\ UNCHANGED alt
           \/ OpenEnvelope
           \/ BothReturn

AltSpec == AltInit /\ [][AltNext]_altVars

-----------------------------------------------------------------------------
(* Properties.                                                             *)

(* What altcodec declares to be in its scope: no suite and no flag that it *)
(* lists, in the envelope and in the embedded sender key.                  *)
InScope(e) ==
  /\ e.hdr.suite \notin OutOfScopeSuites
  /\ e.hdr.flags \intersect OutOfScopeFlags = {}
  /\ e.hdr.block.pub.who \in Senders =>
       SigSuiteOf[e.hdr.block.pub.who] \notin OutOfScopeSuites

(* Two decoders, one verdict: on every stored envelope in scope, damaged   *)
(* or not, both return the same plaintext or refuse for the same reason    *)
(* (test_pstv.py:266-335; altcodec.py:240-320 against shield.py:405-503).  *)
SameVerdict ==
  alt # None /\ InScope(env) /\ args.ppk = Empty /\ args.policy = "unset" =>
    alt.err = oerr /\ alt.out = out

(* altcodec opens exactly the whole messages that are for this key, from   *)
(* an accepted sender, bound to no pre-shared key, and of its suites: what *)
(* is out of its scope it refuses, whatever the flags byte was made to say *)
(* (altcodec.py:124-134).                                                  *)
AltAcceptable(g, a) ==
  /\ ForThisKey(g, a) /\ SenderAccepted(g, a) /\ g.ppk = Empty
  /\ SuiteOf[g.to] \in AltSuites
  /\ g.from.priv # NoBundle => SigSuiteOf[g.from.priv.who] \in AltSuites

AltOpensExactly ==
  alt # None =>
    /\ alt.err = "none" => \E c \in Finished :
         /\ env = sent[c].env /\ alt.out = sent[c].given.msg
         /\ AltAcceptable(sent[c].given, args)
    /\ \A c \in Finished :
         env = sent[c].env /\ AltAcceptable(sent[c].given, args) => alt.err = "none"
=============================================================================
