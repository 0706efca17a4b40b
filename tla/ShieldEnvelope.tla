--------------------------- MODULE ShieldEnvelope ---------------------------
(***************************************************************************)
(* encrypt and decrypt of vorlath_shield/shield.py: the single-shot        *)
(* envelope, with the sender's signature, the pre-shared key (PPK) and the *)
(* recipient's PPK policy.                                                 *)
(*                                                                         *)
(* Callers seal and one caller opens; the stored envelopes in between lose *)
(* and exchange fields and are damaged.  encrypt is one step: nothing else *)
(* sees its locals.  decrypt is one step per group of checks, because what *)
(* it has done with the private key when it refuses is part of what it     *)
(* promises.                                                               *)
(***************************************************************************)
EXTENDS ShieldCrypto

CONSTANTS
  Calls,      \* one name per encrypt call: its fresh eph and encaps
  Messages,   \* the plaintexts callers seal
  Senders,    \* the signing identities (generate_signing_keys calls)
  SigSuiteOf, \* the suite each of them was generated for
  Ppks,       \* pre-shared keys in use
  Nonces,     \* values os.urandom(12) may return, two calls alike or not
  SealKeys,   \* pairs of sender bundles that callers of encrypt pass
  OpenKeys,   \* sender bundles that callers of decrypt expect
  Roles,      \* roles of the recipient bundles that callers pass
  Policies,   \* the ppk_policy arguments that callers pass
  None,       \* no value yet
  MaxFaults   \* bound on the faults of storage in one behaviour

(* A signing bundle: whose it is, and its role byte.  NoBundle is Python's *)
(* None, BadBundle what damage makes of one: _parse_key refuses it.        *)
SigBundles == [who : Senders, role : {"sig_pub", "sig_priv"}]
NoBundle == [who |-> None, role |-> None]
BadBundle == [who |-> Bad, role |-> Bad]

ASSUME EnvelopeAssumption ==
  /\ SigSuiteOf \in [Senders -> SuiteIds]
  /\ SealKeys \subseteq [priv : SigBundles \union {NoBundle},
                          pub : SigBundles \union {NoBundle}]
  /\ OpenKeys \subseteq SigBundles \union {NoBundle}
  /\ Roles \subseteq {"kem_pub", "kem_priv"}
  /\ Policies \subseteq {"unset", "required", "optional", "forbidden", "unknown"}
  /\ MaxFaults \in Nat
  /\ {None, Bad, Empty} \intersect (Senders \union Ppks \union Recipients) = {}
  /\ None # Bad /\ None # Empty /\ None \notin Calls \union Messages

VARIABLES
  sent,    \* what each finished encrypt call was given, and returned
  wire,    \* the stored copy of each returned envelope
  faults,  \* how many times storage has failed
  opc,     \* where decrypt is
  env,     \* its envelope argument
  args,    \* its other arguments
  out,     \* the plaintext returned
  oerr,    \* the ValueError raised, or "none"
  used     \* whether the private key has been used in this call

storeVars == <<wire, faults>>
openVars  == <<opc, env, args, out, oerr, used>>
vars      == <<sent, storeVars, openVars>>

-----------------------------------------------------------------------------
(* The wire format.                                                        *)

MAGIC == "VRSH"
VERSION == 2

(* The bits of the flags byte: the two that decrypt reads, and any other.  *)
FlagBits == {"authenticated", "ppk", "other"}

(* ML-DSA: a signature made with key `by` verifies under that key, for the *)
(* message it was made for.  Suites 2 and 3 share a parameter set; a key   *)
(* of another set raises, or signs nothing that verifies.                  *)
SameAlgorithm(s, t) == (s = 1) <=> (t = 1)
Signature(by, message) == [by |-> by, message |-> message]
BadSignature == Signature(Bad, Bad)

(* The sender block: b"" in anonymous mode, else three TLVs, which damage  *)
(* may cut short or make run on (framed is then FALSE).                    *)
Block(kid, pub, sig) == [kid |-> kid, pub |-> pub, sig |-> sig, framed |-> TRUE]
NoBlock == [kid |-> None, pub |-> NoBundle, sig |-> BadSignature,
            framed |-> FALSE]

(* A header holds its row of bytes - what was written as eph, ct and nonce *)
(* - and in moved which of these its lengths cut elsewhere in that row.    *)
(* Nothing checks how long a field is.  The transcript is the row; what is *)
(* read as a field that was moved is some other part of it.                *)
Moves == {{}, {"eph", "ct"}, {"ct", "nonce"}, {"eph", "ct", "nonce"}}
ReadField(h, f) ==
  IF f \in h.moved THEN <<f, h.moved, h.eph, h.ct, h.nonce>> ELSE h[f]

HandshakeOf(h) == PreAuth(h.suite, h.flags, h.kid, h.eph, h.ct, h.nonce)

(* The AEAD key under identity r, with a pre-shared key (Empty: none) and  *)
(* a sender's key-id (Empty: none).                                        *)
EnvelopeKey(h, r, ppk, senderKid) ==
  DeriveKey(h.suite, Exchange(r, ReadField(h, "eph")), Decaps(r, ReadField(h, "ct")),
            HandshakeOf(h), ppk, senderKid)

-----------------------------------------------------------------------------
(* encrypt.                                                                *)

Finished == DOMAIN sent

(* f, with value v for c.                                                  *)
With(f, c, v) == [x \in DOMAIN f \union {c} |-> IF x = c THEN v ELSE f[x]]

(* What a call is given.  ppk is Empty for None and for b"" alike.         *)
Given == [msg : Messages, to : Recipients, from : SealKeys,
          ppk : Ppks \union {Empty}]

FlagsOf(g) == {b \in FlagBits : \/ b = "authenticated" /\ g.from.priv # NoBundle
                                \/ b = "ppk" /\ g.ppk # Empty}

(* The header without its sender block.                                    *)
BareHeader(c, g, n) ==
  [magic |-> MAGIC, version |-> VERSION, suite |-> SuiteOf[g.to],
   flags |-> FlagsOf(g), kid |-> g.to, eph |-> EphPublic(SuiteOf[g.to], c),
   ct |-> c, nonce |-> n, moved |-> {}, block |-> NoBlock]

(* The recipient's suite signs, with whatever key the sender has; the      *)
(* public bundle goes in as it is: nothing compares it to the private one. *)
SenderBlock(g, h) ==
  LET who == g.from.priv.who
  IN  IF g.from.priv = NoBundle THEN NoBlock
      ELSE Block(who, g.from.pub, IF SameAlgorithm(SigSuiteOf[who], h.suite)
                             THEN Signature(who, <<HandshakeOf(h), who>>)
                             ELSE BadSignature)

EnvelopeHeader(c, g, n) ==
  [BareHeader(c, g, n) EXCEPT !.block = SenderBlock(g, BareHeader(c, g, n))]

SenderKid(g) == IF g.from.priv = NoBundle THEN Empty ELSE g.from.priv.who

Envelope(c, g, n) ==
  LET h == EnvelopeHeader(c, g, n)
  IN  [hdr |-> h, tail |-> "whole",
       sealed |-> AeadSeal(EnvelopeKey(h, g.to, g.ppk, SenderKid(g)),
                           n, h, g.msg)]

(* No value is not a value, and damaged bytes are not what encrypt returns.*)
ASSUME ValueAssumption ==
  /\ None \notin Given
  /\ \A c \in Calls, g \in Given, n \in Nonces : Envelope(c, g, n).sealed # Bad

(* The call raises, and nothing has happened, for a bundle of the wrong    *)
(* role, and for a signing key without its public half; a public half      *)
(* without the signing key is ignored.                                     *)
SealAccepts(role, g) ==
  /\ role = "kem_pub"
  /\ g.from.priv # NoBundle =>
       g.from.pub # NoBundle /\ g.from.priv.role = "sig_priv"

Encrypt ==
  /\ \E c \in Calls \ Finished, g \in Given, role \in Roles, n \in Nonces :
       /\ SealAccepts(role, g)
       /\ sent' = With(sent, c, [given |-> g, env |-> Envelope(c, g, n)])
       /\ wire' = With(wire, c, Envelope(c, g, n))
  /\ UNCHANGED <<faults, openVars>>

-----------------------------------------------------------------------------
(* Storage and transport, between calls of decrypt: a call holds its own   *)
(* bytes, so a fault during it is one after it.                            *)

Stored == DOMAIN wire

Fault(c, hdr, tail, sealed) ==
  /\ faults < MaxFaults
  /\ opc = "idle"
  /\ faults' = faults + 1
  /\ wire' = [wire EXCEPT ![c] = [hdr |-> hdr, tail |-> tail, sealed |-> sealed]]
  /\ UNCHANGED <<sent, openVars>>

HeaderFault(c, h) == Fault(c, h, wire[c].tail, wire[c].sealed)
SealedFault(c, sealed) == Fault(c, wire[c].hdr, wire[c].tail, sealed)
BlockFault(c, b) == HeaderFault(c, [wire[c].hdr EXCEPT !.block = b])

DamageField == \E c \in Stored :
  \E f \in {"magic", "version", "suite", "kid", "eph", "ct", "nonce"} :
     HeaderFault(c, [wire[c].hdr EXCEPT ![f] = Bad])

FlipFlag == \E c \in Stored, b \in FlagBits :
  LET flags == wire[c].hdr.flags
  IN  HeaderFault(c, [wire[c].hdr EXCEPT
                        !.flags = (flags \ {b}) \union ({b} \ flags)])

(* A field is the one of another envelope.                                 *)
CrossField == \E c, d \in Stored : \E f \in DOMAIN wire[c].hdr :
  /\ wire[c].hdr[f] # wire[d].hdr[f]
  /\ HeaderFault(c, [wire[c].hdr EXCEPT ![f] = wire[d].hdr[f]])

(* The lengths cut the row of the handshake elsewhere.                     *)
Recut == \E c \in Stored : \E m \in Moves \ {wire[c].hdr.moved} :
  HeaderFault(c, [wire[c].hdr EXCEPT !.moved = m])

DamageBlock == \E c \in Stored :
  LET b == wire[c].hdr.block
  IN  /\ b # NoBlock
      /\ \/ BlockFault(c, [b EXCEPT !.kid = Bad])
         \/ BlockFault(c, [b EXCEPT !.pub = BadBundle])
         \/ BlockFault(c, [b EXCEPT !.sig = BadSignature])
         \/ BlockFault(c, [b EXCEPT !.framed = FALSE])

DamageSealed == \E c \in Stored : SealedFault(c, Bad)

CrossSealed == \E c, d \in Stored :
  c # d /\ SealedFault(c, wire[d].sealed)

(* The bytes end inside the header, before the ciphertext's length, or not *)
(* where that length says.                                                 *)
Tails == {"whole", "header", "length", "mismatch"}
Cut == \E c \in Stored, tail \in Tails \ {"whole"} :
  Fault(c, wire[c].hdr, tail, wire[c].sealed)

-----------------------------------------------------------------------------
(* decrypt.                                                                *)

Args == [rcpt : [who : Recipients, role : Roles], expected : OpenKeys,
         ppk : Ppks \union {Empty}, policy : Policies]

DecryptCall ==
  /\ opc = "idle"
  /\ \E c \in Stored, a \in Args : env' = wire[c] /\ args' = a
  /\ opc' = "parse"
  /\ UNCHANGED <<sent, storeVars, out, oerr, used>>

(* The checks of each stage, in the order the code makes them.             *)
ParseChecks(e) ==
  << Check("magic", e.hdr.magic = MAGIC),
     Check("version", e.hdr.version = VERSION),
     Check("unknown suite", e.hdr.suite \in SuiteIds),
     Check("truncated header", e.tail # "header"),
     Check("missing ciphertext length", e.tail # "length"),
     Check("length mismatch", e.tail # "mismatch") >>

KeyChecks(e, a) ==
  << Check("key role", a.rcpt.role = "kem_priv"),
     Check("suite mismatch", SuiteOf[a.rcpt.who] = e.hdr.suite),
     Check("key-id mismatch", a.rcpt.who = e.hdr.kid) >>

Authenticated(e) == "authenticated" \in e.hdr.flags
Bound(e) == "ppk" \in e.hdr.flags

(* The sender block of an authenticated envelope, and the expected sender. *)
UnsignedBlockChecks(h, expected) ==
  LET b == h.block
  IN  << Check("sender block framing", b.framed),
         Check("sender key", b.pub.role = "sig_pub"),
         Check("sender key-id", b.kid = b.pub.who),
         Check("expected key role",
               expected # NoBundle => expected.role = "sig_pub"),
         Check("unexpected sender",
               expected # NoBundle => expected.who = b.pub.who) >>
BlockChecks(h, expected) ==
  LET b == h.block
  IN  << Check("sender block framing", b.framed),
         Check("sender key", b.pub.role = "sig_pub"),
         Check("sender key-id", b.kid = b.pub.who),
         Check("signature",
               b.sig = Signature(b.pub.who, <<HandshakeOf(h), b.pub.who>>)),
         Check("expected key role",
               expected # NoBundle => expected.role = "sig_pub"),
         Check("unexpected sender",
               expected # NoBundle => expected.who = b.pub.who) >>

SenderChecksAnyone(e, a) ==
  IF Authenticated(e) THEN BlockChecks(e.hdr, NoBundle)
  ELSE << Check("anonymous", a.expected = NoBundle) >>
SenderChecks(e, a) ==
  IF Authenticated(e) THEN BlockChecks(e.hdr, a.expected)
  ELSE << Check("anonymous", a.expected = NoBundle) >>

(* The policy is resolved first, from the argument alone; then the key and *)
(* the envelope's flag are held against it.                                *)
PolicyChecksGatedOnKey(e, a) ==
  << Check("key without policy", a.policy = "unset" => a.ppk = Empty),
     Check("unknown policy", a.policy # "unknown"),
     Check("required: unbound", a.policy = "required" /\ a.ppk # Empty => Bound(e)),
     Check("forbidden: bound", a.policy = "forbidden" => ~Bound(e)),
     Check("bound, no key", Bound(e) => a.ppk # Empty) >>
ForbiddenWithoutKey(e, a) ==
  << Check("key without policy", a.policy = "unset" => a.ppk = Empty),
     Check("unknown policy", a.policy # "unknown"),
     Check("required: no key", a.policy = "required" => a.ppk # Empty),
     Check("required: unbound", a.policy = "required" => Bound(e)),
     Check("forbidden: key", a.policy = "forbidden" => a.ppk = Empty),
     Check("bound, no key", Bound(e) => a.ppk # Empty) >>
PolicyChecks(e, a) ==
  << Check("key without policy", a.policy = "unset" => a.ppk = Empty),
     Check("unknown policy", a.policy # "unknown"),
     Check("required: no key", a.policy = "required" => a.ppk # Empty),
     Check("required: unbound", a.policy = "required" => Bound(e)),
     Check("forbidden: bound", a.policy = "forbidden" => ~Bound(e)),
     Check("bound, no key", Bound(e) => a.ppk # Empty) >>

(* One stage: on to the next, or out with the first error.                 *)
Stage(at, checks, next) ==
  /\ opc = at
  /\ oerr' = FirstFailure(checks)
  /\ opc' = IF FirstFailure(checks) = "none" THEN next ELSE "failed"
  /\ UNCHANGED <<sent, storeVars, env, args, out, used>>

DecryptParse  == Stage("parse", ParseChecks(env), "key")
DecryptKey    == Stage("key", KeyChecks(env, args), "sender")
DecryptSenderIfExpected ==
  Stage("sender", IF args.expected = NoBundle THEN <<>>
                  ELSE SenderChecks(env, args), "policy")
DecryptSender == Stage("sender", SenderChecks(env, args), "policy")
DecryptPolicy == Stage("policy", PolicyChecks(env, args), "open")

(* The key-id that was verified, and the pre-shared key that is mixed in.  *)
VerifiedKid(e) == IF Authenticated(e) THEN e.hdr.block.pub.who ELSE Empty
EffectivePpk(e, a) == IF Bound(e) THEN a.ppk ELSE Empty

Opens(e, a) ==
  AeadOpens(EnvelopeKey(e.hdr, a.rcpt.who, EffectivePpk(e, a), VerifiedKid(e)),
            ReadField(e.hdr, "nonce"), e.hdr, e.sealed)

(* ECDH, decapsulation, the key, AES-GCM.  A handshake or a nonce that the *)
(* library refuses ends the call as a tag that does not verify does.       *)
DecryptOpen ==
  /\ opc = "open"
  /\ used' = TRUE
  /\ \/ /\ Opens(env, args)
        /\ opc' = "done"
        /\ out' = env.sealed.plaintext
        /\ UNCHANGED oerr
     \/ /\ ~Opens(env, args)
        /\ opc' = "failed"
        /\ oerr' = "AEAD open failed"
        /\ UNCHANGED out
  /\ UNCHANGED <<sent, storeVars, env, args>>

(* The caller has the result; it may call again.                           *)
DecryptReturn ==
  /\ opc \in {"done", "failed"}
  /\ opc' = "idle"
  /\ env' = None /\ args' = None /\ out' = None
  /\ oerr' = "none" /\ used' = FALSE
  /\ UNCHANGED <<sent, storeVars>>

-----------------------------------------------------------------------------
Init ==
  /\ sent = <<>> /\ wire = <<>>
  /\ faults = 0
  /\ opc = "idle"
  /\ env = None /\ args = None /\ out = None
  /\ oerr = "none" /\ used = FALSE

DecryptStep == DecryptParse \/ DecryptKey \/ DecryptSender \/ DecryptPolicy
               \/ DecryptOpen

StorageFault == DamageField \/ FlipFlag \/ CrossField \/ Recut \/ DamageBlock
                \/ DamageSealed \/ CrossSealed \/ Cut

Next == Encrypt \/ StorageFault \/ DecryptCall \/ DecryptStep \/ DecryptReturn

(* All the properties are of safety.                                       *)
Spec == Init /\ [][Next]_vars

-----------------------------------------------------------------------------
(* Properties.                                                             *)

(* A stored sender block: none, or three fields of some sender or damaged. *)
BlockOK(b) == \/ b = NoBlock
              \/ /\ b = [kid |-> b.kid, pub |-> b.pub, sig |-> b.sig, framed |-> b.framed]
                 /\ b.kid \in Senders \union {Bad}
                 /\ b.pub \in SigBundles \union {BadBundle}
                 /\ b.framed \in BOOLEAN

(* Type invariant; an authenticated envelope always carries a public key.  *)
TypeOK ==
  /\ Finished \subseteq Calls /\ Stored = Finished
  /\ \A c \in Finished : sent[c].given \in Given
  /\ \A c \in Stored : BlockOK(wire[c].hdr.block) /\ wire[c].tail \in Tails
  /\ faults \in 0..MaxFaults
  /\ opc \in {"idle", "parse", "key", "sender", "policy", "open", "done", "failed"}
  /\ opc # "idle" => args \in Args
  /\ out \in Messages \union {None}
  /\ used \in BOOLEAN

(* What decrypt promises, from what the two callers said and nothing of    *)
(* the wire.  The message is for this private key; ...                     *)
ForThisKey(g, a) == a.rcpt = [who |-> g.to, role |-> "kem_priv"]

(* ... a signed message carries the signer's own public key, of the        *)
(* recipient's parameter set, and comes from the expected sender if one    *)
(* was named, who never accepts an anonymous one; ...                      *)
SenderAccepted(g, a) ==
  IF g.from.priv = NoBundle THEN a.expected = NoBundle
  ELSE /\ g.from.pub = [who |-> g.from.priv.who, role |-> "sig_pub"]
       /\ SameAlgorithm(SigSuiteOf[g.from.priv.who], SuiteOf[g.to])
       /\ a.expected \in {NoBundle, g.from.pub}

(* ... and the policy: a message sealed with a pre-shared key needs that   *)
(* key and a policy that wants it; one sealed without opens under every    *)
(* policy but "required", and a key that is then ignored needs a policy.   *)
PpkAccepted(g, a) ==
  IF g.ppk # Empty THEN a.ppk = g.ppk /\ a.policy \in {"required", "optional"}
  ELSE a.policy \in {"optional", "forbidden"} \/ (a.policy = "unset" /\ a.ppk = Empty)

Acceptable(g, a) == ForThisKey(g, a) /\ SenderAccepted(g, a) /\ PpkAccepted(g, a)

(* The parts of the inductive invariant.  A returned envelope is what      *)
(* encrypt makes of its arguments.                                         *)
SentInv ==
  \A c \in Finished :
    /\ c \in Calls /\ sent[c].given \in Given
    /\ SealAccepts("kem_pub", sent[c].given)
    /\ \E n \in Nonces : sent[c].env = Envelope(c, sent[c].given, n)

(* Storage moves and damages what encrypt made; it seals and signs nothing.*)
GenuineSealed == {Bad} \union {sent[c].env.sealed : c \in Finished}
GenuineSigs ==
  {BadSignature} \union {sent[c].env.hdr.block.sig : c \in Finished}

StoredBytes(e) ==
  /\ e = [hdr |-> e.hdr, tail |-> e.tail, sealed |-> e.sealed]
  /\ "block" \in DOMAIN e.hdr /\ "sig" \in DOMAIN e.hdr.block
  /\ e.hdr.block.sig \in GenuineSigs
  /\ e.tail \in Tails
  /\ e.sealed \in GenuineSealed

WireInv == \A c \in Stored : StoredBytes(wire[c])

ArgsInv == opc # "idle" => args \in Args /\ StoredBytes(env)

(* Where decrypt is says which stages it has passed, or why it refuses.    *)
Passed(checks) == FirstFailure(checks) = "none"

StageInv ==
  /\ used => opc \in {"done", "failed"}
  /\ opc \in {"key", "sender", "policy", "open", "done"} \/ used =>
       Passed(ParseChecks(env))
  /\ opc \in {"sender", "policy", "open", "done"} \/ used =>
       Passed(KeyChecks(env, args))
  /\ opc \in {"policy", "open", "done"} \/ used => Passed(SenderChecks(env, args))
  /\ opc \in {"open", "done"} \/ used => Passed(PolicyChecks(env, args))
  /\ opc = "done" => Opens(env, args) /\ out = env.sealed.plaintext
  /\ opc = "failed" =>
       \/ ~Passed(ParseChecks(env)) \/ ~Passed(KeyChecks(env, args))
       \/ ~Passed(SenderChecks(env, args)) \/ ~Passed(PolicyChecks(env, args))
       \/ ~Opens(env, args)

(* The inductive invariant (shield.py:405-503).                            *)
IInv == SentInv /\ WireInv /\ ArgsInv /\ StageInv
EnvelopeInv == TypeOK /\ IInv

(* Whatever storage did, what decrypt returns is the whole message of one  *)
(* encrypt call, from the bytes that call returned, and a message that the *)
(* arguments accept: no missing key, flipped flag or exchanged block ever  *)
(* relaxes the policy or the expected sender (shield.py:437-495).          *)
OpensOnlyAcceptable ==
  opc = "done" => \E c \in Finished :
    /\ env = sent[c].env
    /\ out = sent[c].given.msg
    /\ Acceptable(sent[c].given, args)

(* An envelope nobody has changed opens for everyone who accepts it: no    *)
(* check of decrypt refuses what encrypt made (shield.py:405-503).         *)
AcceptableOpens ==
  \A c \in Finished : opc = "failed" /\ env = sent[c].env =>
    ~Acceptable(sent[c].given, args)

(* With an expected sender, the private key is used only when that sender  *)
(* has signed the handshake's row of bytes, for this recipient - though    *)
(* the sealed bytes after it may be anything, and the fields that ECDH and *)
(* decapsulation are given need not be the ones it was signed with: only   *)
(* the row is (shield.py:435-452 before 497).                              *)
SecretOnlyForSender ==
  used /\ args.expected # NoBundle => \E c \in Finished :
    /\ sent[c].given.from.priv.who = args.expected.who
    /\ sent[c].given.to = args.rcpt.who
    /\ HandshakeOf(sent[c].env.hdr) = HandshakeOf(env.hdr)

(* What the documents say: a byte of the signed transcript cannot move     *)
(* from one field to another, so that the fields the private key meets are *)
(* those of a header the expected sender signed (VERIFICATION_GAP_MAP.md:  *)
(* 27-30, FORMAT.md:153-155).  decrypt checks the length of none of them   *)
(* (shield.py:419-424, 436, 497-498): it does not hold.                    *)
FieldsOf(h) == [f \in {"eph", "ct", "nonce"} |-> ReadField(h, f)]
SecretOnlyForSignedFields ==
  used /\ args.expected # NoBundle => \E c \in Finished :
    /\ sent[c].given.from.priv.who = args.expected.who
    /\ FieldsOf(sent[c].env.hdr) = FieldsOf(env.hdr)

(* The two functions implement EnvelopeTransfer.                           *)
Outcome ==
  [phase   |-> CASE opc = "idle" -> "idle" [] opc = "done" -> "delivered"
                 [] opc = "failed" -> "refused" [] OTHER -> "pending",
   demands |-> args,
   from    |-> IF opc = "done" THEN env.hdr.ct ELSE None]

Transfer == INSTANCE EnvelopeTransfer WITH
  Demands <- Args,
  Facts   <- Given,
  Meets   <- Acceptable,
  sent    <- [c \in Calls |-> IF c \in Finished THEN sent[c].given ELSE None],
  result  <- Outcome

ImplementsTransfer == Transfer!Spec
=============================================================================
