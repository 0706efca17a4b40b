------------------------------ MODULE KeyBundle ------------------------------
(***************************************************************************)
(* The length-prefixed fields of vorlath_shield/shield.py, byte by byte:   *)
(* the key bundles (VRSK) that generate_*_keys writes and _parse_key       *)
(* reads, and the sender block that encrypt writes and decrypt reads.      *)
(*                                                                         *)
(* A length is two digits of the base (256 in the code), so a buffer can   *)
(* end inside one.  The fixed first seven bytes are the record head; what  *)
(* follows is a sequence of bytes, read one field per step.                *)
(***************************************************************************)
EXTENDS Naturals, SequencesExt

CONSTANTS
  Base,           \* how many values a byte has
  Material,       \* byte strings: public keys
  PrivateParts,   \* byte strings: private keys
  BlockMaterial,  \* byte strings: key-ids, public bundles, signatures
  SuiteNames,     \* suites of the bundles
  Shake(_, _, _), \* _shake16: role label, suite, and the parts in a row
  MaxMade,        \* bound on the bundles written; a block is written alone
  Bad             \* a damaged head byte

Byte == 0 .. Base - 1
MaxLen == Base * Base - 1

(* SHAKE-256 is collision-free; label, suite and parts are its input.      *)
ASSUME KeyBundleAssumption ==
  /\ Base \in Nat \ {0, 1}
  /\ Material \subseteq Seq(Byte) /\ PrivateParts \subseteq Seq(Byte)
  /\ BlockMaterial \subseteq Seq(Byte)
  /\ MaxMade \in Nat
  /\ Bad \notin SuiteNames

VARIABLES
  made,    \* what has been written
  refused, \* the field lists that _tlv raised for
  orig,    \* the one of made behind the bytes under parse
  head,    \* magic, version, suite and role of the bytes under parse
  buf,     \* the bytes after them
  expect,  \* expect_role
  pc,      \* where the parser is
  off,     \* its offset
  fields,  \* the fields it has read, each with the offset it was read at
  err      \* the ValueError raised, or "none"

writeVars == <<made, refused>>
parseVars == <<orig, head, buf, expect, pc, off, fields, err>>
vars == <<writeVars, parseVars>>

-----------------------------------------------------------------------------
(* Writing.                                                                *)

(* _tlv.                                                                   *)
TooLong(b) == Len(b) > MaxLen
TlvLowDigitFirst(b) == <<Len(b) % Base, Len(b) \div Base>> \o b
Tlv(b) == <<Len(b) \div Base, Len(b) % Base>> \o b

Tlvs(bs) == FlattenSeq([i \in DOMAIN bs |-> Tlv(bs[i])])

KemPub == 1
KemPriv == 2
SigPub == 3
SigPriv == 4
Roles == {KemPub, KemPriv, SigPub, SigPriv}
PublicRoles == {KemPub, SigPub}  \* those of _PUBLIC_KID_LABEL

(* A key-id is a string of bytes.                                          *)
ASSUME ShakeAssumption ==
  \A role \in PublicRoles, s \in SuiteNames, x, y \in Material :
    Shake(role, s, x) \in Seq(Byte) /\ Shake(role, s, x \o y) \in Seq(Byte)

FixedHead(suite, role) == [magic |-> "VRSK", version |-> 2, suite |-> suite, role |-> role]
Written(kind, suite, role, bs) ==
  [kind |-> kind, head |-> FixedHead(suite, role), fields |-> bs, bytes |-> Tlvs(bs)]

(* Nothing more is written after a refusal.                                *)
MayWrite(kind) ==
  /\ refused = {}
  /\ IF kind = "block" THEN made = {}
     ELSE Cardinality(made) < MaxMade /\ \A e \in made : e.kind = kind

(* Any field too long: nothing is written.                                 *)
Write(entries) ==
  LET raising == {e \in entries : \E i \in DOMAIN e.fields : TooLong(e.fields[i])}
  IN  /\ refused' = refused \union {e.fields : e \in raising}
      /\ made' = IF raising = {} THEN made \union entries ELSE made

(* generate_recipient_keys and generate_signing_keys: the key-id is of the *)
(* public parts, in both bundles.                                          *)
GenerateRecipientKeys ==
  /\ MayWrite("key")
  /\ \E s \in SuiteNames, x, ek \in Material, xPriv, dk \in PrivateParts :
       LET kid == Shake(KemPub, s, x \o ek)
       IN  Write({Written("key", s, KemPub, <<kid, x, ek>>),
                  Written("key", s, KemPriv, <<kid, xPriv, dk>>)})
  /\ UNCHANGED parseVars

GenerateSigningKeys ==
  /\ MayWrite("key")
  /\ \E s \in SuiteNames, pk \in Material, sk \in PrivateParts :
       LET kid == Shake(SigPub, s, pk)
       IN  Write({Written("key", s, SigPub, <<kid, pk>>),
                  Written("key", s, SigPriv, <<kid, sk>>)})
  /\ UNCHANGED parseVars

(* encrypt: the sender block, three fields, is itself a field.  What is    *)
(* passed as the public bundle may be any bytes.                           *)
WriteSenderBlock ==
  /\ MayWrite("block")
  /\ \E kid, pub, sig \in BlockMaterial, s \in SuiteNames :
       LET e == Written("block", s, SigPub, <<kid, pub, sig>>)
       IN  IF \/ \E i \in 1..3 : TooLong(e.fields[i])
              \/ TooLong(e.bytes)
           THEN refused' = refused \union {e.fields} /\ UNCHANGED made
           ELSE made' = made \union {e} /\ UNCHANGED refused
  /\ UNCHANGED parseVars

-----------------------------------------------------------------------------
(* What may be given to the parser: the bytes as written, or with one byte *)
(* changed, cut, run on, or with the key-id of another bundle put in.      *)

ByteChanged(b) == {[b EXCEPT ![i] = v] : i \in DOMAIN b, v \in Byte}
Cut(b) == {SubSeq(b, 1, n) : n \in 0 .. Len(b)}
RunOn(b) == {b \o m : m \in Material}
            \union {b \o Tlv(m) : m \in {x \in Material : ~TooLong(x)}}
OtherKid(e) == {Tlvs(<<o.fields[1]>> \o Tail(e.fields)) : o \in made}

Variants(e) ==
  {[head |-> e.head, bytes |-> b] :
     b \in ByteChanged(e.bytes) \union Cut(e.bytes) \union RunOn(e.bytes)
           \union OtherKid(e)}
  \union {[head |-> h, bytes |-> e.bytes] :
     h \in {[e.head EXCEPT !.magic = Bad], [e.head EXCEPT !.version = Bad]}
           \union {[e.head EXCEPT !.suite = s] : s \in SuiteNames}
           \union {[e.head EXCEPT !.role = r] : r \in Roles}}

-----------------------------------------------------------------------------
(* Reading.                                                                *)

Fail(why) == /\ pc' = "failed" /\ err' = why
             /\ UNCHANGED <<orig, head, buf, expect, off, fields>>

ParseCall ==
  /\ pc = "idle"
  /\ \E e \in made : \E v \in Variants(e), r \in Roles :
       /\ orig' = e /\ head' = v.head /\ buf' = v.bytes
       /\ expect' = r
  /\ pc' = "head" /\ off' = 0 /\ fields' = <<>> /\ err' = "none"
  /\ UNCHANGED writeVars

(* The fixed bytes of a bundle; a block has none of its own.               *)
ReadHead ==
  /\ pc = "head"
  /\ LET good == \/ orig.kind = "block"
                 \/ head.magic = "VRSK" /\ head.version = 2 /\ head.role = expect
     IN  \/ good /\ pc' = "field"
            /\ UNCHANGED <<orig, head, buf, expect, off, fields, err>>
         \/ ~good /\ Fail("head")
  /\ UNCHANGED writeVars

(* _read_tlv, and what its caller does next: _parse_key reads on until the *)
(* bytes are used up, decrypt reads three fields of the block.             *)
(* A slice stops at the end of the bytes.                                   *)
Slice(i, j) == SubSeq(buf, i, IF j > Len(buf) THEN Len(buf) ELSE j)
LengthAt(o) == buf[o + 1] * Base + buf[o + 2]
EndAt(o) == o + 2 + LengthAt(o)
MoreToRead(o) ==
  IF orig.kind = "key" THEN o < Len(buf) ELSE Len(fields) + 1 < 3

PastEndByOne(o) == EndAt(o) > Len(buf) + 1
PastEnd(o) == EndAt(o) > Len(buf)

(* A loop that goes round again for an empty field, without going past it. *)
ReadFieldSkipsEmpty ==
  /\ pc = "field"
  /\ IF off + 2 > Len(buf) THEN Fail("missing TLV length")
     ELSE IF PastEnd(off) THEN Fail("TLV value runs past end")
     ELSE IF LengthAt(off) = 0 THEN UNCHANGED parseVars
     ELSE /\ fields' = Append(fields, [at |-> off, val |-> Slice(off + 3, EndAt(off))])
          /\ off' = EndAt(off)
          /\ pc' = IF MoreToRead(EndAt(off)) THEN "field" ELSE "check"
          /\ UNCHANGED <<orig, head, buf, expect, err>>
  /\ UNCHANGED writeVars

ReadField ==
  /\ pc = "field"
  /\ \/ off + 2 > Len(buf) /\ Fail("missing TLV length")
     \/ off + 2 <= Len(buf) /\ PastEnd(off) /\ Fail("TLV value runs past end")
     \/ /\ off + 2 <= Len(buf) /\ ~PastEnd(off)
        /\ fields' = Append(fields, [at |-> off, val |-> Slice(off + 3, EndAt(off))])
        /\ off' = EndAt(off)
        /\ pc' = IF MoreToRead(EndAt(off)) THEN "field" ELSE "check"
        /\ UNCHANGED <<orig, head, buf, expect, err>>
  /\ UNCHANGED writeVars

(* The key-id of a public bundle is recomputed; a block must be used up.   *)
Values == [i \in DOMAIN fields |-> fields[i].val]
KidHoldsAnyway == TRUE
KidHolds ==
  head.role \in PublicRoles =>
    Values[1] = Shake(head.role, head.suite, FlattenSeq(Tail(Values)))

UsedUp == off = Len(buf)

FinalCheck ==
  /\ pc = "check"
  /\ LET good == IF orig.kind = "key" THEN KidHolds ELSE UsedUp
     IN  \/ good /\ pc' = "accepted"
            /\ UNCHANGED <<orig, head, buf, expect, off, fields, err>>
         \/ ~good /\ Fail(IF orig.kind = "key" THEN "key-id" ELSE "trailing bytes")
  /\ UNCHANGED writeVars

Return ==
  /\ pc \in {"accepted", "failed"}
  /\ orig' = Bad /\ head' = Bad /\ buf' = <<>> /\ expect' = KemPub
  /\ pc' = "idle" /\ off' = 0 /\ fields' = <<>> /\ err' = "none"
  /\ UNCHANGED writeVars

-----------------------------------------------------------------------------
Init ==
  /\ made = {} /\ refused = {}
  /\ orig = Bad /\ head = Bad /\ buf = <<>> /\ expect = KemPub
  /\ pc = "idle" /\ off = 0 /\ fields = <<>> /\ err = "none"

Writing == GenerateRecipientKeys \/ GenerateSigningKeys \/ WriteSenderBlock
ParseStep == ReadHead \/ ReadField \/ FinalCheck

Next == Writing \/ ParseCall \/ ParseStep \/ Return

(* A call that has begun goes on by itself.                                *)
Spec == Init /\ [][Next]_vars /\ WF_vars(ParseStep)

-----------------------------------------------------------------------------
(* Properties.                                                             *)

(* One encoding only: what is accepted is, byte for byte, what the writer  *)
(* makes of the fields it was read as, whatever happened to the bytes      *)
(* (shield.py:245-249, 440-444: nothing missing, nothing left over).       *)
Canonical == pc = "accepted" => buf = Tlvs(Values)

(* What a two-byte length can say, each field and the sender block as a    *)
(* whole, is written, and what was written is read back, fields of the     *)
(* greatest length and of none included (shield.py:205-219, 372-376).      *)
RoundTrip ==
  /\ \A fs \in refused : Len(Tlvs(fs)) > MaxLen
  /\ /\ pc \in {"accepted", "failed"}
     /\ buf = orig.bytes /\ head = orig.head
     /\ orig.kind = "key" => expect = head.role
     => pc = "accepted" /\ Values = orig.fields

(* An accepted public bundle with the key-id of a generated one has its    *)
(* role, its suite and its key material; for a signing key, which is one   *)
(* part, it is the same bundle byte for byte (shield.py:257-261).          *)
KidBinds ==
  pc = "accepted" /\ orig.kind = "key" /\ head.role \in PublicRoles =>
    \A e \in made :
      e.kind = "key" /\ e.head.role \in PublicRoles /\ e.fields[1] = Values[1] =>
        /\ e.head = head
        /\ FlattenSeq(Tail(e.fields)) = FlattenSeq(Tail(Values))
        /\ Len(Values) = 2 /\ head.role = SigPub => e.bytes = buf

(* Every parse ends: each field read takes the offset forward              *)
(* (shield.py:245-249).                                                    *)
ParseEnds == pc = "head" ~> pc \in {"accepted", "failed"}
=============================================================================
