----------------------- MODULE ShieldEnvelope_proofs -----------------------
(***************************************************************************)
(* Theorems about ShieldEnvelope, about AltCodec beside it, and about the  *)
(* corpus of PstvEnvelopes, for every value of their constants.            *)
(***************************************************************************)
EXTENDS PstvEnvelopes, Parsing_proofs

(* encrypt adds one envelope and leaves the others as they are.            *)
LEMMA EncryptSent ==
  ASSUME SentInv, Encrypt
  PROVE  /\ SentInv'
         /\ \A c \in Finished : c \in Finished' /\ sent'[c] = sent[c]
<1>1. PICK c \in Calls \ Finished, g \in Given, role \in Roles, n \in Nonces :
        /\ SealAccepts(role, g)
        /\ sent' = With(sent, c, [given |-> g, env |-> Envelope(c, g, n)])
  BY DEF Encrypt
<1>2. Finished' = Finished \union {c}
  BY <1>1 DEF Finished, With
<1>3. sent'[c] = [given |-> g, env |-> Envelope(c, g, n)]
  BY <1>1 DEF With
<1>4. \A d \in Finished : sent'[d] = sent[d]
  BY <1>1 DEF With, Finished
<1>5. SealAccepts("kem_pub", g)
  BY <1>1 DEF SealAccepts
<1>6. SentInv'
  <2>. SUFFICES ASSUME NEW d \in Finished'
                PROVE /\ d \in Calls /\ sent'[d].given \in Given
                      /\ SealAccepts("kem_pub", sent'[d].given)
                      /\ \E m \in Nonces : sent'[d].env = Envelope(d, sent'[d].given, m)
    BY DEF SentInv
  <2>1. CASE d = c
    BY <2>1, <1>3, <1>5
  <2>2. CASE d # c
    BY <2>2, <1>2, <1>4 DEF SentInv
  <2>. QED  BY <2>1, <2>2
<1>. QED  BY <1>2, <1>4, <1>6

(* What an envelope carries stays genuine while more are sealed.           *)
LEMMA StoredBytesGrow ==
  ASSUME NEW e, StoredBytes(e),
         \A c \in Finished : c \in Finished' /\ sent'[c] = sent[c]
  PROVE  StoredBytes(e)'
<1>1. GenuineSealed \subseteq GenuineSealed' /\ GenuineSigs \subseteq GenuineSigs'
  BY DEF GenuineSealed, GenuineSigs
<1>. QED  BY <1>1 DEF StoredBytes

(* A returned envelope has the shape of a stored one.                      *)
LEMMA EnvelopeShape ==
  ASSUME NEW c, NEW g, NEW n
  PROVE  LET e == Envelope(c, g, n) IN
         /\ e = [hdr |-> e.hdr, tail |-> e.tail, sealed |-> e.sealed]
         /\ "block" \in DOMAIN e.hdr /\ "sig" \in DOMAIN e.hdr.block
         /\ e.tail = "whole"
         /\ e.hdr = EnvelopeHeader(c, g, n)
         /\ e.hdr.block = SenderBlock(g, BareHeader(c, g, n))
<1>1. "sig" \in DOMAIN SenderBlock(g, BareHeader(c, g, n))
  BY DEF SenderBlock, NoBlock, Block
<1>2. /\ "block" \in DOMAIN EnvelopeHeader(c, g, n)
      /\ EnvelopeHeader(c, g, n).block = SenderBlock(g, BareHeader(c, g, n))
  BY DEF EnvelopeHeader, BareHeader
<1>. QED  BY <1>1, <1>2 DEF Envelope

(* encrypt stores what it returns.                                         *)
LEMMA EncryptWire ==
  ASSUME SentInv, WireInv, Encrypt
  PROVE  WireInv'
<1>1. PICK c \in Calls \ Finished, g \in Given, role \in Roles, n \in Nonces :
        /\ SealAccepts(role, g)
        /\ sent' = With(sent, c, [given |-> g, env |-> Envelope(c, g, n)])
        /\ wire' = With(wire, c, Envelope(c, g, n))
  BY DEF Encrypt
<1>. SUFFICES ASSUME NEW d \in Stored' PROVE StoredBytes(wire[d])'
  BY DEF WireInv
<1>2. CASE d = c
  <2>1. c \in Finished' /\ sent'[c].env = Envelope(c, g, n)
    BY <1>1 DEF Finished, With
  <2>2. wire'[c] = Envelope(c, g, n)
    BY <1>1 DEF With
  <2>3. /\ wire'[c].sealed \in GenuineSealed'
        /\ wire'[c].hdr.block.sig \in GenuineSigs'
    BY <2>1, <2>2 DEF GenuineSealed, GenuineSigs
  <2>. QED  BY <1>2, <2>2, <2>3, EnvelopeShape DEF StoredBytes, Tails
<1>3. CASE d # c
  <2>1. d \in Stored /\ wire'[d] = wire[d]
    BY <1>1, <1>3 DEF Stored, With
  <2>. QED  BY <2>1, EncryptSent, StoredBytesGrow DEF WireInv
<1>. QED  BY <1>2, <1>3

(* A fault that leaves genuine parts leaves a genuine store.               *)
LEMMA FaultWire ==
  ASSUME WireInv, NEW c \in Stored, NEW hdr, NEW tail \in Tails,
         NEW sealed \in GenuineSealed,
         "block" \in DOMAIN hdr, "sig" \in DOMAIN hdr.block,
         hdr.block.sig \in GenuineSigs, Fault(c, hdr, tail, sealed)
  PROVE  WireInv'
<1>. DEFINE e == [hdr |-> hdr, tail |-> tail, sealed |-> sealed]
<1>1. /\ GenuineSealed' = GenuineSealed /\ GenuineSigs' = GenuineSigs
  BY DEF Fault, GenuineSealed, GenuineSigs, Finished
<1>2. Stored' = Stored
  BY DEF Fault, Stored
<1>3. wire' = [wire EXCEPT ![c] = e]
  BY DEF Fault
<1>. SUFFICES ASSUME NEW d \in Stored PROVE StoredBytes(wire[d])'
  BY <1>2 DEF WireInv
<1>4. CASE d = c
  <2>1. wire'[d] = e
    BY <1>3, <1>4 DEF Stored
  <2>. QED  BY <1>1, <2>1 DEF StoredBytes
<1>5. CASE d # c
  <2>1. wire'[d] = wire[d]
    BY <1>3, <1>5 DEF Stored
  <2>. QED  BY <1>1, <2>1 DEF StoredBytes, WireInv
<1>. QED  BY <1>4, <1>5

(* So does a fault of a header field other than the sender block.          *)
LEMMA HeaderFaultWire ==
  ASSUME WireInv, NEW c \in Stored, NEW f, f # "block", NEW v,
         HeaderFault(c, [wire[c].hdr EXCEPT ![f] = v])
  PROVE  WireInv'
<1>. DEFINE h == [wire[c].hdr EXCEPT ![f] = v]
<1>1. "block" \in DOMAIN wire[c].hdr /\ "sig" \in DOMAIN wire[c].hdr.block
  BY DEF WireInv, StoredBytes
<1>2. "block" \in DOMAIN h /\ h.block = wire[c].hdr.block
  BY <1>1
<1>3. /\ wire[c].tail \in Tails /\ wire[c].sealed \in GenuineSealed
      /\ wire[c].hdr.block.sig \in GenuineSigs
  BY DEF WireInv, StoredBytes
<1>4. Fault(c, h, wire[c].tail, wire[c].sealed)
  BY DEF HeaderFault
<1>. HIDE DEF h
<1>. QED  BY <1>1, <1>2, <1>3, <1>4, FaultWire

(* So does a fault of the sender block whose signature is genuine.         *)
LEMMA BlockFaultWire ==
  ASSUME WireInv, NEW c \in Stored, NEW b, "sig" \in DOMAIN b,
         b.sig \in GenuineSigs, BlockFault(c, b)
  PROVE  WireInv'
<1>. DEFINE h == [wire[c].hdr EXCEPT !.block = b]
<1>1. "block" \in DOMAIN wire[c].hdr
  BY DEF WireInv, StoredBytes
<1>2. "block" \in DOMAIN h /\ h.block = b
  BY <1>1
<1>3. wire[c].tail \in Tails /\ wire[c].sealed \in GenuineSealed
  BY DEF WireInv, StoredBytes
<1>4. Fault(c, h, wire[c].tail, wire[c].sealed)
  BY DEF HeaderFault, BlockFault
<1>. HIDE DEF h
<1>. QED  BY <1>2, <1>3, <1>4, FaultWire

(* Every fault leaves a store of genuine and damaged parts.                *)
LEMMA StorageFaultWire ==
  ASSUME WireInv, StorageFault
  PROVE  WireInv'
<1>1. CASE DamageField
  BY <1>1, HeaderFaultWire DEF DamageField
<1>2. CASE FlipFlag
  BY <1>2, HeaderFaultWire DEF FlipFlag
<1>3. CASE CrossField
  <2>1. PICK c \in Stored, d \in Stored : \E f \in DOMAIN wire[c].hdr :
          HeaderFault(c, [wire[c].hdr EXCEPT ![f] = wire[d].hdr[f]])
    BY <1>3 DEF CrossField
  <2>2. PICK f \in DOMAIN wire[c].hdr :
          HeaderFault(c, [wire[c].hdr EXCEPT ![f] = wire[d].hdr[f]])
    BY <2>1
  <2>3. CASE f = "block"
    <3>1. "sig" \in DOMAIN wire[d].hdr.block /\ wire[d].hdr.block.sig \in GenuineSigs
      BY DEF WireInv, StoredBytes
    <3>2. BlockFault(c, wire[d].hdr.block)
      BY <2>2, <2>3 DEF BlockFault
    <3>. QED  BY <3>1, <3>2, BlockFaultWire
  <2>4. CASE f # "block"
    BY <2>2, <2>4, HeaderFaultWire
  <2>. QED  BY <2>3, <2>4
<1>4. CASE DamageBlock
  <2>1. PICK c \in Stored :
          LET b == wire[c].hdr.block
          IN  \/ BlockFault(c, [b EXCEPT !.kid = Bad])
              \/ BlockFault(c, [b EXCEPT !.pub = BadBundle])
              \/ BlockFault(c, [b EXCEPT !.sig = BadSignature])
              \/ BlockFault(c, [b EXCEPT !.framed = FALSE])
    BY <1>4 DEF DamageBlock
  <2>. DEFINE b == wire[c].hdr.block
  <2>2. "sig" \in DOMAIN b /\ b.sig \in GenuineSigs
    BY DEF WireInv, StoredBytes
  <2>3. BadSignature \in GenuineSigs
    BY DEF GenuineSigs
  <2>4. PICK k : /\ "sig" \in DOMAIN k /\ k.sig \in GenuineSigs
                 /\ BlockFault(c, k)
    <3>. HIDE DEF b
    <3>1. CASE BlockFault(c, [b EXCEPT !.kid = Bad])
      BY <2>2, <3>1
    <3>2. CASE BlockFault(c, [b EXCEPT !.pub = BadBundle])
      BY <2>2, <3>2
    <3>3. CASE BlockFault(c, [b EXCEPT !.sig = BadSignature])
      BY <2>2, <2>3, <3>3
    <3>4. CASE BlockFault(c, [b EXCEPT !.framed = FALSE])
      BY <2>2, <3>4
    <3>. QED  BY <2>1, <3>1, <3>2, <3>3, <3>4 DEF b
  <2>. QED  BY <2>4, BlockFaultWire
<1>5. CASE DamageSealed
  <2>1. PICK c \in Stored : SealedFault(c, Bad)
    BY <1>5 DEF DamageSealed
  <2>2. Bad \in GenuineSealed
    BY DEF GenuineSealed
  <2>. QED  BY <2>1, <2>2, FaultWire DEF SealedFault, WireInv, StoredBytes
<1>6. CASE CrossSealed
  <2>1. PICK c \in Stored, d \in Stored : SealedFault(c, wire[d].sealed)
    BY <1>6 DEF CrossSealed
  <2>. QED  BY <2>1, FaultWire DEF SealedFault, WireInv, StoredBytes
<1>7. CASE Cut
  <2>1. PICK c \in Stored, tail \in Tails : Fault(c, wire[c].hdr, tail, wire[c].sealed)
    BY <1>7 DEF Cut
  <2>. QED  BY <2>1, FaultWire DEF WireInv, StoredBytes
<1>8. CASE Recut
  BY <1>8, HeaderFaultWire DEF Recut
<1>. QED  BY <1>1, <1>2, <1>3, <1>4, <1>5, <1>6, <1>7, <1>8 DEF StorageFault

-----------------------------------------------------------------------------
(* The stages of decrypt.                                                  *)

(* One stage records its own verdict and keeps those before it.            *)
LEMMA StepStage ==
  ASSUME StageInv, DecryptStep
  PROVE  StageInv'
<1>1. env' = env /\ args' = args
  BY DEF DecryptStep, DecryptParse, DecryptKey, DecryptSender, DecryptPolicy,
         Stage, DecryptOpen
<1>2. CASE DecryptParse
  BY <1>1, <1>2 DEF StageInv, DecryptParse, Stage, Passed
<1>3. CASE DecryptKey
  BY <1>1, <1>3 DEF StageInv, DecryptKey, Stage, Passed
<1>4. CASE DecryptSender
  BY <1>1, <1>4 DEF StageInv, DecryptSender, Stage, Passed
<1>5. CASE DecryptPolicy
  BY <1>1, <1>5 DEF StageInv, DecryptPolicy, Stage, Passed
<1>6. CASE DecryptOpen
  BY <1>1, <1>6 DEF StageInv, DecryptOpen
<1>. QED  BY <1>2, <1>3, <1>4, <1>5, <1>6 DEF DecryptStep

(* A step of decrypt changes nothing but its own place and verdict.        *)
LEMMA StepKeepsStore ==
  ASSUME DecryptStep
  PROVE  UNCHANGED <<sent, wire, env, args>> /\ opc # "idle"
BY DEF DecryptStep, DecryptParse, DecryptKey, DecryptSender, DecryptPolicy,
       Stage, DecryptOpen, storeVars

(* The inductive invariant holds initially.                                *)
LEMMA InitInv == Init => IInv
<1>. SUFFICES ASSUME Init PROVE IInv
  OBVIOUS
<1>1. Finished = {} /\ Stored = {}
  BY DEF Init, Finished, Stored
<1>2. SentInv /\ WireInv
  BY <1>1 DEF SentInv, WireInv
<1>3. ArgsInv /\ StageInv
  BY DEF Init, ArgsInv, StageInv
<1>. QED  BY <1>2, <1>3 DEF IInv

(* Every action preserves the inductive invariant.                         *)
LEMMA StepInv == IInv /\ [Next]_vars => IInv'
<1>. SUFFICES ASSUME IInv, [Next]_vars PROVE IInv'
  OBVIOUS
<1>. USE DEF IInv
<1>1. CASE Encrypt
  <2>1. SentInv' /\ WireInv'
    BY <1>1, EncryptSent, EncryptWire
  <2>2. UNCHANGED <<opc, env, args, out, oerr, used>>
    BY <1>1 DEF Encrypt, openVars
  <2>3. ArgsInv'
    <3>. SUFFICES ASSUME opc # "idle" PROVE args' \in Args /\ StoredBytes(env)'
      BY <2>2 DEF ArgsInv
    <3>1. args \in Args /\ StoredBytes(env)
      BY DEF ArgsInv
    <3>2. \A c \in Finished : c \in Finished' /\ sent'[c] = sent[c]
      BY <1>1, EncryptSent
    <3>. QED  BY <3>1, <3>2, <2>2, StoredBytesGrow DEF StoredBytes
  <2>4. StageInv'
    BY <2>2 DEF StageInv
  <2>. QED  BY <2>1, <2>3, <2>4
<1>2. CASE StorageFault
  <2>1. WireInv'
    BY <1>2, StorageFaultWire
  <2>2. UNCHANGED <<sent, opc, env, args, out, oerr, used>>
    BY <1>2 DEF StorageFault, DamageField, FlipFlag, CrossField, Recut, DamageBlock,
                DamageSealed, CrossSealed, Cut, BlockFault, HeaderFault,
                SealedFault, Fault, openVars
  <2>3. SentInv'
    BY <2>2 DEF SentInv, Finished
  <2>4. ArgsInv'
    BY <2>2 DEF ArgsInv, StoredBytes, GenuineSealed, GenuineSigs, Finished
  <2>5. StageInv'
    BY <2>2 DEF StageInv
  <2>. QED  BY <2>1, <2>3, <2>4, <2>5
<1>3. CASE DecryptCall
  <2>1. UNCHANGED <<sent, wire, used>> /\ opc' = "parse" /\ ~used
    BY <1>3 DEF DecryptCall, storeVars, StageInv
  <2>2. SentInv' /\ WireInv'
    BY <2>1 DEF SentInv, WireInv, Finished, Stored, StoredBytes, GenuineSealed,
                GenuineSigs
  <2>3. ArgsInv'
    <3>1. args' \in Args /\ StoredBytes(env')
      BY <1>3 DEF DecryptCall, WireInv
    <3>. QED  BY <3>1, <2>1 DEF ArgsInv, StoredBytes, GenuineSealed, GenuineSigs,
                                Finished
  <2>4. StageInv'
    BY <2>1 DEF StageInv
  <2>. QED  BY <2>2, <2>3, <2>4
<1>4. CASE DecryptStep
  <2>1. UNCHANGED <<sent, wire, env, args>> /\ opc # "idle"
    BY <1>4, StepKeepsStore
  <2>2. SentInv' /\ WireInv' /\ ArgsInv'
    BY <2>1 DEF SentInv, WireInv, ArgsInv, Finished, Stored, StoredBytes,
                GenuineSealed, GenuineSigs
  <2>. QED  BY <1>4, <2>2, StepStage
<1>5. CASE DecryptReturn
  <2>1. UNCHANGED <<sent, wire>> /\ opc' = "idle" /\ used' = FALSE
    BY <1>5 DEF DecryptReturn, storeVars
  <2>2. SentInv' /\ WireInv'
    BY <2>1 DEF SentInv, WireInv, Finished, Stored, StoredBytes, GenuineSealed,
                GenuineSigs
  <2>. QED  BY <2>1, <2>2 DEF ArgsInv, StageInv
<1>6. CASE UNCHANGED vars
  BY <1>6 DEF vars, storeVars, openVars, SentInv, WireInv, ArgsInv, StageInv,
              Finished, Stored, StoredBytes, GenuineSealed, GenuineSigs
<1>. QED  BY <1>1, <1>2, <1>3, <1>4, <1>5, <1>6 DEF Next

(* The inductive invariant is one: every stored part was made by encrypt   *)
(* or is damaged, and decrypt has passed the stages before it              *)
(* (shield.py:405-503).                                                    *)
THEOREM Invariance == Spec => []IInv
<1>1. Init => IInv
  BY InitInv
<1>2. IInv /\ [Next]_vars => IInv'
  BY StepInv
<1>. QED  BY <1>1, <1>2, PTL DEF Spec

-----------------------------------------------------------------------------
(* What the stages have established.                                       *)

(* A stage of n checks that is passed has passed each of them.             *)
LEMMA EachPassed ==
  ASSUME NEW n \in Nat, NEW checks, Len(checks) = n, Passed(checks)
  PROVE  \A i \in 1..n : checks[i] = "none"
<1>1. Len(checks) \in Nat /\ FirstFailure(checks) = "none"
  BY DEF Passed
<1>2. \A i \in 1..Len(checks) : checks[i] = "none"
  BY <1>1, NoFailure
<1>. QED  BY <1>2

(* An envelope that passes the framing checks has not been cut.            *)
LEMMA ParsePassed ==
  ASSUME NEW e, e.tail \in Tails, Passed(ParseChecks(e))
  PROVE  e.tail = "whole"
<1>1. Len(ParseChecks(e)) = 6
  BY DEF ParseChecks
<1>2. \A i \in 1..6 : ParseChecks(e)[i] = "none"
  BY <1>1, EachPassed
<1>3. /\ ParseChecks(e)[4] = "none" /\ ParseChecks(e)[5] = "none"
      /\ ParseChecks(e)[6] = "none"
  BY <1>2
<1>. QED  BY <1>3 DEF ParseChecks, Check, Tails

(* A bundle that passes is private and the one that the header names.      *)
LEMMA KeyPassed ==
  ASSUME NEW e, NEW a, Passed(KeyChecks(e, a))
  PROVE  a.rcpt.role = "kem_priv" /\ a.rcpt.who = e.hdr.kid
<1>1. Len(KeyChecks(e, a)) = 3
  BY DEF KeyChecks
<1>2. \A i \in 1..3 : KeyChecks(e, a)[i] = "none"
  BY <1>1, EachPassed
<1>3. KeyChecks(e, a)[1] = "none" /\ KeyChecks(e, a)[3] = "none"
  BY <1>2
<1>. QED  BY <1>3 DEF KeyChecks, Check

(* What the sender checks establish once they are passed.                  *)
LEMMA SenderPassed ==
  ASSUME NEW e, NEW a, Passed(SenderChecks(e, a))
  PROVE  LET b == e.hdr.block IN
         /\ Authenticated(e) =>
              /\ b.pub.role = "sig_pub"
              /\ b.kid = b.pub.who
              /\ b.sig = Signature(b.pub.who, <<HandshakeOf(e.hdr), b.pub.who>>)
              /\ a.expected # NoBundle => /\ a.expected.role = "sig_pub"
                                          /\ a.expected.who = b.pub.who
         /\ ~Authenticated(e) => a.expected = NoBundle
<1>1. CASE Authenticated(e)
  <2>. DEFINE checks == BlockChecks(e.hdr, a.expected)
  <2>1. Len(checks) = 6 /\ Passed(checks)
    BY <1>1 DEF BlockChecks, SenderChecks
  <2>2. \A i \in 1..6 : checks[i] = "none"
    <3>. HIDE DEF checks
    <3>. QED  BY <2>1, EachPassed
  <2>3. /\ checks[2] = "none" /\ checks[3] = "none" /\ checks[4] = "none"
        /\ checks[5] = "none" /\ checks[6] = "none"
    <3>. HIDE DEF checks
    <3>. QED  BY <2>2
  <2>. QED  BY <1>1, <2>3 DEF BlockChecks, Check
<1>2. CASE ~Authenticated(e)
  <2>. DEFINE checks == << Check("anonymous", a.expected = NoBundle) >>
  <2>1. Len(checks) = 1 /\ Passed(checks)
    BY <1>2 DEF SenderChecks
  <2>2. \A i \in 1..1 : checks[i] = "none"
    <3>. HIDE DEF checks
    <3>. QED  BY <2>1, EachPassed
  <2>. QED  BY <1>2, <2>2 DEF Check
<1>. QED  BY <1>1, <1>2

(* What the policy checks establish once they are passed.                  *)
LEMMA PolicyPassed ==
  ASSUME NEW e, NEW a, Passed(PolicyChecks(e, a))
  PROVE  /\ a.policy = "unset" => a.ppk = Empty
         /\ a.policy # "unknown"
         /\ a.policy = "required" => a.ppk # Empty /\ Bound(e)
         /\ a.policy = "forbidden" => ~Bound(e)
         /\ Bound(e) => a.ppk # Empty
<1>1. Len(PolicyChecks(e, a)) = 6
  BY DEF PolicyChecks
<1>2. \A i \in 1..6 : PolicyChecks(e, a)[i] = "none"
  BY <1>1, EachPassed
<1>3. /\ PolicyChecks(e, a)[1] = "none" /\ PolicyChecks(e, a)[2] = "none"
      /\ PolicyChecks(e, a)[3] = "none" /\ PolicyChecks(e, a)[4] = "none"
      /\ PolicyChecks(e, a)[5] = "none" /\ PolicyChecks(e, a)[6] = "none"
  BY <1>2
<1>. QED  BY <1>3 DEF PolicyChecks, Check

-----------------------------------------------------------------------------
(* What AES-GCM opens was sealed under this header, and so is unchanged.   *)
LEMMA OpenedUnchanged ==
  ASSUME SentInv, NEW e, NEW a, StoredBytes(e), e.tail = "whole", Opens(e, a)
  PROVE  \E c \in Finished : \E n \in Nonces :
           /\ e = sent[c].env
           /\ sent[c].env = Envelope(c, sent[c].given, n)
<1>1. e.sealed # Bad /\ e.sealed.aad = e.hdr
  BY DEF Opens, AeadOpens
<1>2. PICK c \in Finished : e.sealed = sent[c].env.sealed
  BY <1>1 DEF StoredBytes, GenuineSealed
<1>3. PICK n \in Nonces : sent[c].env = Envelope(c, sent[c].given, n)
  BY DEF SentInv
<1>. DEFINE s == Envelope(c, sent[c].given, n)
<1>4. s.sealed.aad = s.hdr
  BY DEF Envelope, AeadSeal
<1>5. /\ s = [hdr |-> s.hdr, tail |-> s.tail, sealed |-> s.sealed]
      /\ s.tail = "whole"
  BY EnvelopeShape
<1>6. e = [hdr |-> e.hdr, tail |-> e.tail, sealed |-> e.sealed]
  BY DEF StoredBytes
<1>7. e = s
  <2>. HIDE DEF s
  <2>. QED  BY <1>1, <1>2, <1>3, <1>4, <1>5, <1>6 DEF s
<1>. QED  BY <1>3, <1>7

(* The header fields of an envelope, from what encrypt was given.          *)
LEMMA EnvelopeFields ==
  ASSUME NEW c, NEW g \in Given, NEW n
  PROVE  LET e == Envelope(c, g, n) IN
         /\ e.hdr.kid = g.to /\ e.hdr.suite = SuiteOf[g.to] /\ e.hdr.nonce = n
         /\ e.hdr.moved = {}
         /\ e.hdr.magic = MAGIC /\ e.hdr.version = VERSION
         /\ Authenticated(e) <=> g.from.priv # NoBundle
         /\ Bound(e) <=> g.ppk # Empty
         /\ HandshakeOf(e.hdr) = HandshakeOf(BareHeader(c, g, n))
         /\ e.sealed = AeadSeal(EnvelopeKey(e.hdr, g.to, g.ppk, SenderKid(g)),
                                n, e.hdr, g.msg)
<1>. DEFINE h == EnvelopeHeader(c, g, n)
<1>1. /\ h.kid = g.to /\ h.suite = SuiteOf[g.to] /\ h.nonce = n /\ h.moved = {}
      /\ h.magic = MAGIC /\ h.version = VERSION
      /\ h.flags = FlagsOf(g)
      /\ HandshakeOf(h) = HandshakeOf(BareHeader(c, g, n))
  BY DEF EnvelopeHeader, BareHeader, HandshakeOf
<1>2. /\ "authenticated" \in FlagsOf(g) <=> g.from.priv # NoBundle
      /\ "ppk" \in FlagsOf(g) <=> g.ppk # Empty
  BY DEF FlagsOf, FlagBits
<1>3. /\ Envelope(c, g, n).hdr = h
      /\ Envelope(c, g, n).sealed
           = AeadSeal(EnvelopeKey(h, g.to, g.ppk, SenderKid(g)), n, h, g.msg)
  BY DEF Envelope
<1>. HIDE DEF h
<1>. QED  BY <1>1, <1>2, <1>3 DEF Authenticated, Bound

(* A sender's bundle is none, or that of one of the senders.               *)
LEMMA SenderBundle ==
  ASSUME NEW g \in Given, SealAccepts("kem_pub", g), g.from.priv # NoBundle
  PROVE  /\ g.from.priv.who \in Senders
         /\ g.from.pub \in SigBundles
<1>1. g.from \in [priv : SigBundles \union {NoBundle},
                 pub : SigBundles \union {NoBundle}]
  BY EnvelopeAssumption DEF Given
<1>2. g.from.priv \in SigBundles /\ g.from.pub \in SigBundles
  BY <1>1 DEF SealAccepts
<1>. QED  BY <1>2 DEF SigBundles

-----------------------------------------------------------------------------
(* Types.                                                                  *)

BlocksOK == \A c \in Stored : BlockOK(wire[c].hdr.block)

(* encrypt makes a sender block of the sender's own key-id, or none.       *)
LEMMA EncryptBlocks ==
  ASSUME BlocksOK, Encrypt
  PROVE  BlocksOK'
<1>1. PICK c \in Calls \ Finished, g \in Given, role \in Roles, n \in Nonces :
        /\ SealAccepts(role, g)
        /\ wire' = With(wire, c, Envelope(c, g, n))
  BY DEF Encrypt
<1>. SUFFICES ASSUME NEW d \in Stored' PROVE BlockOK(wire'[d].hdr.block)
  BY DEF BlocksOK
<1>2. CASE d = c
  <2>. DEFINE h == BareHeader(c, g, n)
  <2>1. wire'[c] = Envelope(c, g, n)
    BY <1>1 DEF With
  <2>2. BlockOK(SenderBlock(g, h))
    <3>1. CASE g.from.priv = NoBundle
      BY <3>1 DEF SenderBlock, BlockOK
    <3>2. CASE g.from.priv # NoBundle
      <4>1. SealAccepts("kem_pub", g)
        BY <1>1 DEF SealAccepts
      <4>2. g.from.priv.who \in Senders /\ g.from.pub \in SigBundles
        BY <3>2, <4>1, SenderBundle
      <4>3. \E s : SenderBlock(g, h) = Block(g.from.priv.who, g.from.pub, s)
        BY <3>2 DEF SenderBlock
      <4>. QED  BY <4>2, <4>3 DEF Block, BlockOK
    <3>. QED  BY <3>1, <3>2
  <2>3. Envelope(c, g, n).hdr.block = SenderBlock(g, h)
    BY EnvelopeShape
  <2>. QED  BY <1>2, <2>1, <2>2, <2>3
<1>3. CASE d # c
  BY <1>1, <1>3 DEF With, Stored, BlocksOK
<1>. QED  BY <1>2, <1>3

(* A fault whose block is one of those that may be stored leaves only such.*)
LEMMA FaultBlocks ==
  ASSUME BlocksOK, NEW c \in Stored, NEW hdr, NEW tail, NEW sealed,
         BlockOK(hdr.block), Fault(c, hdr, tail, sealed)
  PROVE  BlocksOK'
<1>1. wire' = [wire EXCEPT ![c] = [hdr |-> hdr, tail |-> tail, sealed |-> sealed]]
  BY DEF Fault
<1>. SUFFICES ASSUME NEW d \in Stored PROVE BlockOK(wire'[d].hdr.block)
  BY <1>1 DEF BlocksOK, Stored
<1>2. CASE d = c
  <2>1. wire'[d].hdr = hdr
    BY <1>1, <1>2 DEF Stored
  <2>. QED  BY <2>1
<1>3. CASE d # c
  <2>1. wire'[d] = wire[d]
    BY <1>1, <1>3 DEF Stored
  <2>. QED  BY <2>1 DEF BlocksOK
<1>. QED  BY <1>2, <1>3

(* What damage makes of a signed block is a block that may be stored.      *)
LEMMA DamagedBlockOK ==
  ASSUME NEW b, BlockOK(b), b # NoBlock,
         NEW d, d \in { [b EXCEPT !.kid = Bad], [b EXCEPT !.pub = BadBundle],
                        [b EXCEPT !.sig = BadSignature], [b EXCEPT !.framed = FALSE] }
  PROVE  BlockOK(d)
<1>1. /\ b.kid \in Senders \union {Bad}
      /\ b.pub \in SigBundles \union {BadBundle}
      /\ b.framed \in BOOLEAN
  BY DEF BlockOK
<1>2. DOMAIN b = {"kid", "pub", "sig", "framed"}
  BY DEF BlockOK
<1>3. d = [kid |-> d.kid, pub |-> d.pub, sig |-> d.sig, framed |-> d.framed]
  BY <1>2
<1>4. /\ d.kid \in {b.kid, Bad} /\ d.pub \in {b.pub, BadBundle}
      /\ d.framed \in {b.framed, FALSE}
  BY <1>2
<1>. QED  BY <1>1, <1>3, <1>4 DEF BlockOK

(* Every fault leaves sender blocks that may be stored.                    *)
LEMMA StorageBlocks ==
  ASSUME WireInv, BlocksOK, StorageFault
  PROVE  BlocksOK'
<1>1. \A c \in Stored : BlockOK(wire[c].hdr.block) /\ "block" \in DOMAIN wire[c].hdr
  BY DEF BlocksOK, WireInv, StoredBytes
<1>2. PICK c \in Stored :
        \E hdr, tail, sealed : BlockOK(hdr.block) /\ Fault(c, hdr, tail, sealed)
  <2>1. CASE DamageField
    BY <1>1, <2>1 DEF DamageField, HeaderFault
  <2>2. CASE FlipFlag
    BY <1>1, <2>2 DEF FlipFlag, HeaderFault
  <2>3. CASE CrossField
    <3>1. PICK c \in Stored, d \in Stored : \E f \in DOMAIN wire[c].hdr :
            HeaderFault(c, [wire[c].hdr EXCEPT ![f] = wire[d].hdr[f]])
      BY <2>3 DEF CrossField
    <3>2. PICK f \in DOMAIN wire[c].hdr :
            HeaderFault(c, [wire[c].hdr EXCEPT ![f] = wire[d].hdr[f]])
      BY <3>1
    <3>3. BlockOK([wire[c].hdr EXCEPT ![f] = wire[d].hdr[f]].block)
      <4>1. CASE f = "block"
        BY <1>1, <4>1
      <4>2. CASE f # "block"
        BY <1>1, <4>2
      <4>. QED  BY <4>1, <4>2
    <3>. QED  BY <3>2, <3>3 DEF HeaderFault
  <2>4. CASE DamageBlock
    <3>1. PICK c \in Stored : \E d : /\ BlockOK(d) /\ BlockFault(c, d)
      BY <1>1, <2>4, DamagedBlockOK DEF DamageBlock
    <3>2. PICK d : BlockOK(d) /\ BlockFault(c, d)
      BY <3>1
    <3>3. [wire[c].hdr EXCEPT !.block = d].block = d
      BY <1>1
    <3>. QED  BY <3>2, <3>3 DEF BlockFault, HeaderFault
  <2>5. CASE DamageSealed
    BY <1>1, <2>5 DEF DamageSealed, SealedFault
  <2>6. CASE CrossSealed
    BY <1>1, <2>6 DEF CrossSealed, SealedFault
  <2>7. CASE Cut
    BY <1>1, <2>7 DEF Cut
  <2>8. CASE Recut
    BY <1>1, <2>8 DEF Recut, HeaderFault
  <2>. QED  BY <2>1, <2>2, <2>3, <2>4, <2>5, <2>6, <2>7, <2>8 DEF StorageFault
<1>. QED  BY <1>2, FaultBlocks

(* What decrypt returns is a message.                                      *)
LEMMA OpenedMessage ==
  ASSUME SentInv, NEW e, NEW a, StoredBytes(e), Opens(e, a)
  PROVE  e.sealed.plaintext \in Messages
<1>1. PICK c \in Finished : e.sealed = sent[c].env.sealed
  BY DEF Opens, AeadOpens, StoredBytes, GenuineSealed
<1>2. PICK n \in Nonces : sent[c].env = Envelope(c, sent[c].given, n)
  BY DEF SentInv
<1>3. sent[c].env.sealed.plaintext = sent[c].given.msg
  BY <1>2 DEF Envelope, AeadSeal
<1>. QED  BY <1>1, <1>3 DEF SentInv, Given

(* The types hold initially.                                               *)
LEMMA InitTypeOK == Init => TypeOK
<1>. SUFFICES ASSUME Init PROVE TypeOK
  OBVIOUS
<1>1. Finished = {} /\ Stored = {}
  BY DEF Init, Finished, Stored
<1>2. faults = 0 /\ opc = "idle" /\ out = None /\ used = FALSE
  BY DEF Init
<1>3. faults \in 0..MaxFaults
  BY <1>2, EnvelopeAssumption
<1>. QED  BY <1>1, <1>2, <1>3 DEF TypeOK

(* encrypt adds to the calls that have returned and to the stored copies.  *)
LEMMA EncryptTypeOK == TypeOK /\ IInv /\ Encrypt => TypeOK'
<1>. SUFFICES ASSUME TypeOK, IInv, Encrypt PROVE TypeOK'
  OBVIOUS
<1>1. SentInv' /\ WireInv'
  BY EncryptSent, EncryptWire DEF IInv
<1>2. BlocksOK'
  BY EncryptBlocks DEF BlocksOK, TypeOK
<1>3. Stored' = Finished'
  <2>1. PICK c \in Calls \ Finished, g \in Given, role \in Roles, n \in Nonces :
          /\ sent' = With(sent, c, [given |-> g, env |-> Envelope(c, g, n)])
          /\ wire' = With(wire, c, Envelope(c, g, n))
    BY DEF Encrypt
  <2>2. Finished' = Finished \union {c} /\ Stored' = Stored \union {c}
    BY <2>1 DEF Finished, Stored, With
  <2>. QED  BY <2>2 DEF TypeOK
<1>4. UNCHANGED <<faults, opc, args, out, used>>
  BY DEF Encrypt, openVars
<1>. QED  BY <1>1, <1>2, <1>3, <1>4 DEF TypeOK, BlocksOK, SentInv, WireInv, StoredBytes

(* Storage changes copies, and no more often than MaxFaults.               *)
LEMMA FaultTypeOK == TypeOK /\ IInv /\ StorageFault => TypeOK'
<1>. SUFFICES ASSUME TypeOK, IInv, StorageFault PROVE TypeOK'
  OBVIOUS
<1>1. WireInv' /\ BlocksOK'
  BY StorageFaultWire, StorageBlocks DEF IInv, TypeOK, BlocksOK
<1>2. /\ faults < MaxFaults /\ faults' = faults + 1
      /\ UNCHANGED <<sent, opc, args, out, used>>
  BY DEF StorageFault, DamageField, FlipFlag, CrossField, Recut, DamageBlock, DamageSealed,
         CrossSealed, Cut, BlockFault, HeaderFault, SealedFault, Fault, openVars
<1>3. Stored' = Stored
  BY DEF StorageFault, DamageField, FlipFlag, CrossField, Recut, DamageBlock, DamageSealed,
         CrossSealed, Cut, BlockFault, HeaderFault, SealedFault, Fault, Stored
<1>4. faults' \in 0..MaxFaults
  BY <1>2, EnvelopeAssumption DEF TypeOK
<1>. QED  BY <1>1, <1>2, <1>3, <1>4 DEF TypeOK, BlocksOK, WireInv, StoredBytes, Finished

(* decrypt goes from stage to stage and returns a message or nothing.      *)
LEMMA StepTypeOK == TypeOK /\ IInv /\ DecryptStep => TypeOK'
<1>. SUFFICES ASSUME TypeOK, IInv, DecryptStep PROVE TypeOK'
  OBVIOUS
<1>1. UNCHANGED <<sent, wire, faults, args>> /\ opc # "idle"
  BY DEF DecryptStep, DecryptParse, DecryptKey, DecryptSender, DecryptPolicy, Stage,
         DecryptOpen, storeVars
<1>2. opc' \in {"key", "sender", "policy", "open", "done", "failed"} /\ used' \in BOOLEAN
  BY DEF DecryptStep, DecryptParse, DecryptKey, DecryptSender, DecryptPolicy, Stage,
         DecryptOpen, TypeOK
<1>3. out' \in Messages \union {None}
  <2>1. CASE DecryptOpen /\ Opens(env, args)
    <3>1. StoredBytes(env) /\ SentInv
      BY <2>1 DEF IInv, ArgsInv, DecryptOpen
    <3>2. out' = env.sealed.plaintext
      BY <2>1 DEF DecryptOpen
    <3>. QED  BY <2>1, <3>1, <3>2, OpenedMessage
  <2>2. CASE ~(DecryptOpen /\ Opens(env, args))
    <3>1. out' = out
      BY <2>2 DEF DecryptStep, DecryptParse, DecryptKey, DecryptSender, DecryptPolicy,
                  Stage, DecryptOpen
    <3>. QED  BY <3>1 DEF TypeOK
  <2>. QED  BY <2>1, <2>2
<1>. QED  BY <1>1, <1>2, <1>3 DEF TypeOK, Finished, Stored

(* Types and invariant are kept by every step.                             *)
LEMMA StepEnvelopeInv == EnvelopeInv /\ [Next]_vars => EnvelopeInv'
<1>. SUFFICES ASSUME TypeOK, IInv, [Next]_vars PROVE TypeOK' /\ IInv'
  BY DEF EnvelopeInv
<1>1. IInv'
  BY StepInv
<1>2. TypeOK'
  <2>1. CASE Encrypt
    BY <2>1, EncryptTypeOK
  <2>2. CASE StorageFault
    BY <2>2, FaultTypeOK
  <2>3. CASE DecryptCall
    <3>1. UNCHANGED <<sent, wire, faults, out, used>> /\ opc' = "parse" /\ args' \in Args
      BY <2>3 DEF DecryptCall, storeVars
    <3>. QED  BY <3>1 DEF TypeOK, Finished, Stored
  <2>4. CASE DecryptStep
    BY <2>4, StepTypeOK
  <2>5. CASE DecryptReturn
    <3>1. UNCHANGED <<sent, wire, faults>> /\ opc' = "idle" /\ out' = None /\ used' = FALSE
      BY <2>5 DEF DecryptReturn, storeVars
    <3>. QED  BY <3>1 DEF TypeOK, Finished, Stored
  <2>6. CASE UNCHANGED vars
    BY <2>6 DEF vars, storeVars, openVars, TypeOK, Finished, Stored
  <2>. QED  BY <2>1, <2>2, <2>3, <2>4, <2>5, <2>6 DEF Next
<1>. QED  BY <1>1, <1>2

(* The types and the invariant hold together throughout: what is stored    *)
(* was made by encrypt or is damaged, decrypt has passed the stages before *)
(* it, and what it returns is a message (shield.py:339-503).               *)
THEOREM TypedInvariance == Spec => []EnvelopeInv
<1>1. Init => EnvelopeInv
  BY InitTypeOK, InitInv DEF EnvelopeInv
<1>. QED  BY <1>1, StepEnvelopeInv, PTL DEF Spec

-----------------------------------------------------------------------------
(* What the stages have passed, in the words of the callers.               *)

(* A sender block that passes its checks is the signer's own.              *)
LEMMA PassedSender ==
  ASSUME NEW g \in Given, NEW a \in Args, NEW c, NEW n,
         SealAccepts("kem_pub", g),
         Passed(SenderChecks(Envelope(c, g, n), a))
  PROVE  SenderAccepted(g, a)
<1>. DEFINE e == Envelope(c, g, n)
            b == e.hdr.block
            who == g.from.priv.who
            h == BareHeader(c, g, n)
<1>1. /\ Authenticated(e) <=> g.from.priv # NoBundle
      /\ b = SenderBlock(g, h)
  BY EnvelopeFields, EnvelopeShape
<1>2. CASE g.from.priv = NoBundle
  <2>1. a.expected = NoBundle
    <3>1. ~Authenticated(e) => a.expected = NoBundle
      BY SenderPassed
    <3>2. ~Authenticated(e)
      BY <1>1, <1>2
    <3>. QED  BY <3>1, <3>2
  <2>. QED  BY <1>2, <2>1 DEF SenderAccepted
<1>3. CASE g.from.priv # NoBundle
  <2>1. /\ b.pub.role = "sig_pub" /\ b.kid = b.pub.who
        /\ b.sig = Signature(b.pub.who, <<HandshakeOf(e.hdr), b.pub.who>>)
        /\ a.expected # NoBundle => /\ a.expected.role = "sig_pub"
                                    /\ a.expected.who = b.pub.who
    BY <1>1, <1>3, SenderPassed
  <2>2. /\ b.kid = who /\ b.pub = g.from.pub
        /\ ~SameAlgorithm(SigSuiteOf[who], h.suite) => b.sig = BadSignature
    <3>. HIDE DEF e, h
    <3>. QED  BY <1>1, <1>3 DEF SenderBlock, Block
  <2>3. who \in Senders /\ g.from.pub \in SigBundles
    BY <1>3, SenderBundle
  <2>4. g.from.pub = [who |-> who, role |-> "sig_pub"]
    <3>1. g.from.pub.who = who /\ g.from.pub.role = "sig_pub"
      <4>. HIDE DEF e, h, who
      <4>. QED  BY <2>1, <2>2
    <3>. QED  BY <3>1, <2>3 DEF SigBundles
  <2>5. SameAlgorithm(SigSuiteOf[who], SuiteOf[g.to])
    <3>1. h.suite = SuiteOf[g.to]
      BY DEF BareHeader
    <3>2. b.sig.by = who
      <4>. HIDE DEF e, h, who
      <4>. QED  BY <2>1, <2>2 DEF Signature
    <3>3. b.sig # BadSignature
      <4>1. BadSignature.by = Bad /\ Bad # who
        BY <2>3, EnvelopeAssumption DEF BadSignature, Signature
      <4>. HIDE DEF e, h, who
      <4>. QED  BY <3>2, <4>1
    <3>. QED  BY <3>1, <3>3, <2>2
  <2>6. a.expected \in {NoBundle, g.from.pub}
    <3>1. a.expected \in SigBundles \union {NoBundle}
      BY EnvelopeAssumption DEF Args
    <3>2. a.expected # NoBundle => /\ a.expected.role = "sig_pub"
                                   /\ a.expected.who = who
      <4>. HIDE DEF e, h, who
      <4>. QED  BY <2>1, <2>2
    <3>. QED  BY <3>1, <3>2, <2>4 DEF SigBundles
  <2>. QED  BY <1>3, <2>4, <2>5, <2>6 DEF SenderAccepted
<1>. QED  BY <1>2, <1>3

(* An envelope that passes the policy and opens meets it: the key it was   *)
(* sealed with is the caller's.                                            *)
LEMMA PassedPolicy ==
  ASSUME NEW g \in Given, NEW a \in Args, NEW c, NEW n,
         Passed(PolicyChecks(Envelope(c, g, n), a)),
         Opens(Envelope(c, g, n), a)
  PROVE  PpkAccepted(g, a)
<1>. DEFINE e == Envelope(c, g, n)
<1>1. e.sealed.key = EnvelopeKey(e.hdr, a.rcpt.who, EffectivePpk(e, a), VerifiedKid(e))
  BY DEF Opens, AeadOpens
<1>2. e.sealed.key = EnvelopeKey(e.hdr, g.to, g.ppk, SenderKid(g))
  <2>1. e.sealed = AeadSeal(EnvelopeKey(e.hdr, g.to, g.ppk, SenderKid(g)),
                            n, e.hdr, g.msg)
    BY EnvelopeFields
  <2>. HIDE DEF e
  <2>. QED  BY <2>1 DEF AeadSeal
<1>3. EffectivePpk(e, a) = g.ppk
  <2>. HIDE DEF e
  <2>. QED  BY <1>1, <1>2 DEF EnvelopeKey, DeriveKey
<1>4. Bound(e) <=> g.ppk # Empty
  BY EnvelopeFields
<1>5. a.policy \in {"unset", "required", "optional", "forbidden", "unknown"}
  BY EnvelopeAssumption DEF Args
<1>6. /\ a.policy = "unset" => a.ppk = Empty
      /\ a.policy # "unknown"
      /\ a.policy = "required" => a.ppk # Empty /\ Bound(e)
      /\ a.policy = "forbidden" => ~Bound(e)
      /\ Bound(e) => a.ppk # Empty
  BY PolicyPassed
<1>. HIDE DEF e
<1>. QED  BY <1>3, <1>4, <1>5, <1>6 DEF EffectivePpk, PpkAccepted

(* In every state of IInv, what is returned is an acceptable message.      *)
LEMMA OpensAcceptable == IInv => OpensOnlyAcceptable
<1>. SUFFICES ASSUME IInv, opc = "done"
              PROVE \E c \in Finished : /\ env = sent[c].env
                                        /\ out = sent[c].given.msg
                                        /\ Acceptable(sent[c].given, args)
  BY DEF OpensOnlyAcceptable
<1>1. /\ Passed(ParseChecks(env)) /\ Passed(KeyChecks(env, args))
      /\ Passed(SenderChecks(env, args)) /\ Passed(PolicyChecks(env, args))
      /\ Opens(env, args) /\ out = env.sealed.plaintext
  BY DEF IInv, StageInv
<1>2. args \in Args /\ StoredBytes(env)
  BY DEF IInv, ArgsInv
<1>3. env.tail = "whole"
  BY <1>1, <1>2, ParsePassed DEF StoredBytes
<1>4. PICK c \in Finished : \E n \in Nonces :
        /\ env = sent[c].env
        /\ sent[c].env = Envelope(c, sent[c].given, n)
  BY <1>1, <1>2, <1>3, OpenedUnchanged DEF IInv
<1>5. PICK n \in Nonces : env = Envelope(c, sent[c].given, n)
  BY <1>4
<1>. DEFINE g == sent[c].given
<1>6. g \in Given /\ SealAccepts("kem_pub", g)
  BY DEF IInv, SentInv
<1>. HIDE DEF g
<1>7. out = g.msg
  <2>. DEFINE e == Envelope(c, g, n)
  <2>1. e.sealed = AeadSeal(EnvelopeKey(e.hdr, g.to, g.ppk, SenderKid(g)),
                            n, e.hdr, g.msg)
    BY <1>6, EnvelopeFields
  <2>2. env = e
    BY <1>5 DEF g
  <2>. HIDE DEF e
  <2>. QED  BY <1>1, <2>1, <2>2 DEF AeadSeal
<1>8. ForThisKey(g, args)
  <2>1. args.rcpt.role = "kem_priv" /\ args.rcpt.who = g.to
    BY <1>1, <1>5, <1>6, KeyPassed, EnvelopeFields DEF g
  <2>. QED  BY <1>2, <2>1 DEF Args, ForThisKey
<1>9. SenderAccepted(g, args)
  BY <1>1, <1>2, <1>5, <1>6, PassedSender DEF g
<1>10. PpkAccepted(g, args)
  BY <1>1, <1>2, <1>5, <1>6, PassedPolicy DEF g
<1>. QED  BY <1>4, <1>7, <1>8, <1>9, <1>10 DEF Acceptable, g

(* Whatever storage did, decrypt returns only the whole message of one     *)
(* encrypt call, to arguments that accept it (shield.py:437-503).          *)
THEOREM OpenedIsAcceptable == Spec => []OpensOnlyAcceptable
BY Invariance, OpensAcceptable, PTL

-----------------------------------------------------------------------------
(* A signature in the store that is not damaged was made by encrypt, over  *)
(* the handshake of the envelope it returned.                              *)
LEMMA GenuineSigner ==
  ASSUME SentInv, NEW who \in Senders, NEW message,
         Signature(who, message) \in GenuineSigs
  PROVE  \E c \in Finished :
           /\ sent[c].given.from.priv.who = who
           /\ message = <<HandshakeOf(sent[c].env.hdr), who>>
<1>. DEFINE sig == Signature(who, message)
<1>1. sig.by = who /\ sig.message = message
  BY DEF Signature
<1>2. BadSignature.by = Bad /\ Bad # who
  BY EnvelopeAssumption DEF BadSignature, Signature
<1>3. sig # BadSignature
  <2>. HIDE DEF sig
  <2>. QED  BY <1>1, <1>2
<1>4. PICK c \in Finished : sig = sent[c].env.hdr.block.sig
  BY <1>3 DEF GenuineSigs
<1>5. PICK n \in Nonces : sent[c].env = Envelope(c, sent[c].given, n)
  BY DEF SentInv
<1>. DEFINE g == sent[c].given
            h == BareHeader(c, g, n)
            signer == g.from.priv.who
<1>6. /\ sent[c].env.hdr.block = SenderBlock(g, h)
      /\ HandshakeOf(sent[c].env.hdr) = HandshakeOf(h)
  <2>1. g \in Given
    BY DEF SentInv
  <2>. HIDE DEF g, h
  <2>2. /\ Envelope(c, g, n).hdr.block = SenderBlock(g, BareHeader(c, g, n))
        /\ HandshakeOf(Envelope(c, g, n).hdr) = HandshakeOf(BareHeader(c, g, n))
    BY <2>1, EnvelopeShape, EnvelopeFields
  <2>. QED  BY <1>5, <2>2 DEF g, h
<1>. HIDE DEF sig, g, h
<1>7. sig = Signature(signer, <<HandshakeOf(h), signer>>)
  <2>1. SenderBlock(g, h).sig
          \in {BadSignature, Signature(signer, <<HandshakeOf(h), signer>>)}
    BY DEF SenderBlock, NoBlock, Block
  <2>. QED  BY <1>3, <1>4, <1>6, <2>1
<1>8. sig.by = signer /\ sig.message = <<HandshakeOf(h), signer>>
  BY <1>7 DEF Signature
<1>. QED  BY <1>1, <1>6, <1>8 DEF g

(* In every state of IInv the private key serves only the sender.          *)
LEMMA SecretForSender == IInv => SecretOnlyForSender
<1>. SUFFICES ASSUME IInv, used, args.expected # NoBundle
              PROVE \E c \in Finished :
                      /\ sent[c].given.from.priv.who = args.expected.who
                      /\ sent[c].given.to = args.rcpt.who
                      /\ HandshakeOf(sent[c].env.hdr) = HandshakeOf(env.hdr)
  BY DEF SecretOnlyForSender
<1>. DEFINE who == args.expected.who
            sig == env.hdr.block.sig
<1>1. Passed(SenderChecks(env, args)) /\ opc # "idle"
  BY DEF IInv, StageInv
<1>2. args \in Args /\ sig \in GenuineSigs
  BY <1>1 DEF IInv, ArgsInv, StoredBytes
<1>3. who \in Senders
  <2>1. args.expected \in SigBundles
    BY <1>2, EnvelopeAssumption DEF Args
  <2>. QED  BY <2>1 DEF SigBundles
<1>4. sig = Signature(who, <<HandshakeOf(env.hdr), who>>)
  BY <1>1, SenderPassed
<1>5. PICK c \in Finished :
        /\ sent[c].given.from.priv.who = who
        /\ <<HandshakeOf(env.hdr), who>> = <<HandshakeOf(sent[c].env.hdr), who>>
  <2>. HIDE DEF who
  <2>. QED  BY <1>2, <1>3, <1>4, GenuineSigner DEF IInv
<1>6. HandshakeOf(env.hdr) = HandshakeOf(sent[c].env.hdr)
  BY <1>5
<1>7. sent[c].given.to = args.rcpt.who
  <2>1. PICK n \in Nonces : sent[c].env = Envelope(c, sent[c].given, n)
    BY DEF IInv, SentInv
  <2>2. sent[c].env.hdr.kid = sent[c].given.to
    <3>1. sent[c].given \in Given
      BY DEF IInv, SentInv
    <3>2. Envelope(c, sent[c].given, n).hdr.kid = sent[c].given.to
      BY <3>1, EnvelopeFields
    <3>. QED  BY <2>1, <3>2
  <2>3. env.hdr.kid = args.rcpt.who
    BY KeyPassed DEF IInv, StageInv
  <2>4. env.hdr.kid = sent[c].env.hdr.kid
    BY <1>6 DEF HandshakeOf, PreAuth
  <2>. QED  BY <2>2, <2>3, <2>4
<1>. QED  BY <1>5, <1>6, <1>7

(* With an expected sender, the private key is used only when that sender  *)
(* has signed the handshake's row of bytes, for this recipient, wherever   *)
(* the lengths before them cut that row (shield.py:435-452, 497).          *)
THEOREM SecretUsedForSender == Spec => []SecretOnlyForSender
BY Invariance, SecretForSender, PTL

-----------------------------------------------------------------------------
(* A stage whose checks all pass is passed.                                *)
LEMMA AllPass ==
  ASSUME NEW checks, \A i \in 1..Len(checks) : checks[i] = "none"
  PROVE  Passed(checks)
BY DEF Passed, FirstFailure

(* A sender the arguments accept passes the sender checks.                 *)
LEMMA SenderPasses ==
  ASSUME NEW g \in Given, NEW a, NEW c, NEW n,
         SealAccepts("kem_pub", g), SenderAccepted(g, a)
  PROVE  Passed(SenderChecks(Envelope(c, g, n), a))
<1>. DEFINE e == Envelope(c, g, n)
            b == e.hdr.block
            who == g.from.priv.who
            h == BareHeader(c, g, n)
<1>1. /\ Authenticated(e) <=> g.from.priv # NoBundle
      /\ b = SenderBlock(g, h) /\ HandshakeOf(e.hdr) = HandshakeOf(h)
  BY EnvelopeFields, EnvelopeShape
<1>2. CASE g.from.priv = NoBundle
  <2>1. a.expected = NoBundle
    BY <1>2 DEF SenderAccepted
  <2>2. SenderChecks(e, a) = << Check("anonymous", a.expected = NoBundle) >>
    BY <1>1, <1>2 DEF SenderChecks
  <2>3. SenderChecks(e, a) = <<"none">>
    BY <2>1, <2>2 DEF Check
  <2>. QED  BY <2>3, AllPass
<1>3. CASE g.from.priv # NoBundle
  <2>1. /\ g.from.pub = [who |-> who, role |-> "sig_pub"]
        /\ SameAlgorithm(SigSuiteOf[who], SuiteOf[g.to])
        /\ a.expected \in {NoBundle, g.from.pub}
    BY <1>3 DEF SenderAccepted
  <2>2. h.suite = SuiteOf[g.to]
    BY DEF BareHeader
  <2>3. /\ b.kid = who /\ b.pub = g.from.pub /\ b.framed = TRUE
        /\ b.sig = Signature(who, <<HandshakeOf(h), who>>)
    <3>. HIDE DEF e, h
    <3>. QED  BY <1>1, <1>3, <2>1, <2>2 DEF SenderBlock, Block
  <2>4. b.pub.who = who /\ b.pub.role = "sig_pub"
    <3>1. g.from.pub.who = who /\ g.from.pub.role = "sig_pub"
      BY <2>1
    <3>. HIDE DEF e, h, who
    <3>. QED  BY <2>3, <3>1
  <2>5. BlockChecks(e.hdr, a.expected)
          = <<"none", "none", "none", "none", "none", "none">>
    <3>1. b.sig = Signature(b.pub.who, <<HandshakeOf(e.hdr), b.pub.who>>)
      <4>. HIDE DEF e, h, who
      <4>. QED  BY <1>1, <2>3, <2>4
    <3>2. a.expected # NoBundle => /\ a.expected.role = "sig_pub"
                                   /\ a.expected.who = b.pub.who
      <4>. HIDE DEF e, h, who
      <4>. QED  BY <2>1, <2>3, <2>4
    <3>. HIDE DEF e, h, who
    <3>. QED  BY <2>3, <2>4, <3>1, <3>2 DEF BlockChecks, Check
  <2>6. SenderChecks(e, a) = BlockChecks(e.hdr, a.expected)
    BY <1>1, <1>3 DEF SenderChecks
  <2>7. SenderChecks(e, a) = <<"none", "none", "none", "none", "none", "none">>
    <3>. HIDE DEF e
    <3>. QED  BY <2>5, <2>6
  <2>. QED  BY <2>7, AllPass
<1>. QED  BY <1>2, <1>3

(* Pre-shared keys that agree with the policy pass its checks.             *)
LEMMA PolicyPasses ==
  ASSUME NEW g \in Given, NEW a, NEW c, NEW n, PpkAccepted(g, a)
  PROVE  Passed(PolicyChecks(Envelope(c, g, n), a))
<1>. DEFINE e == Envelope(c, g, n)
<1>1. Bound(e) <=> g.ppk # Empty
  BY EnvelopeFields
<1>. HIDE DEF e
<1>2. /\ a.policy = "unset" => a.ppk = Empty
      /\ a.policy # "unknown"
      /\ a.policy = "required" => a.ppk # Empty /\ Bound(e)
      /\ a.policy = "forbidden" => ~Bound(e)
      /\ Bound(e) => a.ppk # Empty
  BY <1>1 DEF PpkAccepted
<1>3. PolicyChecks(e, a) = <<"none", "none", "none", "none", "none", "none">>
  BY <1>2 DEF PolicyChecks, Check
<1>4. Passed(PolicyChecks(e, a))
  BY <1>3, AllPass
<1>. QED  BY <1>4 DEF e

(* An untouched envelope passes framing and key checks of its reader.      *)
LEMMA HeaderPasses ==
  ASSUME NEW g \in Given, NEW a, NEW c, NEW n, ForThisKey(g, a)
  PROVE  /\ Passed(ParseChecks(Envelope(c, g, n)))
         /\ Passed(KeyChecks(Envelope(c, g, n), a))
<1>. DEFINE e == Envelope(c, g, n)
<1>1. /\ e.hdr.magic = MAGIC /\ e.hdr.version = VERSION /\ e.tail = "whole"
      /\ e.hdr.suite = SuiteOf[g.to] /\ e.hdr.kid = g.to
  BY EnvelopeFields, EnvelopeShape
<1>2. SuiteOf[g.to] \in SuiteIds
  BY SuiteOfAssumption DEF Given
<1>3. a.rcpt.who = g.to /\ a.rcpt.role = "kem_priv"
  BY DEF ForThisKey
<1>. HIDE DEF e
<1>4. /\ ParseChecks(e) = <<"none", "none", "none", "none", "none", "none">>
      /\ KeyChecks(e, a) = <<"none", "none", "none">>
  BY <1>1, <1>2, <1>3 DEF ParseChecks, KeyChecks, Check
<1>5. Passed(ParseChecks(e))
  BY <1>4, AllPass
<1>6. Passed(KeyChecks(e, a))
  BY <1>4, AllPass
<1>. QED  BY <1>5, <1>6 DEF e

(* The recipient derives the key that the sender sealed with.              *)
LEMMA AcceptableDecrypts ==
  ASSUME NEW c \in Calls, NEW g \in Given, NEW n \in Nonces, NEW a,
         Acceptable(g, a)
  PROVE  Opens(Envelope(c, g, n), a)
<1>. DEFINE e == Envelope(c, g, n)
            h == BareHeader(c, g, n)
<1>1. /\ Authenticated(e) <=> g.from.priv # NoBundle
      /\ Bound(e) <=> g.ppk # Empty
      /\ e.hdr.nonce = n /\ e.hdr.moved = {}
      /\ e.hdr.block = SenderBlock(g, h)
      /\ e.sealed = AeadSeal(EnvelopeKey(e.hdr, g.to, g.ppk, SenderKid(g)),
                             n, e.hdr, g.msg)
      /\ e.sealed # Bad
  BY EnvelopeFields, EnvelopeShape, ValueAssumption
<1>2. a.rcpt.who = g.to
  BY DEF Acceptable, ForThisKey
<1>. HIDE DEF e, h
<1>3. EffectivePpk(e, a) = g.ppk
  BY <1>1 DEF EffectivePpk, Acceptable, PpkAccepted
<1>4. VerifiedKid(e) = SenderKid(g)
  <2>1. CASE g.from.priv = NoBundle
    BY <1>1, <2>1 DEF VerifiedKid, SenderKid
  <2>2. CASE g.from.priv # NoBundle
    <3>1. g.from.pub.who = g.from.priv.who
      BY <2>2 DEF Acceptable, SenderAccepted
    <3>2. e.hdr.block.pub = g.from.pub
      BY <1>1, <2>2 DEF SenderBlock, Block
    <3>. QED  BY <1>1, <2>2, <3>1, <3>2 DEF VerifiedKid, SenderKid
  <2>. QED  BY <2>1, <2>2
<1>5. Opens(e, a)
  BY <1>1, <1>2, <1>3, <1>4 DEF Opens, AeadOpens, AeadSeal, ReadField
<1>. QED  BY <1>5 DEF e

(* A refusal that the stages account for is never of an acceptable one.    *)
LEMMA AcceptableNotRefused == SentInv /\ StageInv => AcceptableOpens
<1>. SUFFICES ASSUME SentInv, StageInv, NEW c \in Finished, opc = "failed",
                     env = sent[c].env, Acceptable(sent[c].given, args)
              PROVE FALSE
  BY DEF AcceptableOpens
<1>. DEFINE g == sent[c].given
<1>1. c \in Calls /\ g \in Given /\ SealAccepts("kem_pub", g)
  BY DEF SentInv
<1>2. PICK n \in Nonces : env = Envelope(c, g, n)
  BY DEF SentInv
<1>3. Acceptable(g, args)
  OBVIOUS
<1>. HIDE DEF g
<1>4. Passed(ParseChecks(env)) /\ Passed(KeyChecks(env, args))
  BY <1>1, <1>2, <1>3, HeaderPasses DEF Acceptable
<1>5. Passed(SenderChecks(env, args)) /\ Passed(PolicyChecks(env, args))
  BY <1>1, <1>2, <1>3, SenderPasses, PolicyPasses DEF Acceptable
<1>6. Opens(env, args)
  BY <1>1, <1>2, <1>3, AcceptableDecrypts
<1>. QED  BY <1>4, <1>5, <1>6 DEF StageInv

(* An unchanged envelope opens for every caller who accepts it: no check   *)
(* of decrypt refuses what encrypt made (shield.py:405-503).               *)
THEOREM AcceptableIsOpened == Spec => []AcceptableOpens
<1>1. IInv => AcceptableOpens
  BY AcceptableNotRefused DEF IInv
<1>. QED  BY <1>1, Invariance, PTL

-----------------------------------------------------------------------------
(* Refinement.  What EnvelopeTransfer sees of a state.                     *)
SentView == [c \in Calls |-> IF c \in Finished THEN sent[c].given ELSE None]

(* How each position of decrypt looks from outside.                        *)
LEMMA OutcomeOf ==
  /\ opc = "idle" => Outcome = Transfer!Result("idle", args, None)
  /\ opc = "done" => Outcome = Transfer!Result("delivered", args, env.hdr.ct)
  /\ opc = "failed" => Outcome = Transfer!Result("refused", args, None)
  /\ opc \in {"parse", "key", "sender", "policy", "open"} =>
       Outcome = Transfer!Result("pending", args, None)
BY DEF Outcome, Transfer!Result

(* Initially no envelope is sent and no call is open.                      *)
LEMMA InitRefines == Init => Transfer!Init
<1>. SUFFICES ASSUME Init PROVE Transfer!Init
  OBVIOUS
<1>1. Finished = {} /\ opc = "idle" /\ args = None
  BY DEF Init, Finished
<1>2. Outcome = Transfer!Result("idle", None, None)
  BY <1>1, OutcomeOf
<1>. QED  BY <1>1, <1>2 DEF Transfer!Init

(* encrypt is one Send.                                                    *)
LEMMA EncryptRefines == Encrypt => Transfer!Send
<1>. SUFFICES ASSUME Encrypt PROVE Transfer!Send
  OBVIOUS
<1>1. PICK c \in Calls \ Finished, g \in Given, role \in Roles, n \in Nonces :
        sent' = With(sent, c, [given |-> g, env |-> Envelope(c, g, n)])
  BY DEF Encrypt
<1>2. SentView[c] = None
  BY DEF SentView
<1>3. SentView' = [SentView EXCEPT ![c] = g]
  BY <1>1 DEF SentView, With, Finished
<1>4. Outcome' = Outcome
  BY DEF Encrypt, openVars, Outcome
<1>. QED  BY <1>1, <1>2, <1>3, <1>4 DEF SentView, Transfer!Send

(* The call of decrypt is Begin.                                           *)
LEMMA CallRefines == DecryptCall => Transfer!Begin
<1>. SUFFICES ASSUME DecryptCall PROVE Transfer!Begin
  OBVIOUS
<1>1. opc = "idle" /\ opc' = "parse" /\ args' \in Args /\ sent' = sent
  BY DEF DecryptCall
<1>2. Outcome.phase = "idle"
  BY <1>1 DEF Outcome
<1>3. Outcome' = Transfer!Result("pending", args', None)
  BY <1>1 DEF Outcome, Transfer!Result
<1>4. SentView' = SentView
  BY <1>1 DEF SentView, Finished
<1>. QED  BY <1>1, <1>2, <1>3, <1>4 DEF SentView, Transfer!Begin

(* Its end is Return.                                                      *)
LEMMA ReturnRefines == DecryptReturn => Transfer!Return
<1>. SUFFICES ASSUME DecryptReturn PROVE Transfer!Return
  OBVIOUS
<1>1. opc \in {"done", "failed"} /\ opc' = "idle" /\ args' = None /\ sent' = sent
  BY DEF DecryptReturn
<1>2. Outcome.phase \in {"delivered", "refused"}
  BY <1>1 DEF Outcome
<1>3. Outcome' = Transfer!Result("idle", None, None)
  BY <1>1 DEF Outcome, Transfer!Result
<1>4. SentView' = SentView
  BY <1>1 DEF SentView, Finished
<1>. QED  BY <1>2, <1>3, <1>4 DEF SentView, Transfer!Return

(* A stage or the opening: nothing to see yet, a refusal, or a delivery.   *)
LEMMA StepRefines ==
  ASSUME IInv', OpensOnlyAcceptable', DecryptStep
  PROVE  \/ SentView' = SentView /\ Outcome' = Outcome
         \/ Transfer!Refuse
         \/ Transfer!Deliver
<1>1. /\ sent' = sent /\ env' = env /\ args' = args
      /\ opc \in {"parse", "key", "sender", "policy", "open"}
      /\ opc' \in {"key", "sender", "policy", "open", "failed", "done"}
  BY DEF DecryptStep, DecryptParse, DecryptKey, DecryptSender, DecryptPolicy,
         Stage, DecryptOpen, storeVars
<1>2. SentView' = SentView
  BY <1>1 DEF SentView, Finished
<1>3. Outcome = Transfer!Result("pending", args, None)
  BY <1>1, OutcomeOf
<1>4. CASE opc' \in {"key", "sender", "policy", "open"}
  <2>1. Outcome' = Transfer!Result("pending", args, None)
    BY <1>1, <1>4 DEF Outcome, Transfer!Result
  <2>. QED  BY <1>2, <1>3, <2>1
<1>5. CASE opc' = "failed"
  <2>1. Outcome' = Transfer!Result("refused", args, None)
    BY <1>1, <1>5 DEF Outcome, Transfer!Result
  <2>2. Outcome.phase = "pending" /\ Outcome.demands = args
    BY <1>3 DEF Transfer!Result
  <2>. QED  BY <1>2, <2>1, <2>2 DEF SentView, Transfer!Refuse
<1>6. CASE opc' = "done"
  <2>2. PICK c \in Finished : /\ env = sent[c].env
                              /\ Acceptable(sent[c].given, args)
    BY <1>1, <1>6 DEF OpensOnlyAcceptable, Finished
  <2>3. c \in Calls /\ env.hdr.ct = c /\ sent[c].given # None
    <3>1. /\ c \in Calls /\ sent[c].given \in Given
          /\ \E n \in Nonces : sent[c].env = Envelope(c, sent[c].given, n)
      BY <1>1, <2>2 DEF IInv, SentInv, Finished
    <3>2. \A n : Envelope(c, sent[c].given, n).hdr.ct = c
      BY DEF Envelope, EnvelopeHeader, BareHeader
    <3>. QED  BY <2>2, <3>1, <3>2, ValueAssumption
  <2>4. Outcome' = Transfer!Result("delivered", args, c)
    BY <1>1, <1>6, <2>3 DEF Outcome, Transfer!Result
  <2>5. Outcome.phase = "pending" /\ Outcome.demands = args
    BY <1>3 DEF Transfer!Result
  <2>6. SentView[c] = sent[c].given
    BY <2>2, <2>3 DEF SentView
  <2>. QED  BY <1>2, <2>2, <2>3, <2>4, <2>5, <2>6 DEF SentView, Transfer!Deliver
<1>. QED  BY <1>1, <1>4, <1>5, <1>6

(* Every step is one of the abstract ones or changes nothing there.        *)
LEMMA StepMaps ==
  IInv' /\ OpensOnlyAcceptable' /\ [Next]_vars =>
    Transfer!Next \/ (SentView' = SentView /\ Outcome' = Outcome)
<1>. SUFFICES ASSUME IInv', OpensOnlyAcceptable', [Next]_vars
              PROVE Transfer!Next \/ (SentView' = SentView /\ Outcome' = Outcome)
  OBVIOUS
<1>1. CASE StorageFault \/ UNCHANGED vars
  <2>1. UNCHANGED <<sent, opc, env, args>>
    BY <1>1 DEF StorageFault, DamageField, FlipFlag, CrossField, Recut, DamageBlock,
                DamageSealed, CrossSealed, Cut, BlockFault, HeaderFault,
                SealedFault, Fault, openVars, vars
  <2>. QED  BY <2>1 DEF SentView, Finished, Outcome
<1>2. CASE Encrypt
  BY <1>2, EncryptRefines DEF Transfer!Next
<1>3. CASE DecryptCall
  BY <1>3, CallRefines DEF Transfer!Next
<1>4. CASE DecryptStep
  BY <1>4, StepRefines DEF Transfer!Next
<1>5. CASE DecryptReturn
  BY <1>5, ReturnRefines DEF Transfer!Next
<1>. QED  BY <1>1, <1>2, <1>3, <1>4, <1>5 DEF Next

(* encrypt and decrypt implement EnvelopeTransfer: every step is a send, a *)
(* call, a delivery of a message that meets the caller's demands, a        *)
(* refusal, a return, or nothing (shield.py:339-503).                      *)
THEOREM Implements == Spec => ImplementsTransfer
<1>1. Init => Transfer!Init
  BY InitRefines
<1>2. IInv' /\ OpensOnlyAcceptable' /\ [Next]_vars =>
        [Transfer!Next]_<<SentView, Outcome>>
  BY StepMaps
<1>. QED  BY <1>1, <1>2, Invariance, OpenedIsAcceptable, PTL
          DEF Spec, ImplementsTransfer, Transfer!Spec, SentView

-----------------------------------------------------------------------------
(* The independent decoder beside decrypt.                                 *)

(* What the two decoders may raise.                                        *)
Errors ==
  {"none", "magic", "version", "unknown suite", "truncated header",
   "missing ciphertext length", "length mismatch", "key role", "suite mismatch",
   "key-id mismatch", "sender block framing", "sender key", "sender key-id",
   "unknown sender suite", "signature", "expected key role", "unexpected sender",
   "anonymous", "key without policy", "unknown policy", "required: no key",
   "required: unbound", "forbidden: bound", "bound, no key", "AEAD open failed"}

(* Parsers one after the other refuse as the first of them that refuses.   *)
LEMMA FourTables ==
  ASSUME NEW S, NEW a \in Seq(S), NEW b \in Seq(S), NEW c \in Seq(S), NEW d \in Seq(S)
  PROVE  FirstFailure(a \o b \o c \o d)
           = IF ~Passed(a) THEN FirstFailure(a)
             ELSE IF ~Passed(b) THEN FirstFailure(b)
             ELSE IF ~Passed(c) THEN FirstFailure(c)
             ELSE FirstFailure(d)
<1>1. a \o b \in Seq(S) /\ (a \o b) \o c \in Seq(S)
  BY ConcatProperties
<1>2. FirstFailure(a \o b)
        = IF FirstFailure(a) = "none" THEN FirstFailure(b) ELSE FirstFailure(a)
  BY FirstFailureConcat
<1>3. FirstFailure((a \o b) \o c)
        = IF FirstFailure(a \o b) = "none" THEN FirstFailure(c)
          ELSE FirstFailure(a \o b)
  BY <1>1, FirstFailureConcat
<1>4. FirstFailure(((a \o b) \o c) \o d)
        = IF FirstFailure((a \o b) \o c) = "none" THEN FirstFailure(d)
          ELSE FirstFailure((a \o b) \o c)
  BY <1>1, FirstFailureConcat
<1>. QED  BY <1>2, <1>3, <1>4 DEF Passed

(* The tables of decrypt and of open_envelope are sequences of errors.     *)
LEMMA Tables ==
  ASSUME NEW e, NEW a
  PROVE  /\ ParseChecks(e) \in Seq(Errors)
         /\ KeyChecks(e, a) \in Seq(Errors)
         /\ SenderChecks(e, a) \in Seq(Errors)
         /\ PolicyChecks(e, a) \in Seq(Errors)
         /\ AltParseChecks(e) \in Seq(Errors)
         /\ AltKeyChecks(e, a.rcpt) \in Seq(Errors)
         /\ AltSenderChecks(e, a.expected) \in Seq(Errors)
<1>1. ParseChecks(e) \in Seq(Errors) /\ AltParseChecks(e) \in Seq(Errors)
  BY DEF Check, Errors, ParseChecks, AltParseChecks
<1>2. KeyChecks(e, a) \in Seq(Errors) /\ AltKeyChecks(e, a.rcpt) \in Seq(Errors)
  BY DEF Check, Errors, KeyChecks, AltKeyChecks
<1>3. PolicyChecks(e, a) \in Seq(Errors)
  BY DEF Check, Errors, PolicyChecks
<1>4. BlockChecks(e.hdr, a.expected) \in Seq(Errors)
  BY DEF Check, Errors, BlockChecks
<1>5. AltBlockChecks(e.hdr, a.expected) \in Seq(Errors)
  BY DEF Check, Errors, AltBlockChecks
<1>6. <<>> \in Seq(Errors) /\ << Check("anonymous", a.expected = NoBundle) >> \in Seq(Errors)
  BY DEF Check, Errors
<1>7. SenderChecks(e, a) \in Seq(Errors)
  BY <1>4, <1>6 DEF SenderChecks
<1>8. AltSenderChecks(e, a.expected) \in Seq(Errors)
  BY <1>5, <1>6 DEF AltSenderChecks
<1>. QED  BY <1>1, <1>2, <1>3, <1>7, <1>8

(* One check more, which passes, changes no verdict.                       *)
LEMMA PassInserted ==
  ASSUME NEW c, NEW d, Len(c) \in Nat, Len(d) = Len(c) + 1,
         NEW k \in 0..Len(c), d[k+1] = "none",
         \A i \in 1..k : d[i] = c[i],
         \A i \in (k+1)..Len(c) : d[i+1] = c[i]
  PROVE  FirstFailure(d) = FirstFailure(c)
<1>1. CASE FirstFailure(c) = "none"
  <2>1. \A i \in 1..Len(c) : c[i] = "none"
    BY <1>1, NoFailure
  <2>2. ASSUME NEW i \in 1..Len(d) PROVE d[i] = "none"
    <3>1. CASE i <= k
      BY <2>1, <3>1
    <3>2. CASE i = k + 1
      BY <3>2
    <3>3. CASE i > k + 1
      <4>1. i - 1 \in (k+1)..Len(c) /\ i - 1 \in 1..Len(c) /\ i = (i - 1) + 1
        BY <3>3
      <4>. QED  BY <2>1, <4>1
    <3>. QED  BY <3>1, <3>2, <3>3
  <2>. QED  BY <1>1, <2>2, NoneFails
<1>2. CASE FirstFailure(c) # "none"
  <2>1. PICK i \in 1..Len(c) : /\ c[i] # "none" /\ FirstFailure(c) = c[i]
                               /\ \A j \in 1..(i-1) : c[j] = "none"
    BY <1>2, FailsSomewhere
  <2>2. Len(d) \in Nat
    OBVIOUS
  <2>3. CASE i <= k
    <3>1. i \in 1..Len(d) /\ d[i] = c[i] /\ \A j \in 1..(i-1) : d[j] = "none"
      BY <2>1, <2>3
    <3>. QED  BY <2>1, <2>2, <3>1, FirstFailureIs
  <2>4. CASE i > k
    <3>. DEFINE m == i + 1
    <3>1. m \in 1..Len(d) /\ d[m] = c[i]
      BY <2>4
    <3>2. ASSUME NEW j \in 1..(m-1) PROVE d[j] = "none"
      <4>1. CASE j <= k
        BY <2>1, <2>4, <4>1
      <4>2. CASE j = k + 1
        BY <4>2
      <4>3. CASE j > k + 1
        <5>1. j - 1 \in (k+1)..Len(c) /\ j - 1 \in 1..(i-1) /\ j = (j - 1) + 1
          BY <4>3
        <5>. QED  BY <2>1, <5>1
      <4>. QED  BY <4>1, <4>2, <4>3
    <3>. HIDE DEF m
    <3>. QED  BY <2>1, <2>2, <3>1, <3>2, FirstFailureIs
  <2>. QED  BY <2>3, <2>4
<1>. QED  BY <1>1, <1>2

-----------------------------------------------------------------------------
(* The verdict of decrypt as one table, as altcodec's is.                  *)
Verdict(e, a) ==
  FirstFailure(ParseChecks(e) \o KeyChecks(e, a) \o SenderChecks(e, a)
               \o PolicyChecks(e, a)
               \o << Check("AEAD open failed", Opens(e, a)) >>)

AltResult(e, a) ==
  [err |-> AltFailure(e, a),
   out |-> IF AltFailure(e, a) = "none" THEN e.sealed.plaintext ELSE None]

(* The inductive invariant: each decoder has the verdict of its table.     *)
VerdictInv ==
  /\ opc = "failed" => oerr = Verdict(env, args)
  /\ opc # "failed" => oerr = "none"
  /\ opc # "done" => out = None
  /\ alt # None => opc \in {"done", "failed"} /\ alt = AltResult(env, args)

DecoderInv == EnvelopeInv /\ VerdictInv

(* The stages of decrypt, one after another.                               *)
LEMMA VerdictStages ==
  ASSUME NEW e, NEW a
  PROVE  Verdict(e, a)
           = IF ~Passed(ParseChecks(e)) THEN FirstFailure(ParseChecks(e))
             ELSE IF ~Passed(KeyChecks(e, a)) THEN FirstFailure(KeyChecks(e, a))
             ELSE IF ~Passed(SenderChecks(e, a)) THEN FirstFailure(SenderChecks(e, a))
             ELSE IF ~Passed(PolicyChecks(e, a)) THEN FirstFailure(PolicyChecks(e, a))
             ELSE Check("AEAD open failed", Opens(e, a))
<1>. DEFINE p == ParseChecks(e)
            k == KeyChecks(e, a)
            s == SenderChecks(e, a)
            q == PolicyChecks(e, a)
            o == << Check("AEAD open failed", Opens(e, a)) >>
<1>1. p \in Seq(Errors) /\ k \in Seq(Errors) /\ s \in Seq(Errors) /\ q \in Seq(Errors)
  BY Tables
<1>2. o \in Seq(Errors)
  BY DEF Check, Errors
<1>3. FirstFailure(o) = Check("AEAD open failed", Opens(e, a))
  BY SingleFailure
<1>4. Verdict(e, a) = FirstFailure(p \o k \o s \o q \o o)
  BY DEF Verdict
<1>. HIDE DEF p, k, s, q, o
<1>5. p \o k \in Seq(Errors) /\ (p \o k) \o s \in Seq(Errors)
  BY <1>1, ConcatProperties
<1>6. FirstFailure(((p \o k) \o s) \o q)
        = IF ~Passed(p) THEN FirstFailure(p)
          ELSE IF ~Passed(k) THEN FirstFailure(k)
          ELSE IF ~Passed(s) THEN FirstFailure(s)
          ELSE FirstFailure(q)
  BY <1>1, FourTables
<1>7. ((p \o k) \o s) \o q \in Seq(Errors)
  BY <1>1, <1>5, ConcatProperties
<1>8. FirstFailure((((p \o k) \o s) \o q) \o o)
        = IF FirstFailure(((p \o k) \o s) \o q) = "none" THEN FirstFailure(o)
          ELSE FirstFailure(((p \o k) \o s) \o q)
  BY <1>2, <1>7, FirstFailureConcat
<1>9. FirstFailure(((p \o k) \o s) \o q) = "none"
        <=> Passed(p) /\ Passed(k) /\ Passed(s) /\ Passed(q)
  BY <1>6 DEF Passed
<1>10. Verdict(e, a) = IF ~Passed(p) THEN FirstFailure(p)
                       ELSE IF ~Passed(k) THEN FirstFailure(k)
                       ELSE IF ~Passed(s) THEN FirstFailure(s)
                       ELSE IF ~Passed(q) THEN FirstFailure(q)
                       ELSE FirstFailure(o)
  BY <1>4, <1>6, <1>8, <1>9
<1>. QED  BY <1>3, <1>10 DEF p, k, s, q

(* decrypt refuses with the verdict of its table.                          *)
LEMMA StepVerdict ==
  ASSUME StageInv, VerdictInv, DecryptStep, UNCHANGED alt
  PROVE  VerdictInv'
<1>1. /\ env' = env /\ args' = args /\ alt' = alt
      /\ opc \in {"parse", "key", "sender", "policy", "open"}
  BY DEF DecryptStep, DecryptParse, DecryptKey, DecryptSender, DecryptPolicy,
         Stage, DecryptOpen
<1>2. alt' = None /\ oerr = "none" /\ out = None
  BY <1>1 DEF VerdictInv
<1>3. ASSUME NEW next, opc' \in {next, "failed"}, next \notin {"done", "failed"},
             out' = out, oerr' = IF opc' = next THEN "none" ELSE Verdict(env, args)
      PROVE  VerdictInv'
  BY <1>1, <1>2, <1>3 DEF VerdictInv
<1>4. CASE DecryptParse
  <2>1. ~Passed(ParseChecks(env)) => Verdict(env, args) = FirstFailure(ParseChecks(env))
    BY VerdictStages
  <2>. QED  BY <1>3, <1>4, <2>1 DEF DecryptParse, Stage, Passed
<1>5. CASE DecryptKey
  <2>1. Passed(ParseChecks(env))
    BY <1>5 DEF DecryptKey, Stage, StageInv
  <2>2. ~Passed(KeyChecks(env, args)) =>
          Verdict(env, args) = FirstFailure(KeyChecks(env, args))
    BY <2>1, VerdictStages
  <2>. QED  BY <1>3, <1>5, <2>2 DEF DecryptKey, Stage, Passed
<1>6. CASE DecryptSender
  <2>1. Passed(ParseChecks(env)) /\ Passed(KeyChecks(env, args))
    BY <1>6 DEF DecryptSender, Stage, StageInv
  <2>2. ~Passed(SenderChecks(env, args)) =>
          Verdict(env, args) = FirstFailure(SenderChecks(env, args))
    BY <2>1, VerdictStages
  <2>. QED  BY <1>3, <1>6, <2>2 DEF DecryptSender, Stage, Passed
<1>7. CASE DecryptPolicy
  <2>1. /\ Passed(ParseChecks(env)) /\ Passed(KeyChecks(env, args))
        /\ Passed(SenderChecks(env, args))
    BY <1>7 DEF DecryptPolicy, Stage, StageInv
  <2>2. ~Passed(PolicyChecks(env, args)) =>
          Verdict(env, args) = FirstFailure(PolicyChecks(env, args))
    BY <2>1, VerdictStages
  <2>. QED  BY <1>3, <1>7, <2>2 DEF DecryptPolicy, Stage, Passed
<1>8. CASE DecryptOpen
  <2>1. /\ Passed(ParseChecks(env)) /\ Passed(KeyChecks(env, args))
        /\ Passed(SenderChecks(env, args)) /\ Passed(PolicyChecks(env, args))
    BY <1>8 DEF DecryptOpen, StageInv
  <2>2. Verdict(env, args) = Check("AEAD open failed", Opens(env, args))
    BY <2>1, VerdictStages
  <2>. QED  BY <1>1, <1>2, <1>8, <2>2 DEF DecryptOpen, VerdictInv, Check
<1>. QED  BY <1>4, <1>5, <1>6, <1>7, <1>8 DEF DecryptStep

(* No step of the other actors disturbs either verdict.                    *)
LEMMA StepDecoderInv == DecoderInv /\ [AltNext]_altVars => DecoderInv'
<1>. SUFFICES ASSUME EnvelopeInv, VerdictInv, [AltNext]_altVars
              PROVE EnvelopeInv' /\ VerdictInv'
  BY DEF DecoderInv
<1>1. [Next]_vars
  BY DEF AltNext, altVars, Next, OpenEnvelope, BothReturn
<1>2. EnvelopeInv'
  BY <1>1, StepEnvelopeInv
<1>3. VerdictInv'
  <2>1. CASE (Encrypt \/ StorageFault \/ UNCHANGED vars) /\ UNCHANGED alt
    <3>1. UNCHANGED <<openVars, alt>>
      BY <2>1 DEF Encrypt, StorageFault, DamageField, FlipFlag, CrossField, Recut,
         DamageBlock, DamageSealed, CrossSealed, Cut, BlockFault, HeaderFault,
         SealedFault, Fault, vars
    <3>. QED  BY <3>1 DEF VerdictInv, openVars
  <2>2. CASE DecryptCall /\ UNCHANGED alt
    BY <2>2 DEF DecryptCall, VerdictInv
  <2>3. CASE DecryptStep /\ UNCHANGED alt
    BY <2>3, StepVerdict DEF EnvelopeInv, IInv
  <2>4. CASE OpenEnvelope
    BY <2>4 DEF OpenEnvelope, vars, openVars, VerdictInv, AltResult
  <2>5. CASE BothReturn
    BY <2>5 DEF BothReturn, DecryptReturn, VerdictInv
  <2>. QED  BY <2>1, <2>2, <2>3, <2>4, <2>5 DEF AltNext, altVars
<1>. QED  BY <1>2, <1>3

(* Both decoders have the verdicts of their tables throughout              *)
(* (shield.py:405-503, altcodec.py:240-320).                               *)
THEOREM DecoderInvariance == AltSpec => []DecoderInv
<1>1. AltInit => DecoderInv
  <2>1. Init => EnvelopeInv
    BY InitTypeOK, InitInv DEF EnvelopeInv
  <2>2. AltInit => VerdictInv
    BY DEF AltInit, Init, VerdictInv
  <2>. QED  BY <2>1, <2>2 DEF DecoderInv, AltInit
<1>. QED  BY <1>1, StepDecoderInv, PTL DEF AltSpec

-----------------------------------------------------------------------------
(* In scope, and for a caller without pre-shared key or policy, the tables *)
(* of the two decoders agree.                                              *)

(* altcodec derives the key that decrypt derives without a pre-shared key. *)
LEMMA AltOpensAs ==
  ASSUME NEW e, NEW a, EffectivePpk(e, a) = Empty
  PROVE  AltOpens(e, a.rcpt.who) <=> Opens(e, a)
<1>1. AltSenderKid(e) = VerifiedKid(e)
  BY DEF AltSenderKid, VerifiedKid, Authenticated
<1>2. AltDeriveKey(e.hdr, a.rcpt.who, AltSenderKid(e))
        = EnvelopeKey(e.hdr, a.rcpt.who, Empty, VerifiedKid(e))
  BY <1>1 DEF AltDeriveKey, EnvelopeKey, DeriveKey, AltPreAuth, HandshakeOf, PreAuth
<1>. QED  BY <1>2 DEF AltOpens, Opens

(* Its table for a sender block has one check more, which passes.          *)
LEMMA SameSenderVerdict ==
  ASSUME NEW e, NEW a,
         e.hdr.block.pub.who \in Senders =>
           SigSuiteOf[e.hdr.block.pub.who] \in AltSuites
  PROVE  FirstFailure(AltSenderChecks(e, a.expected)) = FirstFailure(SenderChecks(e, a))
<1>1. CASE ~Authenticated(e)
  <2>1. AltSenderChecks(e, a.expected) = SenderChecks(e, a)
    BY <1>1 DEF AltSenderChecks, SenderChecks, Authenticated
  <2>. QED  BY <2>1
<1>2. CASE Authenticated(e)
  <2>. DEFINE h == e.hdr
              b == h.block
              c == BlockChecks(h, a.expected)
              d == AltBlockChecks(h, a.expected)
  <2>1. AltVerifies(h, b.pub)
          <=> b.sig = Signature(b.pub.who, <<HandshakeOf(h), b.pub.who>>)
    BY DEF AltVerifies, AltPreAuth, HandshakeOf, PreAuth
  <2>2. Len(c) = 6 /\ Len(d) = 7
    BY DEF BlockChecks, AltBlockChecks
  <2>3. d[4] = "none"
    BY DEF AltBlockChecks, Check
  <2>4. d[1] = c[1] /\ d[2] = c[2] /\ d[3] = c[3]
    BY DEF AltBlockChecks, BlockChecks
  <2>5. d[5] = c[4]
    BY <2>1 DEF AltBlockChecks, BlockChecks, Check
  <2>6. d[6] = c[5] /\ d[7] = c[6]
    BY DEF AltBlockChecks, BlockChecks
  <2>. HIDE DEF c, d
  <2>7. /\ \A i \in 1..3 : d[i] = c[i]
        /\ \A i \in (3+1)..6 : d[i+1] = c[i]
    <3>1. ASSUME NEW i \in 1..3 PROVE d[i] = c[i]
      <4>1. i = 1 \/ i = 2 \/ i = 3
        OBVIOUS
      <4>. QED  BY <2>4, <4>1
    <3>2. ASSUME NEW i \in (3+1)..6 PROVE d[i+1] = c[i]
      <4>1. i = 4 \/ i = 5 \/ i = 6
        OBVIOUS
      <4>. QED  BY <2>5, <2>6, <4>1
    <3>. QED  BY <3>1, <3>2
  <2>8. FirstFailure(d) = FirstFailure(c)
    <3>1. /\ Len(c) \in Nat /\ Len(d) = Len(c) + 1 /\ 3 \in 0..Len(c)
          /\ d[3 + 1] = "none" /\ \A i \in (3+1)..Len(c) : d[i+1] = c[i]
      BY <2>2, <2>3, <2>7
    <3>. QED  BY <2>7, <3>1, PassInserted
  <2>9. AltSenderChecks(e, a.expected) = d /\ SenderChecks(e, a) = c
    BY <1>2 DEF AltSenderChecks, SenderChecks, Authenticated, c, d
  <2>. QED  BY <2>8, <2>9
<1>. QED  BY <1>1, <1>2

(* The two tables have one verdict.                                        *)
LEMMA SameTables ==
  ASSUME NEW e, NEW a, InScope(e), a.ppk = Empty, a.policy = "unset"
  PROVE  AltFailure(e, a) = Verdict(e, a)
<1>1. ~Bound(e) /\ e.hdr.suite # 3
  BY DEF InScope, Bound, OutOfScopeFlags, OutOfScopeSuites
<1>2. AltParseChecks(e) = ParseChecks(e)
  <2>1. e.hdr.suite \in AltSuites <=> e.hdr.suite \in SuiteIds
    BY <1>1 DEF AltSuites, SuiteIds
  <2>2. Check("unknown suite", e.hdr.suite \in AltSuites)
          = Check("unknown suite", e.hdr.suite \in SuiteIds)
    BY <2>1 DEF Check
  <2>. QED  BY <2>2 DEF AltParseChecks, ParseChecks, MAGIC, VERSION
<1>3. AltKeyChecks(e, a.rcpt) = KeyChecks(e, a)
  BY DEF AltKeyChecks, KeyChecks
<1>4. FirstFailure(AltSenderChecks(e, a.expected)) = FirstFailure(SenderChecks(e, a))
  <2>1. e.hdr.block.pub.who \in Senders => SigSuiteOf[e.hdr.block.pub.who] \in AltSuites
    BY EnvelopeAssumption DEF InScope, OutOfScopeSuites, AltSuites, SuiteIds
  <2>. QED  BY <2>1, SameSenderVerdict
<1>5. Passed(PolicyChecks(e, a))
  <2>1. PolicyChecks(e, a) = <<"none", "none", "none", "none", "none", "none">>
    BY <1>1 DEF PolicyChecks, Check
  <2>. QED  BY <2>1, AllPass
<1>. DEFINE o == << Check("AEAD open failed", AltOpens(e, a.rcpt.who)) >>
<1>6. FirstFailure(o) = Check("AEAD open failed", Opens(e, a))
  <2>1. AltOpens(e, a.rcpt.who) <=> Opens(e, a)
    BY <1>1, AltOpensAs DEF EffectivePpk
  <2>. QED  BY <2>1, SingleFailure DEF Check
<1>7. o \in Seq(Errors)
  BY DEF Check, Errors
<1>8. AltFailure(e, a) = IF ~Passed(AltParseChecks(e)) THEN FirstFailure(AltParseChecks(e))
             ELSE IF ~Passed(AltKeyChecks(e, a.rcpt))
                  THEN FirstFailure(AltKeyChecks(e, a.rcpt))
             ELSE IF ~Passed(AltSenderChecks(e, a.expected))
                  THEN FirstFailure(AltSenderChecks(e, a.expected))
             ELSE FirstFailure(o)
  <2>1. AltFailure(e, a) = FirstFailure(AltParseChecks(e) \o AltKeyChecks(e, a.rcpt)
                              \o AltSenderChecks(e, a.expected) \o o)
    BY DEF AltFailure
  <2>2. /\ AltParseChecks(e) \in Seq(Errors) /\ AltKeyChecks(e, a.rcpt) \in Seq(Errors)
        /\ AltSenderChecks(e, a.expected) \in Seq(Errors)
    BY Tables
  <2>. HIDE DEF o
  <2>. QED  BY <1>7, <2>1, <2>2, FourTables
<1>. HIDE DEF o
<1>. QED  BY <1>2, <1>3, <1>4, <1>5, <1>6, <1>8, VerdictStages DEF Passed

(* A call that has ended has its verdict: none when it opened.             *)
LEMMA StageVerdict ==
  ASSUME StageInv, VerdictInv
  PROVE  /\ opc = "done" => Verdict(env, args) = "none" /\ oerr = "none"
                            /\ out = env.sealed.plaintext
         /\ opc = "failed" => Verdict(env, args) # "none" /\ oerr = Verdict(env, args)
                              /\ out = None
<1>1. CASE opc = "done"
  <2>1. /\ Passed(ParseChecks(env)) /\ Passed(KeyChecks(env, args))
        /\ Passed(SenderChecks(env, args)) /\ Passed(PolicyChecks(env, args))
        /\ Opens(env, args) /\ out = env.sealed.plaintext
    BY <1>1 DEF StageInv
  <2>2. Verdict(env, args) = Check("AEAD open failed", Opens(env, args))
    BY <2>1, VerdictStages
  <2>. QED  BY <1>1, <2>1, <2>2 DEF VerdictInv, Check
<1>2. CASE opc = "failed"
  <2>1. \/ ~Passed(ParseChecks(env)) \/ ~Passed(KeyChecks(env, args))
        \/ ~Passed(SenderChecks(env, args)) \/ ~Passed(PolicyChecks(env, args))
        \/ ~Opens(env, args)
    BY <1>2 DEF StageInv
  <2>2. Verdict(env, args) # "none"
    BY <2>1, VerdictStages DEF Passed, Check
  <2>. QED  BY <1>2, <2>2 DEF VerdictInv
<1>. QED  BY <1>1, <1>2

(* On every stored envelope in scope the two decoders return the same      *)
(* plaintext or refuse for the same reason (altcodec.py:240-320,           *)
(* shield.py:405-503, test_pstv.py:266-335).                               *)
THEOREM OneVerdict == AltSpec => []SameVerdict
<1>1. DecoderInv => SameVerdict
  <2>. SUFFICES ASSUME DecoderInv, alt # None, InScope(env), args.ppk = Empty,
                       args.policy = "unset"
                PROVE  alt.err = oerr /\ alt.out = out
    BY DEF SameVerdict
  <2>1. opc \in {"done", "failed"} /\ alt = AltResult(env, args)
    BY DEF DecoderInv, VerdictInv
  <2>2. AltFailure(env, args) = Verdict(env, args)
    BY SameTables
  <2>3. /\ alt.err = Verdict(env, args)
        /\ alt.out = IF Verdict(env, args) = "none" THEN env.sealed.plaintext ELSE None
    BY <2>1, <2>2 DEF AltResult
  <2>. QED  BY <2>1, <2>3, StageVerdict DEF DecoderInv, EnvelopeInv, IInv
<1>. QED  BY <1>1, DecoderInvariance, PTL

-----------------------------------------------------------------------------
(* What altcodec opens.                                                    *)

(* The arguments of decrypt with neither pre-shared key nor policy.        *)
Plain(a) == [rcpt |-> a.rcpt, expected |-> a.expected, ppk |-> Empty,
             policy |-> "optional"]

(* altcodec opens when all its tables pass, and decrypt's key would too.   *)
LEMMA AltStages ==
  ASSUME NEW e, NEW a
  PROVE  AltFailure(e, a) = "none"
           <=> /\ Passed(AltParseChecks(e)) /\ Passed(KeyChecks(e, a))
               /\ Passed(AltSenderChecks(e, a.expected))
               /\ Opens(e, Plain(a))
<1>. DEFINE p == AltParseChecks(e)
            k == KeyChecks(e, a)
            s == AltSenderChecks(e, a.expected)
            o == << Check("AEAD open failed", AltOpens(e, a.rcpt.who)) >>
<1>1. AltKeyChecks(e, a.rcpt) = k
  BY DEF AltKeyChecks, KeyChecks
<1>2. p \in Seq(Errors) /\ k \in Seq(Errors) /\ s \in Seq(Errors)
  BY Tables
<1>3. o \in Seq(Errors)
  BY DEF Check, Errors
<1>4. AltFailure(e, a) = FirstFailure(p \o k \o s \o o)
  BY <1>1 DEF AltFailure
<1>5. AltOpens(e, a.rcpt.who) <=> Opens(e, Plain(a))
  <2>1. EffectivePpk(e, Plain(a)) = Empty /\ Plain(a).rcpt = a.rcpt
    BY DEF EffectivePpk, Plain
  <2>2. AltOpens(e, Plain(a).rcpt.who) <=> Opens(e, Plain(a))
    BY <2>1, AltOpensAs
  <2>. QED  BY <2>1, <2>2
<1>6. FirstFailure(o) = "none" <=> Opens(e, Plain(a))
  <2>1. FirstFailure(o) = Check("AEAD open failed", AltOpens(e, a.rcpt.who))
    BY SingleFailure
  <2>. HIDE DEF o
  <2>. QED  BY <1>5, <2>1 DEF Check
<1>. HIDE DEF p, k, s, o
<1>7. FirstFailure(p \o k \o s \o o) = IF ~Passed(p) THEN FirstFailure(p)
                                       ELSE IF ~Passed(k) THEN FirstFailure(k)
                                       ELSE IF ~Passed(s) THEN FirstFailure(s)
                                       ELSE FirstFailure(o)
  BY <1>2, <1>3, FourTables
<1>8. AltFailure(e, a) = "none"
        <=> Passed(p) /\ Passed(k) /\ Passed(s) /\ Opens(e, Plain(a))
  BY <1>4, <1>6, <1>7 DEF Passed
<1>. QED  BY <1>8 DEF p, k, s

(* What altcodec's own checks establish beside those of decrypt.           *)
LEMMA AltPassed ==
  ASSUME NEW e, NEW a, e.tail \in Tails, Passed(AltParseChecks(e)),
         Passed(AltSenderChecks(e, a.expected))
  PROVE  /\ e.tail = "whole" /\ e.hdr.suite \in AltSuites
         /\ Passed(SenderChecks(e, a))
         /\ Authenticated(e) /\ e.hdr.block.pub.who \in Senders =>
              SigSuiteOf[e.hdr.block.pub.who] \in AltSuites
<1>1. e.tail = "whole" /\ e.hdr.suite \in AltSuites
  <2>. DEFINE t == AltParseChecks(e)
  <2>1. Len(t) = 6
    BY DEF AltParseChecks
  <2>. HIDE DEF t
  <2>2. \A i \in 1..6 : t[i] = "none"
    BY <2>1, EachPassed DEF t
  <2>3. t[3] = "none" /\ t[4] = "none" /\ t[5] = "none" /\ t[6] = "none"
    BY <2>2
  <2>. QED  BY <2>3 DEF t, AltParseChecks, Check, Tails
<1>2. CASE ~Authenticated(e)
  <2>1. AltSenderChecks(e, a.expected) = SenderChecks(e, a)
    BY <1>2 DEF AltSenderChecks, SenderChecks, Authenticated
  <2>. QED  BY <1>1, <1>2, <2>1
<1>3. CASE Authenticated(e)
  <2>. DEFINE t == AltBlockChecks(e.hdr, a.expected)
              who == e.hdr.block.pub.who
  <2>1. AltSenderChecks(e, a.expected) = t
    BY <1>3 DEF AltSenderChecks, Authenticated
  <2>2. Len(t) = 7
    BY DEF AltBlockChecks
  <2>3. t[4] = Check("unknown sender suite",
                     who \in Senders => SigSuiteOf[who] \in AltSuites)
    BY DEF AltBlockChecks
  <2>. HIDE DEF t
  <2>4. t[4] = "none"
    <3>1. \A i \in 1..7 : t[i] = "none"
      BY <2>1, <2>2, EachPassed
    <3>. QED  BY <3>1
  <2>5. who \in Senders => SigSuiteOf[who] \in AltSuites
    BY <2>3, <2>4 DEF Check
  <2>6. Passed(SenderChecks(e, a))
    BY <2>5, SameSenderVerdict DEF Passed
  <2>. QED  BY <1>1, <2>5, <2>6
<1>. QED  BY <1>2, <1>3

(* What altcodec opens is whole, unchanged, and of its scope.              *)
LEMMA AltOpensAcceptable ==
  ASSUME SentInv, NEW e, NEW a \in Args, StoredBytes(e), AltFailure(e, a) = "none"
  PROVE  \E c \in Finished : /\ e = sent[c].env
                             /\ e.sealed.plaintext = sent[c].given.msg
                             /\ AltAcceptable(sent[c].given, a)
<1>1. /\ Passed(AltParseChecks(e)) /\ Passed(KeyChecks(e, a))
      /\ Passed(AltSenderChecks(e, a.expected)) /\ Opens(e, Plain(a))
  BY AltStages
<1>2. e.tail \in Tails
  BY DEF StoredBytes
<1>3. /\ e.tail = "whole" /\ e.hdr.suite \in AltSuites /\ Passed(SenderChecks(e, a))
      /\ Authenticated(e) /\ e.hdr.block.pub.who \in Senders =>
           SigSuiteOf[e.hdr.block.pub.who] \in AltSuites
  BY <1>1, <1>2, AltPassed
<1>4. PICK c \in Finished, n \in Nonces : /\ e = sent[c].env
                                          /\ sent[c].env = Envelope(c, sent[c].given, n)
  BY <1>1, <1>3, OpenedUnchanged
<1>. DEFINE g == sent[c].given
<1>5. g \in Given /\ SealAccepts("kem_pub", g) /\ e = Envelope(c, g, n)
  BY <1>4 DEF SentInv
<1>. HIDE DEF g
<1>6. /\ e.hdr.kid = g.to /\ e.hdr.suite = SuiteOf[g.to]
      /\ Authenticated(e) <=> g.from.priv # NoBundle
      /\ e.sealed = AeadSeal(EnvelopeKey(e.hdr, g.to, g.ppk, SenderKid(g)),
                             n, e.hdr, g.msg)
      /\ e.hdr.block = SenderBlock(g, BareHeader(c, g, n))
  BY <1>5, EnvelopeFields, EnvelopeShape
<1>7. ForThisKey(g, a)
  <2>1. a.rcpt = [who |-> a.rcpt.who, role |-> a.rcpt.role]
    BY DEF Args
  <2>2. a.rcpt.role = "kem_priv" /\ a.rcpt.who = g.to
    BY <1>1, <1>6, KeyPassed
  <2>. QED  BY <2>1, <2>2 DEF ForThisKey
<1>8. SenderAccepted(g, a)
  BY <1>3, <1>5, PassedSender
<1>9. g.ppk = Empty
  <2>1. EnvelopeKey(e.hdr, a.rcpt.who, Empty, VerifiedKid(e))
          = EnvelopeKey(e.hdr, g.to, g.ppk, SenderKid(g))
    BY <1>1, <1>6 DEF Opens, AeadOpens, AeadSeal, EffectivePpk, Plain
  <2>. QED  BY <2>1 DEF EnvelopeKey, DeriveKey
<1>10. SuiteOf[g.to] \in AltSuites
  BY <1>3, <1>6
<1>11. g.from.priv # NoBundle => SigSuiteOf[g.from.priv.who] \in AltSuites
  <2>. SUFFICES ASSUME g.from.priv # NoBundle
                PROVE  SigSuiteOf[g.from.priv.who] \in AltSuites
    OBVIOUS
  <2>1. g.from.priv.who \in Senders
    BY <1>5, SenderBundle
  <2>2. e.hdr.block.pub = g.from.pub
    BY <1>6 DEF SenderBlock, Block
  <2>3. g.from.pub.who = g.from.priv.who
    BY <1>8 DEF SenderAccepted
  <2>. QED  BY <1>3, <1>6, <2>1, <2>2, <2>3
<1>12. e.sealed.plaintext = g.msg
  BY <1>6 DEF AeadSeal
<1>13. AltAcceptable(g, a)
  BY <1>7, <1>8, <1>9, <1>10, <1>11 DEF AltAcceptable
<1>. QED  BY <1>4, <1>12, <1>13 DEF g

(* An unchanged envelope of its scope passes all its tables.               *)
LEMMA AltAcceptableOpens ==
  ASSUME SentInv, NEW c \in Finished, NEW a,
         AltAcceptable(sent[c].given, a)
  PROVE  AltFailure(sent[c].env, a) = "none"
<1>. DEFINE g == sent[c].given
            e == sent[c].env
<1>1. c \in Calls /\ g \in Given /\ SealAccepts("kem_pub", g)
  BY DEF SentInv
<1>2. PICK n \in Nonces : e = Envelope(c, g, n)
  BY DEF SentInv
<1>3. AltAcceptable(g, a)
  OBVIOUS
<1>. HIDE DEF g, e
<1>4. Passed(ParseChecks(e)) /\ Passed(KeyChecks(e, a))
  BY <1>1, <1>2, <1>3, HeaderPasses DEF AltAcceptable
<1>5. Passed(SenderChecks(e, a))
  BY <1>1, <1>2, <1>3, SenderPasses DEF AltAcceptable
<1>6. /\ e.hdr.suite = SuiteOf[g.to]
      /\ Authenticated(e) <=> g.from.priv # NoBundle
      /\ e.hdr.block = SenderBlock(g, BareHeader(c, g, n))
  BY <1>1, <1>2, EnvelopeFields, EnvelopeShape
<1>7. AltParseChecks(e) = ParseChecks(e)
  <2>1. e.hdr.suite \in AltSuites /\ e.hdr.suite \in SuiteIds
    BY <1>3, <1>6 DEF AltAcceptable, AltSuites, SuiteIds
  <2>2. Check("unknown suite", e.hdr.suite \in AltSuites)
          = Check("unknown suite", e.hdr.suite \in SuiteIds)
    BY <2>1 DEF Check
  <2>. QED  BY <2>2 DEF AltParseChecks, ParseChecks, MAGIC, VERSION
<1>8. Passed(AltSenderChecks(e, a.expected))
  <2>1. CASE ~Authenticated(e)
    <3>1. AltSenderChecks(e, a.expected) = SenderChecks(e, a)
      BY <2>1 DEF AltSenderChecks, SenderChecks, Authenticated
    <3>. QED  BY <1>5, <3>1
  <2>2. CASE Authenticated(e)
    <3>1. e.hdr.block.pub = g.from.pub /\ g.from.pub.who = g.from.priv.who
      BY <1>3, <1>6, <2>2 DEF SenderBlock, Block, AltAcceptable, SenderAccepted
    <3>2. SigSuiteOf[e.hdr.block.pub.who] \in AltSuites
      BY <1>3, <1>6, <2>2, <3>1 DEF AltAcceptable
    <3>. QED  BY <1>5, <3>2, SameSenderVerdict DEF Passed
  <2>. QED  BY <2>1, <2>2
<1>9. Opens(e, Plain(a))
  <2>1. Acceptable(g, Plain(a))
    BY <1>3 DEF AltAcceptable, Acceptable, ForThisKey, SenderAccepted, PpkAccepted, Plain
  <2>. QED  BY <1>1, <1>2, <2>1, AcceptableDecrypts
<1>10. AltFailure(e, a) = "none"
  BY <1>4, <1>7, <1>8, <1>9, AltStages
<1>. QED  BY <1>10 DEF e

(* altcodec opens exactly the whole, unchanged envelopes of its scope that *)
(* are for this key and from an accepted sender (altcodec.py:124-320).     *)
THEOREM AltOpensItsScope == AltSpec => []AltOpensExactly
<1>1. DecoderInv => AltOpensExactly
  <2>. SUFFICES ASSUME DecoderInv, alt # None PROVE
         /\ alt.err = "none" => \E c \in Finished :
              /\ env = sent[c].env /\ alt.out = sent[c].given.msg
              /\ AltAcceptable(sent[c].given, args)
         /\ \A c \in Finished :
              env = sent[c].env /\ AltAcceptable(sent[c].given, args) =>
                alt.err = "none"
    BY DEF AltOpensExactly
  <2>1. /\ SentInv /\ args \in Args /\ StoredBytes(env)
        /\ alt = AltResult(env, args)
    BY DEF DecoderInv, VerdictInv, EnvelopeInv, IInv, ArgsInv
  <2>2. /\ alt.err = AltFailure(env, args)
        /\ alt.err = "none" => alt.out = env.sealed.plaintext
    BY <2>1 DEF AltResult
  <2>3. alt.err = "none" => \E c \in Finished :
          /\ env = sent[c].env /\ alt.out = sent[c].given.msg
          /\ AltAcceptable(sent[c].given, args)
    BY <2>1, <2>2, AltOpensAcceptable
  <2>4. \A c \in Finished : env = sent[c].env /\ AltAcceptable(sent[c].given, args) =>
          alt.err = "none"
    BY <2>1, <2>2, AltAcceptableOpens
  <2>. QED  BY <2>3, <2>4
<1>. QED  BY <1>1, DecoderInvariance, PTL
-----------------------------------------------------------------------------
(* The corpus.  A vector in scope that no parser can take for another.     *)
Minted(v) ==
  /\ v.env.hdr.magic = MAGIC /\ v.env.hdr.version = VERSION
  /\ v.env.hdr.suite \in AltSuites /\ "ppk" \notin v.env.hdr.flags
  /\ v.env.hdr.block.pub.who \in Senders =>
       SigSuiteOf[v.env.hdr.block.pub.who] \in AltSuites
  /\ v.args.ppk = Empty /\ v.args.policy = "unset"
  /\ v.args.rcpt.role = "kem_priv"

(* The four stages before the private key is used.                         *)
AllPassed(e, a) ==
  /\ Passed(ParseChecks(e)) /\ Passed(KeyChecks(e, a))
  /\ Passed(SenderChecks(e, a)) /\ Passed(PolicyChecks(e, a))

(* A vector whose verdict is of its category, and which reaches the        *)
(* cryptography just when that category says so.                           *)
Proper(v) ==
  /\ InScope(v.env) /\ v.args.ppk = Empty /\ v.args.policy = "unset"
  /\ v.expected \in CategoriesOf(Verdict(v.env, v.args))
  /\ v.expected \in {"aead", "opens"} <=> AllPassed(v.env, v.args)

(* What is minted is in the scope of both decoders.                        *)
LEMMA MintedInScope == ASSUME NEW v, Minted(v) PROVE InScope(v.env)
BY DEF Minted, InScope, AltSuites, OutOfScopeSuites, OutOfScopeFlags

(* How it ends in the framing.                                             *)
LEMMA MintedParse ==
  ASSUME NEW v, Minted(v)
  PROVE  LET t == ParseChecks(v.env) IN
         /\ v.env.tail = "whole" => Passed(t)
         /\ v.env.tail = "header" => FirstFailure(t) = "truncated header"
         /\ v.env.tail = "length" => FirstFailure(t) = "missing ciphertext length"
         /\ v.env.tail = "mismatch" => FirstFailure(t) = "length mismatch"
<1>. DEFINE t == ParseChecks(v.env)
<1>1. v.env.hdr.suite \in SuiteIds
  BY DEF Minted, AltSuites, SuiteIds
<1>0. Len(t) = 6
  BY DEF ParseChecks
<1>2. /\ t[1] = "none" /\ t[2] = "none" /\ t[3] = "none"
      /\ t[4] = Check("truncated header", v.env.tail # "header")
      /\ t[5] = Check("missing ciphertext length", v.env.tail # "length")
      /\ t[6] = Check("length mismatch", v.env.tail # "mismatch")
  BY <1>1 DEF Minted, ParseChecks, Check
<1>. HIDE DEF t
<1>3. ASSUME v.env.tail = "whole" PROVE Passed(t)
  <2>1. t[4] = "none" /\ t[5] = "none" /\ t[6] = "none"
    BY <1>2, <1>3 DEF Check
  <2>2. \A i \in 1..6 : t[i] = "none"
    <3>1. \A i \in 1..6 : i \in {1, 2, 3, 4, 5, 6}
      OBVIOUS
    <3>. QED  BY <1>2, <2>1, <3>1
  <2>. QED  BY <1>0, <2>2, AllPass
<1>4. ASSUME v.env.tail = "header" PROVE FirstFailure(t) = "truncated header"
  <2>1. t[4] = "truncated header"
    BY <1>2, <1>4 DEF Check
  <2>2. \A j \in 1..(4-1) : t[j] = "none"
    <3>1. \A j \in 1..(4-1) : j \in {1, 2, 3}
      OBVIOUS
    <3>. QED  BY <1>2, <3>1
  <2>3. Len(t) \in Nat /\ 4 \in 1..Len(t)
    BY <1>0
  <2>4. t[4] # "none"
    BY <2>1
  <2>. QED  BY <2>1, <2>2, <2>3, <2>4, FirstFailureIs
<1>5. ASSUME v.env.tail = "length" PROVE FirstFailure(t) = "missing ciphertext length"
  <2>1. t[4] = "none" /\ t[5] = "missing ciphertext length"
    BY <1>2, <1>5 DEF Check
  <2>2. \A j \in 1..(5-1) : t[j] = "none"
    <3>1. \A j \in 1..(5-1) : j \in {1, 2, 3, 4}
      OBVIOUS
    <3>. QED  BY <1>2, <2>1, <3>1
  <2>3. Len(t) \in Nat /\ 5 \in 1..Len(t)
    BY <1>0
  <2>4. t[5] # "none"
    BY <2>1
  <2>. QED  BY <2>1, <2>2, <2>3, <2>4, FirstFailureIs
<1>6. ASSUME v.env.tail = "mismatch" PROVE FirstFailure(t) = "length mismatch"
  <2>1. t[4] = "none" /\ t[5] = "none" /\ t[6] = "length mismatch"
    BY <1>2, <1>6 DEF Check
  <2>2. \A j \in 1..(6-1) : t[j] = "none"
    <3>1. \A j \in 1..(6-1) : j \in {1, 2, 3, 4, 5}
      OBVIOUS
    <3>. QED  BY <1>2, <2>1, <3>1
  <2>3. Len(t) \in Nat /\ 6 \in 1..Len(t)
    BY <1>0
  <2>4. t[6] # "none"
    BY <2>1
  <2>. QED  BY <2>1, <2>2, <2>3, <2>4, FirstFailureIs
<1>. QED  BY <1>3, <1>4, <1>5, <1>6 DEF t

(* How it ends at the recipient's key.                                     *)
LEMMA MintedKey ==
  ASSUME NEW v, Minted(v)
  PROVE  LET t == KeyChecks(v.env, v.args)
             r == v.args.rcpt.who
             h == v.env.hdr
         IN  /\ SuiteOf[r] # h.suite => FirstFailure(t) = "suite mismatch"
             /\ SuiteOf[r] = h.suite /\ r # h.kid => FirstFailure(t) = "key-id mismatch"
             /\ SuiteOf[r] = h.suite /\ r = h.kid => Passed(t)
<1>. DEFINE t == KeyChecks(v.env, v.args)
            r == v.args.rcpt.who
            h == v.env.hdr
<1>0. Len(t) = 3
  BY DEF KeyChecks
<1>1. /\ t[1] = "none"
      /\ t[2] = Check("suite mismatch", SuiteOf[r] = h.suite)
      /\ t[3] = Check("key-id mismatch", r = h.kid)
  BY DEF Minted, KeyChecks, Check
<1>. HIDE DEF t, r, h
<1>2. ASSUME SuiteOf[r] # h.suite PROVE FirstFailure(t) = "suite mismatch"
  <2>1. t[2] = "suite mismatch"
    BY <1>1, <1>2 DEF Check
  <2>2. \A j \in 1..(2-1) : t[j] = "none"
    <3>1. \A j \in 1..(2-1) : j = 1
      OBVIOUS
    <3>. QED  BY <1>1, <3>1
  <2>3. Len(t) \in Nat /\ 2 \in 1..Len(t)
    BY <1>0
  <2>4. t[2] # "none"
    BY <2>1
  <2>. QED  BY <2>1, <2>2, <2>3, <2>4, FirstFailureIs
<1>3. ASSUME SuiteOf[r] = h.suite, r # h.kid PROVE FirstFailure(t) = "key-id mismatch"
  <2>1. t[2] = "none" /\ t[3] = "key-id mismatch"
    BY <1>1, <1>3 DEF Check
  <2>2. \A j \in 1..(3-1) : t[j] = "none"
    <3>1. \A j \in 1..(3-1) : j \in {1, 2}
      OBVIOUS
    <3>. QED  BY <1>1, <2>1, <3>1
  <2>3. Len(t) \in Nat /\ 3 \in 1..Len(t)
    BY <1>0
  <2>4. t[3] # "none"
    BY <2>1
  <2>. QED  BY <2>1, <2>2, <2>3, <2>4, FirstFailureIs
<1>4. ASSUME SuiteOf[r] = h.suite, r = h.kid PROVE Passed(t)
  <2>1. t[2] = "none" /\ t[3] = "none"
    BY <1>1, <1>4 DEF Check
  <2>2. \A i \in 1..3 : t[i] = "none"
    <3>1. \A i \in 1..3 : i \in {1, 2, 3}
      OBVIOUS
    <3>. QED  BY <1>1, <2>1, <3>1
  <2>. QED  BY <1>0, <2>2, AllPass
<1>. QED  BY <1>2, <1>3, <1>4 DEF t, r, h
(* How an authenticated one ends at the sender block.                      *)
LEMMA MintedSender ==
  ASSUME NEW v, Minted(v), Authenticated(v.env)
  PROVE  LET t == SenderChecks(v.env, v.args)
             b == v.env.hdr.block
             x == v.args.expected
             signed == b.sig = Signature(b.pub.who, <<HandshakeOf(v.env.hdr), b.pub.who>>)
         IN  /\ ~b.framed => FirstFailure(t) = "sender block framing"
             /\ b.framed /\ b.pub.role = "sig_pub" =>
                  /\ b.kid # b.pub.who => FirstFailure(t) = "sender key-id"
                  /\ b.kid = b.pub.who /\ ~signed => FirstFailure(t) = "signature"
                  /\ b.kid = b.pub.who /\ signed =>
                       /\ x # NoBundle /\ x.role = "sig_pub" /\ x.who # b.pub.who =>
                            FirstFailure(t) = "unexpected sender"
                       /\ x = NoBundle \/ (x.role = "sig_pub" /\ x.who = b.pub.who) =>
                            Passed(t)
<1>. DEFINE b == v.env.hdr.block
            x == v.args.expected
            t == BlockChecks(v.env.hdr, x)
            signed == b.sig = Signature(b.pub.who, <<HandshakeOf(v.env.hdr), b.pub.who>>)
<1>0. SenderChecks(v.env, v.args) = t
  BY DEF SenderChecks
<1>1. Len(t) = 6
  BY DEF BlockChecks
<1>2. /\ t[1] = Check("sender block framing", b.framed)
      /\ t[2] = Check("sender key", b.pub.role = "sig_pub")
      /\ t[3] = Check("sender key-id", b.kid = b.pub.who)
      /\ t[4] = Check("signature", signed)
      /\ t[5] = Check("expected key role", x # NoBundle => x.role = "sig_pub")
      /\ t[6] = Check("unexpected sender", x # NoBundle => x.who = b.pub.who)
  BY DEF BlockChecks
<1>. HIDE DEF t, b, x, signed
<1>3. ASSUME ~b.framed PROVE FirstFailure(t) = "sender block framing"
  <2>1. t[1] = "sender block framing"
    BY <1>2, <1>3 DEF Check
  <2>2. \A j \in 1..(1-1) : t[j] = "none"
    OBVIOUS
  <2>3. Len(t) \in Nat /\ 1 \in 1..Len(t)
    BY <1>1
  <2>4. t[1] # "none"
    BY <2>1
  <2>. QED  BY <2>1, <2>2, <2>3, <2>4, FirstFailureIs
<1>4. ASSUME b.framed, b.pub.role = "sig_pub", b.kid # b.pub.who
      PROVE  FirstFailure(t) = "sender key-id"
  <2>1. t[1] = "none" /\ t[2] = "none" /\ t[3] = "sender key-id"
    BY <1>2, <1>4 DEF Check
  <2>2. \A j \in 1..(3-1) : t[j] = "none"
    <3>1. \A j \in 1..(3-1) : j \in {1, 2}
      OBVIOUS
    <3>. QED  BY <2>1, <3>1
  <2>3. Len(t) \in Nat /\ 3 \in 1..Len(t)
    BY <1>1
  <2>4. t[3] # "none"
    BY <2>1
  <2>. QED  BY <2>1, <2>2, <2>3, <2>4, FirstFailureIs
<1>5. ASSUME b.framed, b.pub.role = "sig_pub", b.kid = b.pub.who
      PROVE  t[1] = "none" /\ t[2] = "none" /\ t[3] = "none"
  BY <1>2, <1>5 DEF Check
<1>6. ASSUME b.framed, b.pub.role = "sig_pub", b.kid = b.pub.who, ~signed
      PROVE  FirstFailure(t) = "signature"
  <2>1. t[4] = "signature"
    BY <1>2, <1>6 DEF Check
  <2>2. \A j \in 1..(4-1) : t[j] = "none"
    <3>1. \A j \in 1..(4-1) : j \in {1, 2, 3}
      OBVIOUS
    <3>. QED  BY <1>5, <1>6, <3>1
  <2>3. Len(t) \in Nat /\ 4 \in 1..Len(t)
    BY <1>1
  <2>4. t[4] # "none"
    BY <2>1
  <2>. QED  BY <2>1, <2>2, <2>3, <2>4, FirstFailureIs
<1>7. ASSUME b.framed, b.pub.role = "sig_pub", b.kid = b.pub.who, signed,
             x # NoBundle, x.role = "sig_pub", x.who # b.pub.who
      PROVE  FirstFailure(t) = "unexpected sender"
  <2>1. t[4] = "none" /\ t[5] = "none" /\ t[6] = "unexpected sender"
    BY <1>2, <1>7 DEF Check
  <2>2. \A j \in 1..(6-1) : t[j] = "none"
    <3>1. \A j \in 1..(6-1) : j \in {1, 2, 3, 4, 5}
      OBVIOUS
    <3>. QED  BY <1>5, <1>7, <2>1, <3>1
  <2>3. Len(t) \in Nat /\ 6 \in 1..Len(t)
    BY <1>1
  <2>4. t[6] # "none"
    BY <2>1
  <2>. QED  BY <2>1, <2>2, <2>3, <2>4, FirstFailureIs
<1>8. ASSUME b.framed, b.pub.role = "sig_pub", b.kid = b.pub.who, signed,
             x = NoBundle \/ (x.role = "sig_pub" /\ x.who = b.pub.who)
      PROVE  Passed(t)
  <2>1. t[4] = "none" /\ t[5] = "none" /\ t[6] = "none"
    BY <1>2, <1>8 DEF Check
  <2>2. \A i \in 1..6 : t[i] = "none"
    <3>1. \A i \in 1..6 : i \in {1, 2, 3, 4, 5, 6}
      OBVIOUS
    <3>. QED  BY <1>5, <1>8, <2>1, <3>1
  <2>. QED  BY <1>1, <2>2, AllPass
<1>. QED  BY <1>0, <1>3, <1>4, <1>6, <1>7, <1>8 DEF b, x, signed

(* A recipient who expects nobody takes an anonymous one.                  *)
LEMMA MintedAnonymous ==
  ASSUME NEW v, ~Authenticated(v.env), v.args.expected = NoBundle
  PROVE  Passed(SenderChecks(v.env, v.args))
<1>1. SenderChecks(v.env, v.args) = << "none" >>
  BY DEF SenderChecks, Check
<1>. QED  BY <1>1, AllPass

(* The policy is not what refuses it.                                      *)
LEMMA MintedPolicy ==
  ASSUME NEW v, Minted(v)
  PROVE  Passed(PolicyChecks(v.env, v.args))
<1>1. PolicyChecks(v.env, v.args) = <<"none", "none", "none", "none", "none", "none">>
  BY DEF Minted, PolicyChecks, Check, Bound
<1>. QED  BY <1>1, AllPass

(* A vector that a stage before the cryptography refuses, as expected.     *)
LEMMA RefusedEarly ==
  ASSUME NEW v, Minted(v), ~AllPassed(v.env, v.args),
         v.expected \in CategoriesOf(Verdict(v.env, v.args)),
         v.expected \notin {"aead", "opens"}
  PROVE  Proper(v)
BY MintedInScope DEF Proper, Minted

(* A vector that reaches the cryptography, and what comes of it there.     *)
LEMMA ReachesOpen ==
  ASSUME NEW v, Minted(v), v.env.tail = "whole",
         SuiteOf[v.args.rcpt.who] = v.env.hdr.suite, v.args.rcpt.who = v.env.hdr.kid,
         Passed(SenderChecks(v.env, v.args)),
         v.expected = IF Opens(v.env, v.args) THEN "opens" ELSE "aead"
  PROVE  Proper(v)
<1>1. AllPassed(v.env, v.args)
  BY MintedParse, MintedKey, MintedPolicy DEF AllPassed
<1>2. Verdict(v.env, v.args) = Check("AEAD open failed", Opens(v.env, v.args))
  BY <1>1, VerdictStages DEF AllPassed
<1>3. v.expected \in CategoriesOf(Verdict(v.env, v.args))
  <2>1. CASE Opens(v.env, v.args)
    <3>1. Verdict(v.env, v.args) = "none" /\ v.expected = "opens"
      BY <1>2, <2>1 DEF Check
    <3>. QED  BY <3>1 DEF CategoriesOf
  <2>2. CASE ~Opens(v.env, v.args)
    <3>1. Verdict(v.env, v.args) = "AEAD open failed" /\ v.expected = "aead"
      BY <1>2, <2>2 DEF Check
    <3>. QED  BY <3>1 DEF CategoriesOf
  <2>. QED  BY <2>1, <2>2
<1>4. v.expected \in {"aead", "opens"}
  OBVIOUS
<1>. QED  BY <1>1, <1>3, <1>4, MintedInScope DEF Proper, Minted

(* A vector that the framing refuses.                                      *)
LEMMA FramingVector ==
  ASSUME NEW v, Minted(v),
         \/ v.env.tail = "header" /\ v.expected = "inner_tlv"
         \/ v.env.tail = "length" /\ v.expected = "truncation"
         \/ v.env.tail = "mismatch" /\ v.expected = "trailing_data"
  PROVE  Proper(v)
<1>. DEFINE t == ParseChecks(v.env)
<1>1. FirstFailure(t) \in {"truncated header", "missing ciphertext length",
                           "length mismatch"}
      /\ v.expected \in CategoriesOf(FirstFailure(t))
  <2>1. CASE v.env.tail = "header" /\ v.expected = "inner_tlv"
    <3>1. FirstFailure(t) = "truncated header"
      BY <2>1, MintedParse
    <3>. QED  BY <2>1, <3>1 DEF CategoriesOf
  <2>2. CASE v.env.tail = "length" /\ v.expected = "truncation"
    <3>1. FirstFailure(t) = "missing ciphertext length"
      BY <2>2, MintedParse
    <3>. QED  BY <2>2, <3>1 DEF CategoriesOf
  <2>3. CASE v.env.tail = "mismatch" /\ v.expected = "trailing_data"
    <3>1. FirstFailure(t) = "length mismatch"
      BY <2>3, MintedParse
    <3>. QED  BY <2>3, <3>1 DEF CategoriesOf
  <2>. QED  BY <2>1, <2>2, <2>3
<1>2. ~Passed(t)
  BY <1>1 DEF Passed
<1>3. Verdict(v.env, v.args) = FirstFailure(t)
  BY <1>2, VerdictStages
<1>4. v.expected \notin {"aead", "opens"}
  OBVIOUS
<1>. HIDE DEF t
<1>. QED  BY <1>1, <1>2, <1>3, <1>4, RefusedEarly DEF AllPassed, t

(* A vector that is not for this key.                                      *)
LEMMA KeyVector ==
  ASSUME NEW v, Minted(v), v.env.tail = "whole",
         \/ /\ SuiteOf[v.args.rcpt.who] # v.env.hdr.suite
            /\ v.expected = "suite_mismatch"
         \/ /\ SuiteOf[v.args.rcpt.who] = v.env.hdr.suite
            /\ v.args.rcpt.who # v.env.hdr.kid
            /\ v.expected = "wrong_recipient"
  PROVE  Proper(v)
<1>. DEFINE t == KeyChecks(v.env, v.args)
<1>1. FirstFailure(t) \in {"suite mismatch", "key-id mismatch"}
      /\ v.expected \in CategoriesOf(FirstFailure(t))
  <2>1. CASE /\ SuiteOf[v.args.rcpt.who] # v.env.hdr.suite
             /\ v.expected = "suite_mismatch"
    <3>1. FirstFailure(t) = "suite mismatch"
      BY <2>1, MintedKey
    <3>. QED  BY <2>1, <3>1 DEF CategoriesOf
  <2>2. CASE /\ SuiteOf[v.args.rcpt.who] = v.env.hdr.suite
             /\ v.args.rcpt.who # v.env.hdr.kid
             /\ v.expected = "wrong_recipient"
    <3>1. FirstFailure(t) = "key-id mismatch"
      BY <2>2, MintedKey
    <3>. QED  BY <2>2, <3>1 DEF CategoriesOf
  <2>. QED  BY <2>1, <2>2
<1>2. ~Passed(t)
  BY <1>1 DEF Passed
<1>3. Verdict(v.env, v.args) = FirstFailure(t)
  BY <1>2, MintedParse, VerdictStages
<1>4. v.expected \notin {"aead", "opens"}
  OBVIOUS
<1>. HIDE DEF t
<1>. QED  BY <1>1, <1>2, <1>3, <1>4, RefusedEarly DEF AllPassed, t

(* A vector that the sender block refuses.                                 *)
LEMMA SenderVector ==
  ASSUME NEW v, Minted(v), v.env.tail = "whole",
         SuiteOf[v.args.rcpt.who] = v.env.hdr.suite, v.args.rcpt.who = v.env.hdr.kid,
         NEW err, FirstFailure(SenderChecks(v.env, v.args)) = err, err # "none",
         v.expected \in CategoriesOf(err), v.expected \notin {"aead", "opens"}
  PROVE  Proper(v)
<1>1. ~Passed(SenderChecks(v.env, v.args))
  BY DEF Passed
<1>2. Verdict(v.env, v.args) = err
  BY <1>1, MintedParse, MintedKey, VerdictStages
<1>. QED  BY <1>1, <1>2, RefusedEarly DEF AllPassed
(* The header's fields, none of them missing.                              *)
HeaderShape(h) ==
  h = [magic |-> h.magic, version |-> h.version, suite |-> h.suite, flags |-> h.flags,
       kid |-> h.kid, eph |-> h.eph, ct |-> h.ct, nonce |-> h.nonce, moved |-> h.moved,
       block |-> h.block]

(* The envelopes that the corpus is made from.                             *)
LEMMA Originals ==
  ASSUME SentInv, NEW c \in Finished, Anonymous(c) \/ Signed(c)
  PROVE  LET e == sent[c].env
             g == sent[c].given
             h == e.hdr
         IN  /\ e = [hdr |-> h, tail |-> "whole", sealed |-> e.sealed] /\ HeaderShape(h)
             /\ h.magic = MAGIC /\ h.version = VERSION /\ h.kid = g.to /\ h.ct = c
             /\ h.suite = SuiteOf[g.to] /\ h.suite \in AltSuites /\ "ppk" \notin h.flags
             /\ "other" \notin h.flags /\ h.moved = {}
             /\ Authenticated(e) <=> g.from.priv # NoBundle
             /\ e.sealed # Bad /\ e.sealed.aad = h /\ e.sealed.nonce = h.nonce
             /\ e.sealed.key = EnvelopeKey(h, g.to, Empty, SenderKid(g))
             /\ \E n \in Nonces : /\ h.nonce = n
                                  /\ h.block = SenderBlock(g, BareHeader(c, g, n))
                                  /\ HandshakeOf(h) = HandshakeOf(BareHeader(c, g, n))
<1>. DEFINE e == sent[c].env
            g == sent[c].given
            h == e.hdr
<1>1. c \in Calls /\ g \in Given /\ g.ppk = Empty /\ SuiteOf[g.to] \in Suites
  BY DEF SentInv, Anonymous, Signed
<1>2. PICK n \in Nonces : e = Envelope(c, g, n)
  BY DEF SentInv
<1>. HIDE DEF e, g
<1>3. /\ h.kid = g.to /\ h.suite = SuiteOf[g.to] /\ h.nonce = n /\ h.moved = {}
      /\ h.magic = MAGIC /\ h.version = VERSION
      /\ Authenticated(e) <=> g.from.priv # NoBundle
      /\ Bound(e) <=> g.ppk # Empty
      /\ HandshakeOf(h) = HandshakeOf(BareHeader(c, g, n))
      /\ e.sealed = AeadSeal(EnvelopeKey(h, g.to, g.ppk, SenderKid(g)), n, h, g.msg)
  BY <1>1, <1>2, EnvelopeFields
<1>4. /\ e = [hdr |-> h, tail |-> "whole", sealed |-> e.sealed]
      /\ h = EnvelopeHeader(c, g, n)
      /\ h.block = SenderBlock(g, BareHeader(c, g, n))
  BY <1>2, EnvelopeShape
<1>5. HeaderShape(h) /\ h.ct = c
  BY <1>4 DEF HeaderShape, EnvelopeHeader, BareHeader
<1>6. h.suite \in AltSuites
  BY <1>1, <1>3 DEF Suites, SuiteIds, OutOfScopeSuites, AltSuites
<1>7. "ppk" \notin h.flags
  BY <1>1, <1>3 DEF Bound
<1>10. "other" \notin h.flags
  <2>1. h.flags = FlagsOf(g)
    BY <1>4 DEF EnvelopeHeader, BareHeader
  <2>. QED  BY <2>1 DEF FlagsOf
<1>8. /\ e.sealed.aad = h /\ e.sealed.nonce = h.nonce
      /\ e.sealed.key = EnvelopeKey(h, g.to, Empty, SenderKid(g))
  BY <1>1, <1>3 DEF AeadSeal
<1>9. e.sealed # Bad
  BY <1>1, <1>2, ValueAssumption
<1>. QED  BY <1>3, <1>4, <1>5, <1>6, <1>7, <1>8, <1>9, <1>10 DEF e, g

(* Only that field of the header changes, and nothing else.                *)
LEMMA OnlyThatField ==
  ASSUME NEW e, NEW h, NEW f \in {"flags", "suite", "block"}, NEW x,
         e = [hdr |-> h, tail |-> "whole", sealed |-> e.sealed], HeaderShape(h)
  PROVE  LET d == Rewritten(e, f, x) IN
         /\ d.tail = "whole" /\ d.sealed = e.sealed
         /\ d.hdr.magic = h.magic /\ d.hdr.version = h.version /\ d.hdr.kid = h.kid
         /\ d.hdr.flags = IF f = "flags" THEN x ELSE h.flags
         /\ d.hdr.suite = IF f = "suite" THEN x ELSE h.suite
         /\ d.hdr.block = IF f = "block" THEN x ELSE h.block
         /\ f = "block" => HandshakeOf(d.hdr) = HandshakeOf(h)
<1>. DEFINE d == Rewritten(e, f, x)
            k == [h EXCEPT ![f] = x]
<1>1. d.tail = "whole" /\ d.sealed = e.sealed /\ d.hdr = k
  BY DEF Rewritten
<1>2. DOMAIN h = {"magic", "version", "suite", "flags", "kid", "eph", "ct", "nonce",
                  "moved", "block"}
  BY DEF HeaderShape
<1>3. /\ k.magic = h.magic /\ k.version = h.version /\ k.kid = h.kid
      /\ k.eph = h.eph /\ k.ct = h.ct /\ k.nonce = h.nonce
      /\ k.flags = IF f = "flags" THEN x ELSE h.flags
      /\ k.suite = IF f = "suite" THEN x ELSE h.suite
      /\ k.block = IF f = "block" THEN x ELSE h.block
  BY <1>2
<1>. HIDE DEF d, k
<1>4. f = "block" => HandshakeOf(k) = HandshakeOf(h)
  BY <1>3 DEF HandshakeOf, PreAuth
<1>. QED  BY <1>1, <1>3, <1>4 DEF d

(* A signed block with another key-id, key or signature.                   *)
LEMMA BlockChanged ==
  ASSUME NEW b, NEW f \in {"kid", "pub", "sig"}, NEW x,
         b = [kid |-> b.kid, pub |-> b.pub, sig |-> b.sig, framed |-> b.framed]
  PROVE  LET k == [b EXCEPT ![f] = x] IN
         /\ k.framed = b.framed
         /\ k.kid = IF f = "kid" THEN x ELSE b.kid
         /\ k.pub = IF f = "pub" THEN x ELSE b.pub
         /\ k.sig = IF f = "sig" THEN x ELSE b.sig
OBVIOUS
(* What a vector is made of.                                               *)
LEMMA VectorParts ==
  ASSUME NEW tag, NEW e, NEW who, NEW pin, NEW category
  PROVE  LET v == Vector(tag, e, who, pin, category) IN
         /\ v.env = e /\ v.expected = category
         /\ v.args.rcpt.who = who /\ v.args.rcpt.role = "kem_priv"
         /\ v.args.expected = pin /\ v.args.ppk = Empty /\ v.args.policy = "unset"
BY DEF Vector

(* The vectors of an anonymous envelope end in their categories.           *)
LEMMA AnonProper ==
  ASSUME SentInv, NEW c \in Finished, Anonymous(c), NEW v \in AnonVectors(c)
  PROVE  Proper(v)
<1>. DEFINE e == sent[c].env
            g == sent[c].given
            h == e.hdr
            own == g.to
            V(tag, d, category) == Vector(tag, d, own, NoBundle, category)
<1>1. /\ e = [hdr |-> h, tail |-> "whole", sealed |-> e.sealed] /\ HeaderShape(h)
      /\ h.magic = MAGIC /\ h.version = VERSION /\ h.kid = own
      /\ h.suite = SuiteOf[own] /\ h.suite \in AltSuites
      /\ "ppk" \notin h.flags /\ "other" \notin h.flags /\ h.moved = {}
      /\ e.sealed # Bad /\ e.sealed.aad = h /\ e.sealed.nonce = h.nonce
      /\ e.sealed.key = EnvelopeKey(h, own, Empty, SenderKid(g))
  BY Originals
<1>2. g.from = NoPair /\ g.from.priv = NoBundle
  BY DEF Anonymous, NoPair
<1>3. "authenticated" \notin h.flags
  <2>1. Authenticated(e) <=> g.from.priv # NoBundle
    BY Originals
  <2>. QED  BY <1>2, <2>1 DEF Authenticated
<1>4. h.block = NoBlock
  <2>1. PICK n \in Nonces : h.block = SenderBlock(g, BareHeader(c, g, n))
    BY Originals
  <2>. QED  BY <1>2, <2>1 DEF SenderBlock
<1>5. NoBlock.pub.who \notin Senders /\ NoBlock.framed = FALSE
  BY EnvelopeAssumption DEF NoBlock, NoBundle
<1>6. SenderKid(g) = Empty
  BY <1>2 DEF SenderKid
<1>7. \/ v = V("anon", e, "opens")
      \/ v = V("ciphertext_bitflip", [e EXCEPT !.sealed = Bad], "aead")
      \/ v = V("suite_id_mutated", Rewritten(e, "suite", 3 - SuiteOf[own]),
               "suite_mismatch")
      \/ v = V("truncated", [e EXCEPT !.tail = "length"], "truncation")
      \/ v = V("trailing_bytes", [e EXCEPT !.tail = "mismatch"], "trailing_data")
      \/ v = V("malformed_inner_tlv", [e EXCEPT !.tail = "header"], "inner_tlv")
      \/ v = V("auth_flag_set_empty_block", Rewritten(e, "flags", {"authenticated"}),
               "truncation")
      \/ v = V("flags_downgrade_crypto_binding", Rewritten(e, "flags", {"other"}), "aead")
      \/ \E r \in Recipients \ {own} :
           /\ SuiteOf[r] = SuiteOf[own]
           /\ v = Vector("wrong_recipient_key", e, r, NoBundle, "wrong_recipient")
  BY DEF AnonVectors
<1>. HIDE DEF e, g, h, own
<1>8. ASSUME NEW tag, NEW d, NEW r, NEW category, v = Vector(tag, d, r, NoBundle, category)
      PROVE  /\ v.env = d /\ v.expected = category /\ v.args.rcpt.who = r
             /\ v.args.expected = NoBundle
             /\ /\ d.hdr.magic = MAGIC /\ d.hdr.version = VERSION
                /\ d.hdr.suite \in AltSuites /\ "ppk" \notin d.hdr.flags
                /\ d.hdr.block = NoBlock
                => Minted(v)
  <2>1. /\ v.env = d /\ v.expected = category
        /\ v.args.rcpt.who = r /\ v.args.rcpt.role = "kem_priv"
        /\ v.args.expected = NoBundle /\ v.args.ppk = Empty /\ v.args.policy = "unset"
    BY <1>8, VectorParts
  <2>. QED  BY <1>5, <2>1 DEF Minted
<1>9. CASE v = V("anon", e, "opens")
  <2>1. /\ v.env = e /\ v.expected = "opens" /\ v.args.rcpt.who = own
        /\ v.args.expected = NoBundle /\ Minted(v)
    BY <1>1, <1>4, <1>8, <1>9 DEF h
  <2>2. ~Authenticated(v.env) /\ ~Bound(v.env)
    BY <1>1, <1>3, <2>1 DEF Authenticated, Bound, h
  <2>3. Opens(v.env, v.args)
    BY <1>1, <1>6, <2>1, <2>2
       DEF Opens, AeadOpens, VerifiedKid, EffectivePpk, ReadField, h
  <2>4. Passed(SenderChecks(v.env, v.args))
    BY <2>1, <2>2, MintedAnonymous
  <2>5. v.env.tail = "whole" /\ v.env.hdr.suite = SuiteOf[own] /\ v.env.hdr.kid = own
    BY <1>1, <2>1 DEF h
  <2>. QED  BY <2>1, <2>3, <2>4, <2>5, ReachesOpen
<1>10. CASE v = V("ciphertext_bitflip", [e EXCEPT !.sealed = Bad], "aead")
  <2>1. [e EXCEPT !.sealed = Bad] = [hdr |-> h, tail |-> "whole", sealed |-> Bad]
    BY <1>1
  <2>2. /\ v.env = [hdr |-> h, tail |-> "whole", sealed |-> Bad] /\ v.expected = "aead"
        /\ v.args.rcpt.who = own /\ v.args.expected = NoBundle /\ Minted(v)
    BY <1>1, <1>4, <1>8, <1>10, <2>1
  <2>3. ~Authenticated(v.env)
    BY <1>3, <2>2 DEF Authenticated
  <2>4. ~Opens(v.env, v.args)
    BY <2>2 DEF Opens, AeadOpens
  <2>5. Passed(SenderChecks(v.env, v.args))
    BY <2>2, <2>3, MintedAnonymous
  <2>6. v.env.tail = "whole" /\ v.env.hdr.suite = SuiteOf[own] /\ v.env.hdr.kid = own
    BY <1>1, <2>2
  <2>. QED  BY <2>2, <2>4, <2>5, <2>6, ReachesOpen
<1>11. CASE v = V("suite_id_mutated", Rewritten(e, "suite", 3 - SuiteOf[own]),
                  "suite_mismatch")
  <2>. DEFINE d == Rewritten(e, "suite", 3 - SuiteOf[own])
  <2>1. 3 - SuiteOf[own] \in AltSuites /\ 3 - SuiteOf[own] # SuiteOf[own]
    BY <1>1 DEF AltSuites
  <2>2. /\ d.tail = "whole" /\ d.hdr.magic = h.magic /\ d.hdr.version = h.version
        /\ d.hdr.flags = h.flags /\ d.hdr.suite = 3 - SuiteOf[own] /\ d.hdr.block = h.block
    BY <1>1, OnlyThatField
  <2>. HIDE DEF d
  <2>3. /\ v.env = d /\ v.expected = "suite_mismatch" /\ v.args.rcpt.who = own
        /\ Minted(v)
    BY <1>1, <1>4, <1>8, <1>11, <2>1, <2>2 DEF d
  <2>. QED  BY <2>1, <2>2, <2>3, KeyVector
<1>12. ASSUME NEW tag, NEW tail, NEW category,
              v = V(tag, [e EXCEPT !.tail = tail], category)
       PROVE  v.env.tail = tail /\ v.expected = category /\ Minted(v)
  <2>1. [e EXCEPT !.tail = tail] = [hdr |-> h, tail |-> tail, sealed |-> e.sealed]
    BY <1>1
  <2>. QED  BY <1>1, <1>4, <1>8, <1>12, <2>1
<1>13. CASE v = V("truncated", [e EXCEPT !.tail = "length"], "truncation")
  BY <1>12, <1>13, FramingVector
<1>14. CASE v = V("trailing_bytes", [e EXCEPT !.tail = "mismatch"], "trailing_data")
  BY <1>12, <1>14, FramingVector
<1>15. CASE v = V("malformed_inner_tlv", [e EXCEPT !.tail = "header"], "inner_tlv")
  BY <1>12, <1>15, FramingVector
<1>16. ASSUME NEW tag, NEW flags, NEW category, "ppk" \notin flags,
              v = V(tag, Rewritten(e, "flags", flags), category)
       PROVE  /\ v.env.tail = "whole" /\ v.env.hdr.flags = flags
              /\ v.env.hdr.suite = SuiteOf[own] /\ v.env.hdr.kid = own
              /\ v.env.hdr.block = NoBlock /\ v.env.sealed = e.sealed
              /\ v.args.rcpt.who = own /\ v.args.expected = NoBundle
              /\ v.expected = category /\ Minted(v)
  <2>. DEFINE d == Rewritten(e, "flags", flags)
  <2>1. /\ d.tail = "whole" /\ d.sealed = e.sealed /\ d.hdr.magic = h.magic
        /\ d.hdr.version = h.version /\ d.hdr.kid = h.kid /\ d.hdr.flags = flags
        /\ d.hdr.suite = h.suite /\ d.hdr.block = h.block
    BY <1>1, OnlyThatField
  <2>. HIDE DEF d
  <2>. QED  BY <1>1, <1>4, <1>8, <1>16, <2>1 DEF d
<1>17. CASE v = V("auth_flag_set_empty_block", Rewritten(e, "flags", {"authenticated"}),
                  "truncation")
  <2>1. /\ v.env.tail = "whole" /\ v.env.hdr.flags = {"authenticated"}
        /\ v.env.hdr.suite = SuiteOf[own] /\ v.env.hdr.kid = own
        /\ v.env.hdr.block = NoBlock /\ v.args.rcpt.who = own
        /\ v.expected = "truncation" /\ Minted(v)
    BY <1>16, <1>17
  <2>2. FirstFailure(SenderChecks(v.env, v.args)) = "sender block framing"
    BY <1>5, <2>1, MintedSender DEF Authenticated
  <2>3. v.expected \in CategoriesOf("sender block framing")
    BY <2>1 DEF CategoriesOf
  <2>. QED  BY <2>1, <2>2, <2>3, SenderVector
<1>18. CASE v = V("flags_downgrade_crypto_binding", Rewritten(e, "flags", {"other"}),
                  "aead")
  <2>1. /\ v.env.tail = "whole" /\ v.env.hdr.flags = {"other"}
        /\ v.env.hdr.suite = SuiteOf[own] /\ v.env.hdr.kid = own
        /\ v.env.sealed = e.sealed /\ v.args.rcpt.who = own
        /\ v.args.expected = NoBundle /\ v.expected = "aead" /\ Minted(v)
    BY <1>16, <1>18
  <2>2. Passed(SenderChecks(v.env, v.args))
    BY <2>1, MintedAnonymous DEF Authenticated
  <2>3. ~Opens(v.env, v.args)
    <3>1. v.env.hdr # h
      BY <1>1, <2>1
    <3>. QED  BY <1>1, <2>1, <3>1 DEF Opens, AeadOpens
  <2>. QED  BY <2>1, <2>2, <2>3, ReachesOpen
<1>19. ASSUME NEW r \in Recipients \ {own}, SuiteOf[r] = SuiteOf[own],
              v = Vector("wrong_recipient_key", e, r, NoBundle, "wrong_recipient")
       PROVE  Proper(v)
  <2>1. /\ v.env = e /\ v.expected = "wrong_recipient" /\ v.args.rcpt.who = r
        /\ Minted(v)
    BY <1>1, <1>4, <1>8, <1>19 DEF h
  <2>2. v.env.tail = "whole" /\ v.env.hdr.suite = SuiteOf[r] /\ v.env.hdr.kid # r
    BY <1>1, <1>19, <2>1 DEF h
  <2>. QED  BY <2>1, <2>2, KeyVector
<1>. QED  BY <1>7, <1>9, <1>10, <1>11, <1>13, <1>14, <1>15, <1>17, <1>18, <1>19
(* The sender block of an original is its sender's own.                    *)
LEMMA OriginalBlock ==
  ASSUME SentInv, NEW c \in Finished, Signed(c)
  PROVE  LET g == sent[c].given
             h == sent[c].env.hdr
             spk == g.from.priv.who
         IN  /\ spk \in PeersOf(SuiteOf[g.to]) /\ g.from = Pair(spk)
             /\ "authenticated" \in h.flags /\ SenderKid(g) = spk
             /\ h.block = Block(spk, Public(spk), Signature(spk, <<HandshakeOf(h), spk>>))
<1>. DEFINE g == sent[c].given
            e == sent[c].env
            h == e.hdr
            spk == g.from.priv.who
<1>1. PICK who \in PeersOf(SuiteOf[g.to]) : g.from = Pair(who)
  BY DEF Signed
<1>2. g.from.priv.who = who /\ g.from.pub = Public(who)
  BY <1>1 DEF Pair
<1>3. who \in Senders /\ SigSuiteOf[who] = SuiteOf[g.to]
  BY <1>1 DEF PeersOf
<1>4. g.from.priv # NoBundle
  BY <1>2, <1>3, EnvelopeAssumption DEF NoBundle
<1>5. PICK n \in Nonces : /\ h.block = SenderBlock(g, BareHeader(c, g, n))
                          /\ HandshakeOf(h) = HandshakeOf(BareHeader(c, g, n))
  BY Originals
<1>6. BareHeader(c, g, n).suite = SuiteOf[g.to]
  BY DEF BareHeader
<1>7. SameAlgorithm(SigSuiteOf[who], BareHeader(c, g, n).suite)
  BY <1>3, <1>6 DEF SameAlgorithm
<1>8. h.block = Block(who, Public(who), Signature(who, <<HandshakeOf(h), who>>))
  <2>. HIDE DEF g, h
  <2>. QED  BY <1>2, <1>4, <1>5, <1>7 DEF SenderBlock
<1>9. "authenticated" \in h.flags
  <2>1. Authenticated(e) <=> g.from.priv # NoBundle
    BY Originals
  <2>. QED  BY <1>4, <2>1 DEF Authenticated
<1>10. SenderKid(g) = who
  BY <1>2, <1>4 DEF SenderKid
<1>. QED  BY <1>1, <1>2, <1>8, <1>9, <1>10

(* The signature of the second signed envelope is of its own handshake.    *)
LEMMA OtherSignature ==
  ASSUME SentInv, NEW c \in Finished, Signed(c)
  PROVE  LET spk == sent[c].given.from.priv.who
         IN  Again(c).hdr.block.sig
               # Signature(spk, <<HandshakeOf(sent[c].env.hdr), spk>>)
<1>. DEFINE g == sent[c].given
            h == sent[c].env.hdr
            spk == g.from.priv.who
            d == CHOOSE d \in Calls : d # c
            k == BareHeader(d, g, h.nonce)
<1>1. c \in Calls /\ g \in Given
  BY DEF SentInv
<1>2. d # c
  BY <1>1, PstvAssumption
<1>3. Again(c).hdr.block = SenderBlock(g, k)
  <2>1. Again(c) = Envelope(d, g, h.nonce)
    BY DEF Again
  <2>. HIDE DEF d, g, h
  <2>. QED  BY <2>1, EnvelopeShape
<1>4. spk \in Senders
  BY OriginalBlock DEF PeersOf
<1>5. g.from.priv # NoBundle
  BY <1>4, EnvelopeAssumption DEF NoBundle
<1>6. HandshakeOf(k) # HandshakeOf(h)
  <2>1. h.ct = c
    BY Originals
  <2>2. k.ct = d
    BY DEF BareHeader
  <2>. HIDE DEF k, h, d
  <2>. QED  BY <1>2, <2>1, <2>2 DEF HandshakeOf, PreAuth
<1>. HIDE DEF g, h, k, d
<1>7. SenderBlock(g, k).sig \in {BadSignature, Signature(spk, <<HandshakeOf(k), spk>>)}
  BY <1>5 DEF SenderBlock, Block
<1>8. Signature(spk, <<HandshakeOf(h), spk>>).by = spk
      /\ Signature(spk, <<HandshakeOf(h), spk>>).message[1] = HandshakeOf(h)
      /\ Signature(spk, <<HandshakeOf(k), spk>>).message[1] = HandshakeOf(k)
      /\ BadSignature.by = Bad
  BY DEF Signature, BadSignature
<1>9. spk # Bad
  BY <1>4, EnvelopeAssumption
<1>. QED  BY <1>3, <1>6, <1>7, <1>8, <1>9 DEF g, h

(* The vectors of a signed envelope end in their categories.               *)
LEMMA AuthProper ==
  ASSUME SentInv, NEW c \in Finished, Signed(c), NEW v \in AuthVectors(c)
  PROVE  Proper(v)
<1>. DEFINE e == sent[c].env
            g == sent[c].given
            h == e.hdr
            own == g.to
            spk == g.from.priv.who
            b == h.block
            sig == Signature(spk, <<HandshakeOf(h), spk>>)
            W(tag, d, pin, category) == Vector(tag, d, own, pin, category)
            Block2(field, value) == Rewritten(e, "block", [b EXCEPT ![field] = value])
            others == PeersOf(SuiteOf[own]) \ {spk}
<1>1. /\ e = [hdr |-> h, tail |-> "whole", sealed |-> e.sealed] /\ HeaderShape(h)
      /\ h.magic = MAGIC /\ h.version = VERSION /\ h.kid = own
      /\ h.suite = SuiteOf[own] /\ h.suite \in AltSuites /\ "ppk" \notin h.flags
      /\ h.moved = {} /\ e.sealed # Bad /\ e.sealed.aad = h /\ e.sealed.nonce = h.nonce
      /\ e.sealed.key = EnvelopeKey(h, own, Empty, SenderKid(g))
  BY Originals
<1>2. /\ spk \in PeersOf(SuiteOf[own]) /\ "authenticated" \in h.flags
      /\ SenderKid(g) = spk /\ b = Block(spk, Public(spk), sig)
  BY OriginalBlock
<1>3. Again(c).hdr.block.sig # sig
  BY OtherSignature
<1>4. \/ v = W("auth", e, Public(spk), "opens")
      \/ v = W("auth, no pin", e, NoBundle, "opens")
      \/ v = W("auth_flag_stripped", Rewritten(e, "flags", {}), NoBundle, "aead")
      \/ v = W("sig_bitflip", Block2("sig", BadSignature), Public(spk), "signature")
      \/ v = W("sig_misbinding", Block2("sig", Again(c).hdr.block.sig), Public(spk),
               "signature")
      \/ v = W("sender_kid_mismatch", Block2("kid", Bad), Public(spk), "sender_kid")
      \/ \E o \in others : \/ v = W("sender_pub_swapped", Block2("pub", Public(o)),
                                    Public(spk), "sender_kid")
                           \/ v = W("wrong_sender_pin", e, Public(o), "sender_pin")
  BY DEF AuthVectors
<1>. HIDE DEF e, g, h, own, spk, b, sig, W, Block2
<1>5. ASSUME NEW who \in PeersOf(SuiteOf[own])
      PROVE  /\ who \in Senders /\ SigSuiteOf[who] \in AltSuites /\ who # Bad
             /\ Public(who).who = who /\ Public(who).role = "sig_pub"
             /\ Public(who) # NoBundle
  <2>1. who \in Senders /\ SigSuiteOf[who] \in AltSuites
    BY <1>1, <1>5 DEF PeersOf
  <2>2. who # Bad /\ who # None
    BY <2>1, EnvelopeAssumption
  <2>. QED  BY <2>1, <2>2 DEF Public, NoBundle
<1>6. /\ b = [kid |-> b.kid, pub |-> b.pub, sig |-> b.sig, framed |-> b.framed]
      /\ b.kid = spk /\ b.pub = Public(spk) /\ b.sig = sig /\ b.framed
  BY <1>2 DEF Block
<1>7. ASSUME NEW tag, NEW d, NEW pin, NEW category, v = W(tag, d, pin, category)
      PROVE  /\ v.env = d /\ v.expected = category /\ v.args.rcpt.who = own
             /\ v.args.expected = pin
             /\ /\ d.hdr.magic = MAGIC /\ d.hdr.version = VERSION
                /\ d.hdr.suite = SuiteOf[own] /\ "ppk" \notin d.hdr.flags
                /\ \E who \in PeersOf(SuiteOf[own]) : d.hdr.block.pub = Public(who)
                => Minted(v)
  <2>1. /\ v.env = d /\ v.expected = category
        /\ v.args.rcpt.who = own /\ v.args.rcpt.role = "kem_priv"
        /\ v.args.expected = pin /\ v.args.ppk = Empty /\ v.args.policy = "unset"
    BY <1>7, VectorParts DEF W
  <2>2. (\E who \in PeersOf(SuiteOf[own]) : d.hdr.block.pub = Public(who)) =>
          SigSuiteOf[d.hdr.block.pub.who] \in AltSuites
    BY <1>5
  <2>. QED  BY <1>1, <2>1, <2>2 DEF Minted
<1>8. ASSUME NEW tag, NEW pin, NEW category, v = W(tag, e, pin, category)
      PROVE  /\ v.env = e /\ v.expected = category /\ v.args.rcpt.who = own
             /\ v.args.expected = pin /\ Minted(v) /\ v.env.tail = "whole"
             /\ v.env.hdr.suite = SuiteOf[own] /\ v.env.hdr.kid = own
             /\ v.env.hdr = h /\ Authenticated(v.env)
  <2>1. /\ e.hdr = h /\ e.tail = "whole"
    BY <1>1
  <2>2. \E who \in PeersOf(SuiteOf[own]) : h.block.pub = Public(who)
    BY <1>2, <1>6 DEF b
  <2>. QED  BY <1>1, <1>2, <1>7, <1>8, <2>1, <2>2 DEF Authenticated
<1>9. ASSUME NEW tag, NEW pin \in {NoBundle, Public(spk)}, v = W(tag, e, pin, "opens")
      PROVE  Proper(v)
  <2>1. /\ v.env = e /\ v.env.hdr = h /\ v.args.rcpt.who = own /\ v.args.expected = pin
        /\ v.env.tail = "whole" /\ v.env.hdr.suite = SuiteOf[own] /\ v.env.hdr.kid = own
        /\ v.expected = "opens" /\ Minted(v) /\ Authenticated(v.env)
    BY <1>8, <1>9
  <2>2. v.env.hdr.block = b
    BY <2>1 DEF b
  <2>3. ~Bound(v.env)
    BY <1>1, <2>1 DEF Bound
  <2>4. VerifiedKid(v.env) = spk
    BY <1>2, <1>5, <1>6, <2>1, <2>2 DEF VerifiedKid
  <2>5. Opens(v.env, v.args)
    <3>1. EffectivePpk(v.env, v.args) = Empty
      BY <2>3 DEF EffectivePpk
    <3>. QED  BY <1>1, <1>2, <2>1, <2>4, <3>1 DEF Opens, AeadOpens, ReadField
  <2>6. Passed(SenderChecks(v.env, v.args))
    <3>1. /\ b.framed /\ b.pub.role = "sig_pub" /\ b.kid = b.pub.who /\ b.pub.who = spk
      BY <1>2, <1>5, <1>6
    <3>2. b.sig = Signature(b.pub.who, <<HandshakeOf(v.env.hdr), b.pub.who>>)
      BY <1>6, <2>1, <3>1 DEF sig
    <3>3. pin = NoBundle \/ (pin.role = "sig_pub" /\ pin.who = b.pub.who)
      BY <1>6, <1>9, <3>1
    <3>. QED  BY <2>1, <2>2, <3>1, <3>2, <3>3, MintedSender
  <2>. QED  BY <2>1, <2>5, <2>6, ReachesOpen
<1>10. CASE v = W("auth_flag_stripped", Rewritten(e, "flags", {}), NoBundle, "aead")
  <2>. DEFINE d == Rewritten(e, "flags", {})
  <2>1. /\ d.tail = "whole" /\ d.sealed = e.sealed /\ d.hdr.magic = h.magic
        /\ d.hdr.version = h.version /\ d.hdr.kid = h.kid /\ d.hdr.flags = {}
        /\ d.hdr.suite = h.suite /\ d.hdr.block = h.block
    BY <1>1, OnlyThatField
  <2>. HIDE DEF d
  <2>2. \E who \in PeersOf(SuiteOf[own]) : d.hdr.block.pub = Public(who)
    BY <1>2, <1>6, <2>1 DEF b
  <2>3. /\ v.env = d /\ v.expected = "aead" /\ v.args.rcpt.who = own
        /\ v.args.expected = NoBundle /\ Minted(v)
    BY <1>1, <1>7, <1>10, <2>1, <2>2 DEF d
  <2>4. Passed(SenderChecks(v.env, v.args))
    BY <2>1, <2>3, MintedAnonymous DEF Authenticated
  <2>5. ~Opens(v.env, v.args)
    <3>1. v.env.hdr # h
      BY <1>2, <2>1, <2>3
    <3>. QED  BY <1>1, <2>1, <2>3, <3>1 DEF Opens, AeadOpens
  <2>. QED  BY <1>1, <2>1, <2>3, <2>4, <2>5, ReachesOpen
<1>11. ASSUME NEW tag, NEW category, NEW f \in {"kid", "pub", "sig"}, NEW x,
              v = W(tag, Block2(f, x), Public(spk), category),
              f = "pub" => \E o \in others : x = Public(o)
       PROVE  /\ v.env.tail = "whole" /\ v.env.hdr.suite = SuiteOf[own]
              /\ v.env.hdr.kid = own /\ v.args.rcpt.who = own
              /\ v.expected = category /\ Minted(v) /\ Authenticated(v.env)
              /\ HandshakeOf(v.env.hdr) = HandshakeOf(h) /\ v.env.hdr.block.framed
              /\ v.env.hdr.block.kid = IF f = "kid" THEN x ELSE spk
              /\ v.env.hdr.block.pub = IF f = "pub" THEN x ELSE Public(spk)
              /\ v.env.hdr.block.sig = IF f = "sig" THEN x ELSE sig
  <2>. DEFINE k == [b EXCEPT ![f] = x]
              d == Rewritten(e, "block", k)
  <2>1. /\ k.framed = b.framed
        /\ k.kid = IF f = "kid" THEN x ELSE b.kid
        /\ k.pub = IF f = "pub" THEN x ELSE b.pub
        /\ k.sig = IF f = "sig" THEN x ELSE b.sig
    BY <1>6, BlockChanged
  <2>. HIDE DEF k
  <2>2. /\ d.tail = "whole" /\ d.hdr.magic = h.magic /\ d.hdr.version = h.version
        /\ d.hdr.kid = h.kid /\ d.hdr.flags = h.flags /\ d.hdr.suite = h.suite
        /\ d.hdr.block = k /\ HandshakeOf(d.hdr) = HandshakeOf(h)
    BY <1>1, OnlyThatField
  <2>3. v = W(tag, d, Public(spk), category)
    BY <1>11 DEF k, Block2
  <2>. HIDE DEF d
  <2>4. \E who \in PeersOf(SuiteOf[own]) : d.hdr.block.pub = Public(who)
    BY <1>2, <1>6, <1>11, <2>1, <2>2
  <2>5. v.env = d /\ v.expected = category /\ v.args.rcpt.who = own /\ Minted(v)
    BY <1>1, <1>7, <2>2, <2>3, <2>4
  <2>6. Authenticated(v.env)
    BY <1>2, <2>2, <2>5 DEF Authenticated
  <2>. QED  BY <1>1, <1>6, <2>1, <2>2, <2>5, <2>6
<1>12. ASSUME NEW tag, NEW x, x # sig,
              v = W(tag, Block2("sig", x), Public(spk), "signature")
       PROVE  Proper(v)
  <2>1. /\ v.env.tail = "whole" /\ v.env.hdr.suite = SuiteOf[own] /\ v.env.hdr.kid = own
        /\ v.args.rcpt.who = own /\ v.expected = "signature" /\ Minted(v)
        /\ Authenticated(v.env) /\ HandshakeOf(v.env.hdr) = HandshakeOf(h)
        /\ v.env.hdr.block.framed /\ v.env.hdr.block.kid = spk
        /\ v.env.hdr.block.pub = Public(spk) /\ v.env.hdr.block.sig = x
    BY <1>11, <1>12
  <2>2. Public(spk).who = spk /\ Public(spk).role = "sig_pub"
    BY <1>2, <1>5
  <2>3. x # Signature(spk, <<HandshakeOf(v.env.hdr), spk>>)
    BY <1>12, <2>1 DEF sig
  <2>4. FirstFailure(SenderChecks(v.env, v.args)) = "signature"
    BY <2>1, <2>2, <2>3, MintedSender
  <2>5. v.expected \in CategoriesOf("signature")
    BY <2>1 DEF CategoriesOf
  <2>. QED  BY <2>1, <2>4, <2>5, SenderVector
<1>13. BadSignature # sig
  <2>1. BadSignature.by = Bad /\ sig.by = spk /\ spk # Bad
    BY <1>2, <1>5 DEF BadSignature, Signature, sig
  <2>. QED  BY <2>1
<1>14. ASSUME NEW tag, NEW f \in {"kid", "pub"}, NEW x,
              v = W(tag, Block2(f, x), Public(spk), "sender_kid"),
              f = "kid" => x = Bad,
              f = "pub" => \E o \in others : x = Public(o)
       PROVE  Proper(v)
  <2>1. /\ v.env.tail = "whole" /\ v.env.hdr.suite = SuiteOf[own] /\ v.env.hdr.kid = own
        /\ v.args.rcpt.who = own /\ v.expected = "sender_kid" /\ Minted(v)
        /\ Authenticated(v.env) /\ v.env.hdr.block.framed
        /\ v.env.hdr.block.kid = IF f = "kid" THEN x ELSE spk
        /\ v.env.hdr.block.pub = IF f = "pub" THEN x ELSE Public(spk)
    BY <1>11, <1>14
  <2>2. /\ v.env.hdr.block.pub.role = "sig_pub"
        /\ v.env.hdr.block.kid # v.env.hdr.block.pub.who
    <3>1. CASE f = "kid"
      BY <1>2, <1>5, <1>14, <2>1, <3>1
    <3>2. CASE f = "pub"
      <4>1. PICK o \in others : x = Public(o)
        BY <1>14, <3>2
      <4>. QED  BY <1>5, <2>1, <3>2, <4>1
    <3>. QED  BY <3>1, <3>2
  <2>3. FirstFailure(SenderChecks(v.env, v.args)) = "sender key-id"
    BY <2>1, <2>2, MintedSender
  <2>4. v.expected \in CategoriesOf("sender key-id")
    BY <2>1 DEF CategoriesOf
  <2>. QED  BY <2>1, <2>3, <2>4, SenderVector
<1>15. ASSUME NEW o \in others, v = W("wrong_sender_pin", e, Public(o), "sender_pin")
       PROVE  Proper(v)
  <2>1. /\ v.env.hdr = h /\ v.args.rcpt.who = own /\ v.args.expected = Public(o)
        /\ v.env.tail = "whole" /\ v.env.hdr.suite = SuiteOf[own] /\ v.env.hdr.kid = own
        /\ v.expected = "sender_pin" /\ Minted(v) /\ Authenticated(v.env)
    BY <1>8, <1>15
  <2>2. v.env.hdr.block = b
    BY <2>1 DEF b
  <2>3. /\ b.framed /\ b.pub.role = "sig_pub" /\ b.kid = b.pub.who /\ b.pub.who = spk
    BY <1>2, <1>5, <1>6
  <2>4. b.sig = Signature(b.pub.who, <<HandshakeOf(v.env.hdr), b.pub.who>>)
    BY <1>6, <2>1, <2>3 DEF sig
  <2>5. Public(o) # NoBundle /\ Public(o).role = "sig_pub" /\ Public(o).who # b.pub.who
    BY <1>5, <2>3
  <2>6. FirstFailure(SenderChecks(v.env, v.args)) = "unexpected sender"
    BY <2>1, <2>2, <2>3, <2>4, <2>5, MintedSender
  <2>7. v.expected \in CategoriesOf("unexpected sender")
    BY <2>1 DEF CategoriesOf
  <2>. QED  BY <2>1, <2>6, <2>7, SenderVector
<1>16. CASE \E o \in others : v = W("sender_pub_swapped", Block2("pub", Public(o)),
                                    Public(spk), "sender_kid")
  BY <1>14, <1>16
<1>17. CASE v = W("sender_kid_mismatch", Block2("kid", Bad), Public(spk), "sender_kid")
  BY <1>14, <1>17
<1>18. CASE v = W("sig_misbinding", Block2("sig", Again(c).hdr.block.sig), Public(spk),
                  "signature")
  BY <1>3, <1>12, <1>18
<1>19. CASE v = W("sig_bitflip", Block2("sig", BadSignature), Public(spk), "signature")
  BY <1>12, <1>13, <1>19
<1>. QED  BY <1>4, <1>9, <1>10, <1>15, <1>16, <1>17, <1>18, <1>19
-----------------------------------------------------------------------------
(* The inductive invariant of the replay: a call that has ended has used   *)
(* the private key just when the four stages passed; a vector under replay *)
(* is what the two decoders were given, and a proper one.                  *)
UsedInv ==
  /\ used \in BOOLEAN
  /\ opc \in {"done", "failed"} => (used <=> AllPassed(env, args))

ReplayedInv ==
  vec # None => opc # "idle" /\ env = vec.env /\ args = vec.args /\ Proper(vec)

PstvInv == SentInv /\ StageInv /\ VerdictInv /\ UsedInv /\ ReplayedInv

(* The generator starts every decoder on a proper vector.                  *)
LEMMA ReplayInv == PstvInv /\ Replay => PstvInv'
<1>. SUFFICES ASSUME PstvInv, Replay PROVE PstvInv'
  OBVIOUS
<1>1. PICK c \in Finished :
        \E v : /\ \/ Anonymous(c) /\ v \in AnonVectors(c)
                  \/ Signed(c) /\ v \in AuthVectors(c)
               /\ vec' = v /\ env' = v.env /\ args' = v.args
  BY DEF Replay
<1>2. PICK v : /\ \/ Anonymous(c) /\ v \in AnonVectors(c)
                  \/ Signed(c) /\ v \in AuthVectors(c)
               /\ vec' = v /\ env' = v.env /\ args' = v.args
  BY <1>1
<1>3. Proper(v)
  BY <1>2, AnonProper, AuthProper DEF PstvInv
<1>4. opc = "idle" /\ opc' = "parse" /\ UNCHANGED <<sent, out, oerr, used, alt>>
  BY DEF Replay
<1>5. SentInv'
  BY <1>4 DEF PstvInv, SentInv, Finished
<1>6. ~used /\ used \in BOOLEAN
  BY <1>4 DEF PstvInv, StageInv, UsedInv
<1>7. StageInv' /\ UsedInv'
  BY <1>4, <1>6 DEF StageInv, UsedInv
<1>8. VerdictInv'
  BY <1>4 DEF PstvInv, VerdictInv
<1>9. ReplayedInv'
  BY <1>2, <1>3, <1>4 DEF ReplayedInv
<1>. QED  BY <1>5, <1>7, <1>8, <1>9 DEF PstvInv

(* One stage uses the private key only after the four checks, and then     *)
(* always.                                                                 *)
LEMMA StepUsed ==
  ASSUME StageInv, UsedInv, DecryptStep
  PROVE  UsedInv'
<1>1. /\ env' = env /\ args' = args
      /\ opc \in {"parse", "key", "sender", "policy", "open"}
  BY DEF DecryptStep, DecryptParse, DecryptKey, DecryptSender, DecryptPolicy,
         Stage, DecryptOpen
<1>2. ~used /\ used \in BOOLEAN
  BY <1>1 DEF StageInv, UsedInv
<1>3. ASSUME NEW next, opc' \in {next, "failed"}, next \notin {"done", "failed"},
             used' = used, opc' = "failed" => ~AllPassed(env, args)
      PROVE  UsedInv'
  BY <1>1, <1>2, <1>3 DEF UsedInv
<1>4. CASE DecryptParse
  BY <1>3, <1>4 DEF DecryptParse, Stage, Passed, AllPassed
<1>5. CASE DecryptKey
  BY <1>3, <1>5 DEF DecryptKey, Stage, Passed, AllPassed
<1>6. CASE DecryptSender
  BY <1>3, <1>6 DEF DecryptSender, Stage, Passed, AllPassed
<1>7. CASE DecryptPolicy
  BY <1>3, <1>7 DEF DecryptPolicy, Stage, Passed, AllPassed
<1>8. CASE DecryptOpen
  <2>1. AllPassed(env, args)
    BY <1>8 DEF DecryptOpen, StageInv, AllPassed
  <2>. QED  BY <1>1, <1>8, <2>1 DEF DecryptOpen, UsedInv
<1>. QED  BY <1>4, <1>5, <1>6, <1>7, <1>8 DEF DecryptStep

(* Every step keeps the invariant of the replay.                           *)
LEMMA StepPstvInv == PstvInv /\ [PstvNext]_pstvVars => PstvInv'
<1>. SUFFICES ASSUME PstvInv, [PstvNext]_pstvVars PROVE PstvInv'
  OBVIOUS
<1>. USE DEF PstvInv
<1>1. CASE Replay
  BY <1>1, ReplayInv
<1>2. CASE Encrypt /\ UNCHANGED <<alt, vec>>
  <2>1. UNCHANGED <<openVars, alt, vec>>
    BY <1>2 DEF Encrypt
  <2>2. SentInv'
    BY <1>2, EncryptSent
  <2>. QED  BY <2>1, <2>2 DEF openVars, StageInv, VerdictInv, UsedInv, ReplayedInv
<1>3. CASE StorageFault /\ UNCHANGED <<alt, vec>>
  <2>1. UNCHANGED <<sent, openVars, alt, vec>>
    BY <1>3 DEF StorageFault, DamageField, FlipFlag, CrossField, Recut, DamageBlock,
                DamageSealed, CrossSealed, Cut, BlockFault, HeaderFault,
                SealedFault, Fault
  <2>. QED  BY <2>1 DEF openVars, SentInv, Finished, StageInv, VerdictInv, UsedInv,
                        ReplayedInv
<1>4. CASE DecryptCall /\ UNCHANGED <<alt, vec>>
  <2>1. /\ opc = "idle" /\ opc' = "parse"
        /\ UNCHANGED <<sent, out, oerr, used, alt, vec>>
    BY <1>4 DEF DecryptCall
  <2>2. vec' = None \/ ~(vec # None)
    BY <2>1 DEF ReplayedInv
  <2>3. ~used
    BY <2>1 DEF StageInv
  <2>. QED  BY <2>1, <2>2, <2>3 DEF SentInv, Finished, StageInv, VerdictInv, UsedInv,
                                    ReplayedInv
<1>5. CASE DecryptStep /\ UNCHANGED <<alt, vec>>
  <2>1. UNCHANGED <<sent, env, args, vec>> /\ opc' # "idle"
    BY <1>5 DEF DecryptStep, DecryptParse, DecryptKey, DecryptSender, DecryptPolicy,
                Stage, DecryptOpen
  <2>2. SentInv' /\ ReplayedInv'
    BY <2>1 DEF SentInv, Finished, ReplayedInv
  <2>. QED  BY <1>5, <2>2, StepStage, StepVerdict, StepUsed
<1>6. CASE OpenEnvelope /\ UNCHANGED vec
  <2>1. UNCHANGED <<sent, opc, env, args, out, oerr, used, vec>>
    BY <1>6 DEF OpenEnvelope, vars, openVars
  <2>2. VerdictInv'
    BY <1>6, <2>1 DEF OpenEnvelope, VerdictInv, AltResult
  <2>. QED  BY <2>1, <2>2 DEF SentInv, Finished, StageInv, UsedInv, ReplayedInv
<1>7. CASE BothReturn /\ vec' = None
  <2>1. /\ opc' = "idle" /\ used' = FALSE /\ out' = None /\ oerr' = "none"
        /\ sent' = sent /\ alt' = None /\ vec' = None
    BY <1>7 DEF BothReturn, DecryptReturn
  <2>. QED  BY <2>1 DEF SentInv, Finished, StageInv, VerdictInv, UsedInv, ReplayedInv
<1>8. CASE UNCHANGED pstvVars
  <2>1. UNCHANGED <<sent, opc, env, args, out, oerr, used, alt, vec>>
    BY <1>8 DEF pstvVars, altVars, vars, openVars
  <2>. QED  BY <2>1 DEF SentInv, Finished, StageInv, VerdictInv, UsedInv, ReplayedInv
<1>. QED  BY <1>1, <1>2, <1>3, <1>4, <1>5, <1>6, <1>7, <1>8 DEF PstvNext

(* Throughout a replay of the corpus (gen_pstv_vectors.py:325-507).        *)
THEOREM PstvInvariance == PstvSpec => []PstvInv
<1>1. AltInit /\ vec = None => PstvInv
  <2>. SUFFICES ASSUME AltInit, vec = None PROVE PstvInv
    OBVIOUS
  <2>1. SentInv /\ StageInv
    BY InitInv DEF AltInit, IInv
  <2>2. VerdictInv /\ UsedInv
    BY DEF AltInit, Init, VerdictInv, UsedInv
  <2>. QED  BY <2>1, <2>2 DEF PstvInv, ReplayedInv
<1>. QED  BY <1>1, StepPstvInv, PTL DEF PstvSpec

(* Both decoders end every vector of the corpus in its category            *)
(* (gen_pstv_vectors.py:97-117, test_pstv.py:284-335).                     *)
THEOREM CorpusVerdicts == PstvSpec => []ExpectedCategory
<1>1. PstvInv => ExpectedCategory
  <2>. SUFFICES ASSUME PstvInv, alt # None, vec # None
                PROVE  /\ vec.expected \in CategoriesOf(oerr)
                       /\ vec.expected \in CategoriesOf(alt.err)
    BY DEF ExpectedCategory
  <2>1. /\ opc \in {"done", "failed"} /\ alt = AltResult(env, args)
        /\ env = vec.env /\ args = vec.args /\ Proper(vec)
    BY DEF PstvInv, VerdictInv, ReplayedInv
  <2>2. /\ alt.err = Verdict(env, args)
        /\ vec.expected \in CategoriesOf(Verdict(env, args))
    <3>1. AltFailure(env, args) = Verdict(env, args)
      BY <2>1, SameTables DEF Proper
    <3>. QED  BY <2>1, <3>1 DEF Proper, AltResult
  <2>3. oerr = Verdict(env, args)
    BY <2>1, StageVerdict DEF PstvInv
  <2>. QED  BY <2>2, <2>3
<1>. QED  BY <1>1, PstvInvariance, PTL

(* A vector meant for the cryptography is the one that reaches it          *)
(* (gen_pstv_vectors.py:245-251, 311-322).                                 *)
THEOREM CorpusReaches == PstvSpec => []ReachesItsLayer
<1>1. PstvInv => ReachesItsLayer
  <2>. SUFFICES ASSUME PstvInv, alt # None, vec # None
                PROVE  used = (vec.expected \in {"aead", "opens"})
    BY DEF ReachesItsLayer
  <2>1. /\ opc \in {"done", "failed"}
        /\ env = vec.env /\ args = vec.args /\ Proper(vec)
    BY DEF PstvInv, VerdictInv, ReplayedInv
  <2>2. used \in BOOLEAN /\ (used <=> AllPassed(env, args))
    BY <2>1 DEF PstvInv, UsedInv
  <2>3. vec.expected \in {"aead", "opens"} <=> AllPassed(env, args)
    BY <2>1 DEF Proper
  <2>. QED  BY <2>2, <2>3
<1>. QED  BY <1>1, PstvInvariance, PTL

-----------------------------------------------------------------------------
(* What is proved of encrypt and decrypt holds where they run beside       *)
(* altcodec, and through a replay of the corpus.                           *)

(* altcodec reads what decrypt was given, and changes nothing of it.       *)
LEMMA AltIsSpec == AltSpec => Spec
<1>1. [AltNext]_altVars => [Next]_vars
  BY DEF AltNext, OpenEnvelope, BothReturn, Next, altVars
<1>2. AltInit => Init
  BY DEF AltInit
<1>. QED  BY <1>1, <1>2, PTL DEF AltSpec, Spec

(* Beside altcodec too, decrypt returns only acceptable messages, and uses *)
(* its private key for the expected sender alone (shield.py:437-497).      *)
THEOREM SafeBesideAlt ==
  AltSpec => [](EnvelopeInv /\ OpensOnlyAcceptable /\ SecretOnlyForSender)
BY AltIsSpec, TypedInvariance, OpenedIsAcceptable, SecretUsedForSender, PTL

(* And the two functions implement EnvelopeTransfer (shield.py:339-503).   *)
THEOREM ImplementsBesideAlt == AltSpec => ImplementsTransfer
BY AltIsSpec, Implements

(* Through the corpus too, an unchanged envelope opens for every caller    *)
(* who accepts it (shield.py:405-503).                                     *)
THEOREM CorpusAcceptable == PstvSpec => []AcceptableOpens
<1>1. PstvInv => AcceptableOpens
  BY AcceptableNotRefused DEF PstvInv
<1>. QED  BY <1>1, PstvInvariance, PTL

(* What altcodec would open is an unchanged envelope of its scope.         *)
Genuine(e, a) ==
  AltFailure(e, a) = "none" =>
    \E c \in Finished : e = sent[c].env /\ AltAcceptable(sent[c].given, a)

(* So it is of whatever the decoders are given, a vector or stored bytes.  *)
ScopeInv == WireInv /\ (opc # "idle" => Genuine(env, args))

(* A vector that opens is its original, given to the reader it is for:     *)
(* of an anonymous envelope, ...                                           *)
LEMMA AnonSibling ==
  ASSUME SentInv, NEW c \in Finished, Anonymous(c), NEW v \in AnonVectors(c),
         v.expected = "opens"
  PROVE  v.env = sent[c].env /\ AltAcceptable(sent[c].given, v.args)
<1>. DEFINE e == sent[c].env
            g == sent[c].given
<1>1. v = Vector("anon", e, g.to, NoBundle, "opens")
  BY DEF AnonVectors, Vector
<1>2. /\ v.env = e /\ v.args = [rcpt |-> [who |-> g.to, role |-> "kem_priv"],
                                expected |-> NoBundle, ppk |-> Empty, policy |-> "unset"]
  BY <1>1 DEF Vector
<1>3. g.from.priv = NoBundle /\ g.ppk = Empty /\ SuiteOf[g.to] \in AltSuites
  <2>1. SuiteOf[g.to] \in Suites /\ g.ppk = Empty /\ g.from = NoPair
    BY DEF Anonymous
  <2>. QED  BY <2>1 DEF NoPair, Suites, SuiteIds, OutOfScopeSuites, AltSuites
<1>. HIDE DEF e, g
<1>4. AltAcceptable(g, v.args)
  BY <1>2, <1>3 DEF AltAcceptable, ForThisKey, SenderAccepted
<1>. QED  BY <1>2, <1>4 DEF e, g

(* ... and of a signed one, with the pin and without.                      *)
LEMMA AuthSibling ==
  ASSUME SentInv, NEW c \in Finished, Signed(c), NEW v \in AuthVectors(c),
         v.expected = "opens"
  PROVE  v.env = sent[c].env /\ AltAcceptable(sent[c].given, v.args)
<1>. DEFINE e == sent[c].env
            g == sent[c].given
            spk == g.from.priv.who
            opened(pin) == /\ v.env = e
                           /\ v.args = [rcpt |-> [who |-> g.to, role |-> "kem_priv"],
                                        expected |-> pin, ppk |-> Empty,
                                        policy |-> "unset"]
<1>1. PICK pin \in {NoBundle, Public(spk)} : opened(pin)
  <2>1. \/ \E tag : v = Vector(tag, e, g.to, Public(spk), "opens")
        \/ \E tag : v = Vector(tag, e, g.to, NoBundle, "opens")
        \/ \E tag, d, pin, category :
             category # "opens" /\ v = Vector(tag, d, g.to, pin, category)
    BY DEF AuthVectors
  <2>2. \A tag, d, pin, category : Vector(tag, d, g.to, pin, category).expected = category
    BY DEF Vector
  <2>. HIDE DEF e, g, spk, opened
  <2>3. \/ \E tag : v = Vector(tag, e, g.to, Public(spk), "opens")
        \/ \E tag : v = Vector(tag, e, g.to, NoBundle, "opens")
    BY <2>1, <2>2
  <2>4. opened(Public(spk)) \/ opened(NoBundle)
    BY <2>3 DEF Vector, opened
  <2>. QED  BY <2>4
<1>2. PICK who \in PeersOf(SuiteOf[g.to]) : g.from = Pair(who)
  BY DEF Signed
<1>3. g.ppk = Empty /\ SuiteOf[g.to] \in AltSuites
  <2>1. SuiteOf[g.to] \in Suites /\ g.ppk = Empty
    BY DEF Signed
  <2>. QED  BY <2>1 DEF Suites, SuiteIds, OutOfScopeSuites, AltSuites
<1>4. /\ spk = who /\ g.from.pub = Public(who) /\ SigSuiteOf[who] = SuiteOf[g.to]
      /\ g.from.pub = [who |-> who, role |-> "sig_pub"]
  BY <1>2 DEF Pair, Public, PeersOf
<1>. HIDE DEF e, g, spk
<1>5. g.from.priv.who = who
  BY <1>4 DEF spk
<1>6. g.from.priv # NoBundle
  <2>1. who # None
    BY EnvelopeAssumption DEF PeersOf
  <2>. QED  BY <1>5, <2>1 DEF NoBundle
<1>7. SenderAccepted(g, v.args)
  BY <1>1, <1>4, <1>5, <1>6 DEF SenderAccepted, SameAlgorithm
<1>8. ForThisKey(g, v.args)
  BY <1>1 DEF ForThisKey
<1>9. AltAcceptable(g, v.args)
  BY <1>3, <1>4, <1>5, <1>7, <1>8 DEF AltAcceptable
<1>. QED  BY <1>1, <1>9 DEF e, g

(* The other vectors altcodec refuses.                                     *)
LEMMA VectorGenuine ==
  ASSUME SentInv, NEW c \in Finished, NEW v,
         \/ Anonymous(c) /\ v \in AnonVectors(c)
         \/ Signed(c) /\ v \in AuthVectors(c)
  PROVE  Genuine(v.env, v.args)
<1>. SUFFICES ASSUME AltFailure(v.env, v.args) = "none"
              PROVE  v.env = sent[c].env /\ AltAcceptable(sent[c].given, v.args)
  BY DEF Genuine
<1>1. Proper(v)
  BY AnonProper, AuthProper
<1>2. Verdict(v.env, v.args) = "none"
  BY <1>1, SameTables DEF Proper
<1>3. v.expected = "opens"
  BY <1>1, <1>2 DEF Proper, CategoriesOf
<1>. QED  BY <1>3, AnonSibling, AuthSibling

(* What is genuine stays so while more is sealed.                          *)
LEMMA GenuineGrows ==
  ASSUME NEW e, NEW a, Genuine(e, a),
         \A c \in Finished : c \in Finished' /\ sent'[c] = sent[c]
  PROVE  AltFailure(e, a) = "none" =>
           \E c \in Finished' : e = sent'[c].env /\ AltAcceptable(sent'[c].given, a)
BY DEF Genuine

(* Every step gives the decoders vectors, or what storage made.            *)
LEMMA StepScopeInv == PstvInv /\ ScopeInv /\ [PstvNext]_pstvVars => ScopeInv'
<1>. SUFFICES ASSUME PstvInv, ScopeInv, [PstvNext]_pstvVars PROVE ScopeInv'
  OBVIOUS
<1>1. SentInv /\ WireInv
  BY DEF PstvInv, ScopeInv
<1>2. ASSUME UNCHANGED <<sent, wire>>, opc' # "idle" => Genuine(env', args')
      PROVE  ScopeInv'
  BY <1>1, <1>2 DEF ScopeInv, Genuine, WireInv, Stored, StoredBytes, GenuineSealed,
                    GenuineSigs, Finished
<1>3. CASE Replay
  <2>1. PICK c \in Finished :
          \E v : /\ \/ Anonymous(c) /\ v \in AnonVectors(c)
                    \/ Signed(c) /\ v \in AuthVectors(c)
                 /\ env' = v.env /\ args' = v.args
    BY <1>3 DEF Replay
  <2>2. Genuine(env', args')
    BY <1>1, <2>1, VectorGenuine
  <2>. QED  BY <1>2, <1>3, <2>2 DEF Replay, storeVars
<1>4. CASE Encrypt
  <2>1. WireInv' /\ UNCHANGED openVars
    BY <1>1, <1>4, EncryptWire DEF Encrypt
  <2>2. opc # "idle" => Genuine(env, args)
    BY DEF ScopeInv
  <2>3. \A c \in Finished : c \in Finished' /\ sent'[c] = sent[c]
    BY <1>1, <1>4, EncryptSent
  <2>. QED  BY <2>1, <2>2, <2>3, GenuineGrows DEF ScopeInv, Genuine, openVars
<1>5. CASE StorageFault
  <2>1. WireInv'
    BY <1>1, <1>5, StorageFaultWire
  <2>2. UNCHANGED <<sent, openVars>>
    BY <1>5 DEF StorageFault, DamageField, FlipFlag, CrossField, Recut, DamageBlock,
                DamageSealed, CrossSealed, Cut, BlockFault, HeaderFault,
                SealedFault, Fault
  <2>. QED  BY <2>1, <2>2 DEF ScopeInv, Genuine, Finished, openVars
<1>6. CASE DecryptCall
  <2>1. PICK c \in Stored, a \in Args : env' = wire[c] /\ args' = a
    BY <1>6 DEF DecryptCall
  <2>2. StoredBytes(wire[c])
    BY <1>1 DEF WireInv
  <2>3. Genuine(env', args')
    BY <1>1, <2>1, <2>2, AltOpensAcceptable DEF Genuine
  <2>. QED  BY <1>2, <1>6, <2>3 DEF DecryptCall, storeVars
<1>7. CASE DecryptStep \/ OpenEnvelope \/ UNCHANGED pstvVars
  <2>1. UNCHANGED <<sent, wire, env, args>> /\ (opc = "idle" => opc' = "idle")
    BY <1>7 DEF DecryptStep, DecryptParse, DecryptKey, DecryptSender, DecryptPolicy,
                Stage, DecryptOpen, OpenEnvelope, pstvVars, altVars, vars, openVars,
                storeVars
  <2>. QED  BY <1>2, <2>1 DEF ScopeInv
<1>8. CASE BothReturn
  <2>1. opc' = "idle" /\ UNCHANGED <<sent, wire>>
    BY <1>8 DEF BothReturn, DecryptReturn, storeVars
  <2>. QED  BY <1>2, <2>1
<1>. QED  BY <1>3, <1>4, <1>5, <1>6, <1>7, <1>8 DEF PstvNext

(* Through the corpus too, altcodec opens exactly its scope: of the        *)
(* vectors the unchanged siblings, each for its own reader                 *)
(* (altcodec.py:124-320, gen_pstv_vectors.py:311-322).                     *)
THEOREM CorpusOpensItsScope == PstvSpec => []AltOpensExactly
<1>1. AltInit => ScopeInv
  BY InitInv DEF AltInit, Init, IInv, ScopeInv
<1>2. PstvInv /\ ScopeInv => AltOpensExactly
  <2>. SUFFICES ASSUME PstvInv, ScopeInv, alt # None PROVE
         /\ alt.err = "none" => \E c \in Finished :
              /\ env = sent[c].env /\ alt.out = sent[c].given.msg
              /\ AltAcceptable(sent[c].given, args)
         /\ \A c \in Finished :
              env = sent[c].env /\ AltAcceptable(sent[c].given, args) =>
                alt.err = "none"
    BY DEF AltOpensExactly
  <2>1. SentInv /\ opc # "idle" /\ alt = AltResult(env, args)
    BY DEF PstvInv, VerdictInv
  <2>2. /\ alt.err = AltFailure(env, args)
        /\ alt.err = "none" => alt.out = env.sealed.plaintext
    BY <2>1 DEF AltResult
  <2>3. ASSUME alt.err = "none"
        PROVE  \E c \in Finished : /\ env = sent[c].env /\ alt.out = sent[c].given.msg
                                   /\ AltAcceptable(sent[c].given, args)
    <3>1. PICK c \in Finished : env = sent[c].env /\ AltAcceptable(sent[c].given, args)
      BY <2>1, <2>2, <2>3 DEF ScopeInv, Genuine
    <3>2. PICK n \in Nonces : env = Envelope(c, sent[c].given, n)
      BY <2>1, <3>1 DEF SentInv
    <3>3. env.sealed.plaintext = sent[c].given.msg
      BY <3>2 DEF Envelope, AeadSeal
    <3>. QED  BY <2>2, <2>3, <3>1, <3>3
  <2>4. \A c \in Finished : env = sent[c].env /\ AltAcceptable(sent[c].given, args) =>
          alt.err = "none"
    BY <2>1, <2>2, AltAcceptableOpens
  <2>. QED  BY <2>3, <2>4
<1>. QED  BY <1>1, <1>2, StepScopeInv, PstvInvariance, PTL DEF PstvSpec
=============================================================================
