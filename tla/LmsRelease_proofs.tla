------------------------- MODULE LmsRelease_proofs -------------------------
(***************************************************************************)
(* Theorems about LmsRelease, for every set of runs and of digests.        *)
(***************************************************************************)
EXTENDS LmsRelease, TLAPS

USE LmsAssumption

(* The types and the inductive invariant hold initially.                   *)
LEMMA InitInv == Init => TypeOK /\ KeyInv
BY DEF Init, TypeOK, KeyInv, HoldsPair, SignedOnce, Publishing,
   PublishedTogether, NoKey, NoSig, PrvFiles, SigFiles, Payloads, Before,
   Holding, Ended

(* What load_bundle_digest returns or leaves behind has its type.          *)
LEMMA UseTypeOK ==
  ASSUME TypeOK, NEW r \in Runs, NEW d \in Payloads,
         NEW from \in {"manifest", "self-test"}, Use(r, d, from)
  PROVE  /\ digest' \in [Runs -> Payloads \union {None}]
         /\ source' \in [Runs -> {None, "manifest", "self-test"}]
         /\ pc' \in [Runs -> Before \union Holding \union Ended]
<1>1. digest' \in [Runs -> Payloads \union {None}]
  BY DEF TypeOK, Use
<1>2. source' \in [Runs -> {None, "manifest", "self-test"}]
  BY DEF TypeOK, Use
<1>3. pc' \in [Runs -> Before \union Holding \union Ended]
  BY DEF TypeOK, Use, Goto, Before
<1>. QED  BY <1>1, <1>2, <1>3

(* So does the fall-back to the placeholder, or its refusal.               *)
LEMMA FallBackTypeOK ==
  ASSUME TypeOK, NEW r \in Runs, FallBack(r)
  PROVE  /\ digest' \in [Runs -> Payloads \union {None}]
         /\ source' \in [Runs -> {None, "manifest", "self-test"}]
         /\ pc' \in [Runs -> Before \union Holding \union Ended]
<1>1. CASE Use(r, SelfTest, "self-test")
  BY <1>1, UseTypeOK DEF Payloads
<1>2. CASE Goto(r, "failed") /\ UNCHANGED <<digest, source>>
  BY <1>2 DEF TypeOK, Goto, Ended
<1>. QED  BY <1>1, <1>2 DEF FallBack

(* Each step keeps every variable in its type.                             *)
LEMMA StepTypeOK == TypeOK /\ HoldsPair /\ [Next]_vars => TypeOK'
<1>. SUFFICES ASSUME TypeOK, HoldsPair, [Next]_vars PROVE TypeOK'
  OBVIOUS
<1>. USE DEF TypeOK, PrvFiles, SigFiles, Payloads, Before, Holding, Ended,
             buildVars, keyFiles, outFiles, loadVars, signVars
<1>1. CASE BundleStep
  BY <1>1 DEF BundleStep, Build, BuildOpen, BuildWrite, BuildSums, BuildCrash,
     ManifestLost
<1>2. CASE RemovePair
  BY <1>2 DEF RemovePair, NoKey
<1>3. ASSUME NEW r \in Runs, RunStep(r) PROVE TypeOK'
  <2>. USE DEF Goto
  <2>1. CASE Start(r)
    BY <2>1 DEF Start
  <2>2. CASE Load(r)
    <3>1. CASE FallBack(r)
      BY <2>2, <3>1, FallBackTypeOK DEF Load
    <3>2. CASE ~FallBack(r)
      BY <2>2, <3>2 DEF Load
    <3>. QED  BY <3>1, <3>2
  <2>3. CASE LoadOpen(r)
    <3>1. CASE FallBack(r)
      BY <2>3, <3>1, FallBackTypeOK DEF LoadOpen
    <3>2. CASE manifest \in Digests /\ Use(r, manifest, "manifest")
      BY <2>3, <3>2, UseTypeOK DEF LoadOpen
    <3>3. CASE Goto(r, "failed") /\ UNCHANGED <<digest, source>>
      BY <2>3, <3>3 DEF LoadOpen
    <3>. QED  BY <2>3, <3>1, <3>2, <3>3 DEF LoadOpen
  <2>4. CASE CheckPair(r)
    BY <2>4 DEF CheckPair
  <2>5. CASE GenKey(r)
    <3>1. CASE PairExists
      BY <2>5, <3>1 DEF GenKey
    <3>2. CASE ~PairExists
      <4>1. [key |-> r, q |-> 0] \in PrvFiles
        OBVIOUS
      <4>2. PICK k \in PrvFiles : prv' = k /\ mine' = [mine EXCEPT ![r] = k]
        BY <2>5, <3>2, <4>1 DEF GenKey
      <4>3. prv' \in PrvFiles /\ mine' \in [Runs -> PrvFiles]
        BY <4>2
      <4>. QED  BY <2>5, <3>2, <4>3 DEF GenKey
    <3>. QED  BY <3>1, <3>2
  <2>6. CASE GenPub(r)
    BY <2>6 DEF GenPub
  <2>7. CASE Advance(r)
    BY <2>7 DEF Advance
  <2>8. CASE LeafSign(r)
    <3>. DEFINE S(good) == [key |-> mine[r].key, leaf |-> mine[r].q - 1,
                            digest |-> digest[r], good |-> good]
    <3>1. PICK good \in BOOLEAN : /\ sig' = [sig EXCEPT ![r] = S(good)]
                                  /\ signed' = signed \union {S(good)}
      BY <2>8 DEF LeafSign
    <3>2. S(good) \in SigFiles
      <4>1. mine[r].q - 1 = 0
        BY <2>8 DEF LeafSign, HoldsPair
      <4>2. mine[r].key \in Runs \union {None} /\ digest[r] \in Payloads \union {None}
        OBVIOUS
      <4>. QED  BY <3>1, <4>1, <4>2
    <3>3. sig' \in [Runs -> SigFiles] /\ signed' \subseteq SigFiles
      BY <3>1, <3>2
    <3>. QED  BY <2>8, <3>3 DEF LeafSign
  <2>9. CASE EmitSig(r)
    BY <2>9 DEF EmitSig
  <2>10. CASE ReadPub(r)
    BY <2>10 DEF ReadPub
  <2>11. CASE EmitPub(r)
    BY <2>11 DEF EmitPub
  <2>12. CASE Verify(r)
    BY <2>12 DEF Verify
  <2>13. CASE EmitTxt(r)
    BY <2>13 DEF EmitTxt
  <2>14. CASE Burn(r)
    BY <2>14 DEF Burn, NoKey
  <2>15. CASE Crash(r)
    <3>1. NoSig(Torn) \in SigFiles
      BY DEF NoSig
    <3>2. sigFile' \in SigFiles /\ pubFile' \in Runs \union {None, Torn}
          /\ txtFile' \in Payloads \union {None, Torn}
      BY <2>15, <3>1 DEF Crash
    <3>. QED  BY <2>15, <3>2 DEF Crash
  <2>. QED  BY <1>3, <2>1, <2>2, <2>3, <2>4, <2>5, <2>6, <2>7, <2>8, <2>9,
               <2>10, <2>11, <2>12, <2>13, <2>14, <2>15 DEF RunStep
<1>4. CASE UNCHANGED vars
  BY <1>4 DEF vars
<1>. QED  BY <1>1, <1>2, <1>3, <1>4 DEF Next

(* At most one run holds the pair, and then the pair is on disk.           *)
LEMMA OneHolder ==
  ASSUME HoldsPair, NEW r \in Runs, pc[r] \in Holding
  PROVE  /\ PairExists
         /\ \A t \in Runs : pc[t] \in Holding => t = r
BY DEF HoldsPair, PairExists

(* A run that holds the pair keeps it: while the pair is on disk no other  *)
(* run gets past genkey, and nobody removes it.                            *)
LEMMA StepHoldsPair == TypeOK /\ HoldsPair /\ [Next]_vars => HoldsPair'
<1>. SUFFICES ASSUME TypeOK, HoldsPair, [Next]_vars PROVE HoldsPair'
  OBVIOUS
<1>. USE DEF TypeOK, HoldsPair, Holding
<1>1. CASE BundleStep
  BY <1>1 DEF BundleStep, keyFiles, signVars
<1>2. CASE RemovePair
  BY <1>2 DEF RemovePair, Live, Ended
<1>3. ASSUME NEW r \in Runs, RunStep(r) PROVE HoldsPair'
  <2>. USE DEF Goto, keyFiles, signVars
  <2>1. CASE Start(r)
    BY <2>1 DEF Start
  <2>2. CASE Load(r)
    BY <2>2 DEF Load, FallBack, Use
  <2>3. CASE LoadOpen(r)
    BY <2>3 DEF LoadOpen, FallBack, Use
  <2>4. CASE CheckPair(r)
    BY <2>4 DEF CheckPair
  <2>5. CASE GenKey(r)
    BY <2>5, OneHolder DEF GenKey
  <2>6. CASE GenPub(r)
    BY <2>6, OneHolder DEF GenPub
  <2>7. CASE Advance(r)
    BY <2>7, OneHolder DEF Advance
  <2>8. CASE LeafSign(r)
    BY <2>8 DEF LeafSign
  <2>9. CASE EmitSig(r)
    BY <2>9 DEF EmitSig
  <2>10. CASE ReadPub(r)
    BY <2>10 DEF ReadPub
  <2>11. CASE EmitPub(r)
    BY <2>11 DEF EmitPub
  <2>12. CASE Verify(r)
    BY <2>12 DEF Verify
  <2>13. CASE EmitTxt(r)
    BY <2>13 DEF EmitTxt
  <2>14. CASE Burn(r)
    BY <2>14, OneHolder DEF Burn
  <2>15. CASE Crash(r)
    BY <2>15 DEF Crash
  <2>. QED  BY <1>3, <2>1, <2>2, <2>3, <2>4, <2>5, <2>6, <2>7, <2>8, <2>9,
               <2>10, <2>11, <2>12, <2>13, <2>14, <2>15 DEF RunStep
<1>4. CASE UNCHANGED vars
  BY <1>4 DEF vars, keyFiles, signVars
<1>. QED  BY <1>1, <1>2, <1>3, <1>4 DEF Next

(* Only the holder of the pair signs, and only with its first leaf.        *)
LEMMA StepSignedOnce ==
  TypeOK /\ HoldsPair /\ SignedOnce /\ [Next]_vars => SignedOnce'
<1>. SUFFICES ASSUME TypeOK, HoldsPair, SignedOnce, [Next]_vars
              PROVE  SignedOnce'
  OBVIOUS
<1>. USE DEF TypeOK, SignedOnce, Before
<1>1. CASE BundleStep
  BY <1>1 DEF BundleStep, keyFiles, signVars
<1>2. CASE RemovePair
  BY <1>2 DEF RemovePair, NoKey, signVars
<1>3. ASSUME NEW r \in Runs, RunStep(r) PROVE SignedOnce'
  <2>. USE DEF Goto, keyFiles, signVars
  <2>1. CASE Start(r)
    BY <2>1 DEF Start
  <2>2. CASE Load(r)
    BY <2>2 DEF Load, FallBack, Use
  <2>3. CASE LoadOpen(r)
    BY <2>3 DEF LoadOpen, FallBack, Use
  <2>4. CASE CheckPair(r)
    BY <2>4 DEF CheckPair
  <2>5. CASE GenKey(r)
    BY <2>5 DEF GenKey
  <2>6. CASE GenPub(r)
    BY <2>6 DEF GenPub
  <2>7. CASE Advance(r)
    BY <2>7 DEF Advance, HoldsPair, Holding
  <2>8. CASE LeafSign(r)
    BY <2>8 DEF LeafSign, HoldsPair, Holding
  <2>9. CASE EmitSig(r)
    BY <2>9 DEF EmitSig
  <2>10. CASE ReadPub(r)
    BY <2>10 DEF ReadPub
  <2>11. CASE EmitPub(r)
    BY <2>11 DEF EmitPub
  <2>12. CASE Verify(r)
    BY <2>12 DEF Verify
  <2>13. CASE EmitTxt(r)
    BY <2>13 DEF EmitTxt
  <2>14. CASE Burn(r)
    BY <2>14 DEF Burn, NoKey
  <2>15. CASE Crash(r)
    BY <2>15 DEF Crash
  <2>. QED  BY <1>3, <2>1, <2>2, <2>3, <2>4, <2>5, <2>6, <2>7, <2>8, <2>9,
               <2>10, <2>11, <2>12, <2>13, <2>14, <2>15 DEF RunStep
<1>4. CASE UNCHANGED vars
  BY <1>4 DEF vars, keyFiles, signVars
<1>. QED  BY <1>1, <1>2, <1>3, <1>4 DEF Next

(* The published files are the holder's own, step by step.                 *)
LEMMA StepPublishing ==
  TypeOK /\ HoldsPair /\ Publishing /\ [Next]_vars => Publishing'
<1>. SUFFICES ASSUME TypeOK, HoldsPair, Publishing, [Next]_vars
              PROVE  Publishing'
  OBVIOUS
<1>. USE DEF TypeOK, Publishing, Holding
<1>1. CASE BundleStep
  BY <1>1 DEF BundleStep, outFiles, loadVars, signVars
<1>2. CASE RemovePair
  BY <1>2 DEF RemovePair, outFiles, loadVars, signVars
<1>3. ASSUME NEW r \in Runs, RunStep(r) PROVE Publishing'
  <2>. USE DEF Goto, outFiles, loadVars, signVars
  <2>1. CASE Start(r)
    BY <2>1 DEF Start
  <2>2. CASE Load(r)
    BY <2>2 DEF Load, FallBack, Use
  <2>3. CASE LoadOpen(r)
    BY <2>3 DEF LoadOpen, FallBack, Use
  <2>4. CASE CheckPair(r)
    BY <2>4 DEF CheckPair
  <2>5. CASE GenKey(r)
    BY <2>5 DEF GenKey
  <2>6. CASE GenPub(r)
    BY <2>6 DEF GenPub
  <2>7. CASE Advance(r)
    BY <2>7 DEF Advance
  <2>8. CASE LeafSign(r)
    BY <2>8 DEF LeafSign, HoldsPair
  <2>9. CASE EmitSig(r)
    BY <2>9, OneHolder DEF EmitSig
  <2>10. CASE ReadPub(r)
    BY <2>10 DEF ReadPub, HoldsPair
  <2>11. CASE EmitPub(r)
    BY <2>11, OneHolder DEF EmitPub
  <2>12. CASE Verify(r)
    BY <2>12 DEF Verify, Verifies
  <2>13. CASE EmitTxt(r)
    BY <2>13, OneHolder DEF EmitTxt
  <2>14. CASE Burn(r)
    BY <2>14 DEF Burn
  <2>15. CASE Crash(r)
    BY <2>15, OneHolder DEF Crash
  <2>. QED  BY <1>3, <2>1, <2>2, <2>3, <2>4, <2>5, <2>6, <2>7, <2>8, <2>9,
               <2>10, <2>11, <2>12, <2>13, <2>14, <2>15 DEF RunStep
<1>4. CASE UNCHANGED vars
  BY <1>4 DEF vars, outFiles, loadVars, signVars
<1>. QED  BY <1>1, <1>2, <1>3, <1>4 DEF Next

(* A later run that replaces a file replaces the signature first.          *)
LEMMA StepPublishedTogether ==
  TypeOK /\ KeyInv /\ [Next]_vars => PublishedTogether'
<1>. SUFFICES ASSUME TypeOK, KeyInv, [Next]_vars PROVE PublishedTogether'
  OBVIOUS
<1>. USE DEF TypeOK, KeyInv, PublishedTogether, Verifies
<1>1. CASE BundleStep
  BY <1>1 DEF BundleStep, outFiles
<1>2. CASE RemovePair
  BY <1>2 DEF RemovePair, outFiles
<1>3. ASSUME NEW r \in Runs, RunStep(r) PROVE PublishedTogether'
  <2>. USE DEF Goto, outFiles
  <2>1. CASE Start(r)
    BY <2>1 DEF Start
  <2>2. CASE Load(r)
    BY <2>2 DEF Load, FallBack, Use
  <2>3. CASE LoadOpen(r)
    BY <2>3 DEF LoadOpen, FallBack, Use
  <2>4. CASE CheckPair(r)
    BY <2>4 DEF CheckPair
  <2>5. CASE GenKey(r)
    BY <2>5 DEF GenKey
  <2>6. CASE GenPub(r)
    BY <2>6 DEF GenPub
  <2>7. CASE Advance(r)
    BY <2>7 DEF Advance
  <2>8. CASE LeafSign(r)
    BY <2>8 DEF LeafSign
  <2>9. CASE EmitSig(r)
    BY <2>9 DEF EmitSig, Publishing, Holding
  <2>10. CASE ReadPub(r)
    BY <2>10 DEF ReadPub
  <2>11. CASE EmitPub(r)
    BY <2>11 DEF EmitPub, Publishing, Holding
  <2>12. CASE Verify(r)
    BY <2>12 DEF Verify
  <2>13. CASE EmitTxt(r)
    BY <2>13 DEF EmitTxt, Publishing, Holding
  <2>14. CASE Burn(r)
    BY <2>14 DEF Burn, Publishing, Holding
  <2>15. CASE Crash(r)
    BY <2>15 DEF Crash, Publishing, Holding, NoSig
  <2>. QED  BY <1>3, <2>1, <2>2, <2>3, <2>4, <2>5, <2>6, <2>7, <2>8, <2>9,
               <2>10, <2>11, <2>12, <2>13, <2>14, <2>15 DEF RunStep
<1>4. CASE UNCHANGED vars
  BY <1>4 DEF vars, outFiles
<1>. QED  BY <1>1, <1>2, <1>3, <1>4 DEF Next

(* The types and the inductive invariant hold throughout.                  *)
THEOREM Invariance == Spec => [](TypeOK /\ KeyInv)
<1>1. TypeOK /\ KeyInv /\ [Next]_vars => (TypeOK /\ KeyInv)'
  BY StepTypeOK, StepHoldsPair, StepSignedOnce, StepPublishing,
     StepPublishedTogether DEF KeyInv
<1>. QED  BY InitInv, <1>1, PTL DEF Spec

(* Types and invariant as one state predicate (sign_lms.py:150-296).       *)
THEOREM TypedInvariance == Spec => []SignerInv
BY Invariance, PTL DEF SignerInv

(* No leaf signs twice, for any number of runs, at once or one after       *)
(* another, with crashes and manual deletions of the pair.                 *)
THEOREM LeafUsedOnce == Spec => []LeafOnce
<1>1. TypeOK /\ KeyInv => LeafOnce
  BY DEF KeyInv, SignedOnce, LeafOnce
<1>. QED  BY <1>1, Invariance, PTL

(* A .prv on disk has moved past every leaf that has signed.               *)
THEOREM SpentLeafOnDisk == Spec => []SpentOnDisk
<1>1. TypeOK /\ KeyInv => SpentOnDisk
  BY DEF KeyInv, SignedOnce, SpentOnDisk
<1>. QED  BY <1>1, Invariance, PTL

(* The published signature of a run that exited 0 verifies under the       *)
(* published key for the published digest.                                 *)
THEOREM ReleaseVerifies == Spec => []PublishedTogether
BY Invariance, PTL DEF KeyInv

-----------------------------------------------------------------------------
(* Where digests come from: a manifest that parses is one make_bundle      *)
(* wrote out whole, and a run past load_bundle_digest has its digest from  *)
(* there, or the placeholder when it may.                                  *)
Sourced(r) ==
  \/ source[r] = "manifest" /\ digest[r] \in built
  \/ source[r] = "self-test" /\ digest[r] = SelfTest /\ ~opts[r].require

DigestInv ==
  /\ manifest \in Digests => manifest \in built
  /\ \A r \in Runs : pc[r] \in {"check", "genkey"} \union Holding => Sourced(r)
  /\ ReleaseDigest

(* A step keeps it: built only grows, a run sets its digest once, and a    *)
(* run that has signed does not read its command line again.               *)
LEMMA StepDigestInv ==
  TypeOK /\ KeyInv /\ DigestInv /\ [Next]_vars => DigestInv'
<1>. SUFFICES ASSUME TypeOK, HoldsPair, SignedOnce, DigestInv, [Next]_vars
              PROVE  DigestInv'
  BY DEF KeyInv
<1>. USE DEF TypeOK, DigestInv, ReleaseDigest, Sourced
<1>1. CASE BundleStep
  BY <1>1 DEF BundleStep, Build, BuildOpen, BuildWrite, BuildSums, BuildCrash,
     ManifestLost, buildVars, loadVars, signVars
<1>2. CASE RemovePair
  BY <1>2 DEF RemovePair, buildVars, loadVars, signVars
<1>3. ASSUME NEW r \in Runs, RunStep(r) PROVE DigestInv'
  <2>. USE DEF Goto, Holding, buildVars, loadVars, signVars
  <2>1. CASE Start(r)
    BY <2>1 DEF Start, SignedOnce, Before
  <2>2. CASE Load(r)
    <3>1. CASE FallBack(r) /\ ~opts[r].require
      BY <2>2, <3>1 DEF Load, FallBack, Use
    <3>2. CASE UNCHANGED <<digest, source>> /\ pc' \in {[pc EXCEPT ![r] = "open"],
                                                       [pc EXCEPT ![r] = "failed"]}
      BY <2>2, <3>2 DEF Load
    <3>. QED  BY <2>2, <3>1, <3>2 DEF Load, FallBack
  <2>3. CASE LoadOpen(r)
    BY <2>3 DEF LoadOpen, FallBack, Use
  <2>4. CASE CheckPair(r)
    BY <2>4 DEF CheckPair
  <2>5. CASE GenKey(r)
    BY <2>5 DEF GenKey
  <2>6. CASE GenPub(r)
    BY <2>6 DEF GenPub
  <2>7. CASE Advance(r)
    BY <2>7 DEF Advance
  <2>8. CASE LeafSign(r)
    BY <2>8 DEF LeafSign, HoldsPair, Holding
  <2>9. CASE EmitSig(r)
    BY <2>9 DEF EmitSig
  <2>10. CASE ReadPub(r)
    BY <2>10 DEF ReadPub
  <2>11. CASE EmitPub(r)
    BY <2>11 DEF EmitPub
  <2>12. CASE Verify(r)
    BY <2>12 DEF Verify
  <2>13. CASE EmitTxt(r)
    BY <2>13 DEF EmitTxt
  <2>14. CASE Burn(r)
    BY <2>14 DEF Burn
  <2>15. CASE Crash(r)
    BY <2>15 DEF Crash, Live, Ended
  <2>. QED  BY <1>3, <2>1, <2>2, <2>3, <2>4, <2>5, <2>6, <2>7, <2>8, <2>9,
               <2>10, <2>11, <2>12, <2>13, <2>14, <2>15 DEF RunStep
<1>4. CASE UNCHANGED vars
  BY <1>4 DEF vars, buildVars, loadVars, signVars
<1>. QED  BY <1>1, <1>2, <1>3, <1>4 DEF Next

(* What is signed is a digest make_bundle wrote out whole or, without      *)
(* --require-manifest, the placeholder, and PASS is said of no placeholder.*)
THEOREM DigestIsRelease == Spec => []ReleaseDigest
<1>1. Init => DigestInv
  BY DEF Init, DigestInv, ReleaseDigest, Holding
<1>2. TypeOK /\ KeyInv /\ DigestInv /\ [Next]_vars => DigestInv'
  BY StepDigestInv
<1>3. DigestInv => ReleaseDigest
  BY DEF DigestInv
<1>. QED  BY <1>1, <1>2, <1>3, Invariance, PTL DEF Spec

-----------------------------------------------------------------------------
(* What the refinement needs besides: the key on disk is one a run has     *)
(* minted, and a run that has signed is about to publish what it signed.   *)
SignedBy == Holding \ {"genpub", "sign", "leaf"}
Minted == \A r \in Runs : prv.key = r => pc[r] \notin Before
Recorded == \A r \in Runs : pc[r] \in SignedBy => sig[r] \in signed

(* Only the run that mints a key becomes its holder.                       *)
LEMMA StepMinted == TypeOK /\ HoldsPair /\ Minted /\ [Next]_vars => Minted'
<1>. SUFFICES ASSUME TypeOK, HoldsPair, Minted, [Next]_vars PROVE Minted'
  OBVIOUS
<1>. USE DEF TypeOK, Minted, Before
<1>1. CASE BundleStep
  BY <1>1 DEF BundleStep, keyFiles
<1>2. CASE RemovePair
  BY <1>2 DEF RemovePair, NoKey
<1>3. ASSUME NEW r \in Runs, RunStep(r) PROVE Minted'
  <2>. USE DEF Goto, keyFiles
  <2>1. CASE Start(r)
    BY <2>1 DEF Start
  <2>2. CASE Load(r)
    BY <2>2 DEF Load, FallBack, Use
  <2>3. CASE LoadOpen(r)
    BY <2>3 DEF LoadOpen, FallBack, Use
  <2>4. CASE CheckPair(r)
    BY <2>4 DEF CheckPair, PairExists
  <2>5. CASE GenKey(r)
    BY <2>5 DEF GenKey
  <2>6. CASE GenPub(r)
    BY <2>6 DEF GenPub
  <2>7. CASE Advance(r)
    BY <2>7 DEF Advance, HoldsPair, Holding
  <2>8. CASE LeafSign(r)
    BY <2>8 DEF LeafSign
  <2>9. CASE EmitSig(r)
    BY <2>9 DEF EmitSig
  <2>10. CASE ReadPub(r)
    BY <2>10 DEF ReadPub
  <2>11. CASE EmitPub(r)
    BY <2>11 DEF EmitPub
  <2>12. CASE Verify(r)
    BY <2>12 DEF Verify
  <2>13. CASE EmitTxt(r)
    BY <2>13 DEF EmitTxt
  <2>14. CASE Burn(r)
    BY <2>14 DEF Burn, NoKey
  <2>15. CASE Crash(r)
    BY <2>15 DEF Crash
  <2>. QED  BY <1>3, <2>1, <2>2, <2>3, <2>4, <2>5, <2>6, <2>7, <2>8, <2>9,
               <2>10, <2>11, <2>12, <2>13, <2>14, <2>15 DEF RunStep
<1>4. CASE UNCHANGED vars
  BY <1>4 DEF vars, keyFiles
<1>. QED  BY <1>1, <1>2, <1>3, <1>4 DEF Next

(* A run signs and records its signature in one step, and none is lost.    *)
LEMMA StepRecorded == TypeOK /\ Recorded /\ [Next]_vars => Recorded'
<1>. SUFFICES ASSUME TypeOK, Recorded, [Next]_vars PROVE Recorded'
  OBVIOUS
<1>. USE DEF TypeOK, Recorded, SignedBy, Holding
<1>1. CASE BundleStep
  BY <1>1 DEF BundleStep, signVars
<1>2. CASE RemovePair
  BY <1>2 DEF RemovePair, signVars
<1>3. ASSUME NEW r \in Runs, RunStep(r) PROVE Recorded'
  <2>. USE DEF Goto, signVars
  <2>1. CASE Start(r)
    BY <2>1 DEF Start
  <2>2. CASE Load(r)
    BY <2>2 DEF Load, FallBack, Use
  <2>3. CASE LoadOpen(r)
    BY <2>3 DEF LoadOpen, FallBack, Use
  <2>4. CASE CheckPair(r)
    BY <2>4 DEF CheckPair
  <2>5. CASE GenKey(r)
    BY <2>5 DEF GenKey
  <2>6. CASE GenPub(r)
    BY <2>6 DEF GenPub
  <2>7. CASE Advance(r)
    BY <2>7 DEF Advance
  <2>8. CASE LeafSign(r)
    BY <2>8 DEF LeafSign
  <2>9. CASE EmitSig(r)
    BY <2>9 DEF EmitSig
  <2>10. CASE ReadPub(r)
    BY <2>10 DEF ReadPub
  <2>11. CASE EmitPub(r)
    BY <2>11 DEF EmitPub
  <2>12. CASE Verify(r)
    BY <2>12 DEF Verify
  <2>13. CASE EmitTxt(r)
    BY <2>13 DEF EmitTxt
  <2>14. CASE Burn(r)
    BY <2>14 DEF Burn
  <2>15. CASE Crash(r)
    BY <2>15 DEF Crash
  <2>. QED  BY <1>3, <2>1, <2>2, <2>3, <2>4, <2>5, <2>6, <2>7, <2>8, <2>9,
               <2>10, <2>11, <2>12, <2>13, <2>14, <2>15 DEF RunStep
<1>4. CASE UNCHANGED vars
  BY <1>4 DEF vars, signVars
<1>. QED  BY <1>1, <1>2, <1>3, <1>4 DEF Next

(* All that is known of a state a step may start from.                     *)
FullInv == TypeOK /\ KeyInv /\ DigestInv /\ Minted /\ Recorded

(* It holds throughout, from the inductive invariants above together.      *)
LEMMA FullInvariance == Spec => []FullInv
<1>1. Init => FullInv
  <2>1. Init => DigestInv
    BY DEF Init, DigestInv, ReleaseDigest, Holding
  <2>2. Init => Minted /\ Recorded
    BY DEF Init, Minted, Recorded, NoKey, SignedBy, Holding
  <2>. QED  BY InitInv, <2>1, <2>2 DEF FullInv
<1>2. FullInv /\ [Next]_vars => FullInv'
  <2>1. TypeOK /\ KeyInv /\ [Next]_vars => TypeOK' /\ KeyInv'
    BY StepTypeOK, StepHoldsPair, StepSignedOnce, StepPublishing,
       StepPublishedTogether DEF KeyInv
  <2>2. TypeOK /\ KeyInv /\ Minted /\ [Next]_vars => Minted'
    BY StepMinted DEF KeyInv
  <2>. QED  BY <2>1, <2>2, StepDigestInv, StepRecorded DEF FullInv
<1>. QED  BY <1>1, <1>2, PTL DEF Spec

-----------------------------------------------------------------------------
(* The runs implement OneTimeSigning.  First the mapping: which stage each *)
(* place in the program is, and how a run that moves moves its key.        *)
AllPc == Before \union Holding \union Ended

(* Every position of a run belongs to one stage of its key.                *)
LEMMA Stages ==
  /\ \A p \in Before : StageOf(p) = "unborn"
  /\ StageOf("genpub") = "fresh" /\ StageOf("sign") = "fresh"
  /\ StageOf("leaf") = "spent"
  /\ \A p \in SignedBy : StageOf(p) = "signed"
  /\ StageOf("pass") = "passed" /\ StageOf("selftest") = "passed"
  /\ \A p \in Ended \ {"pass", "selftest"} : StageOf(p) = "abandoned"
BY DEF StageOf, Before, Holding, SignedBy, Ended

(* A run that goes to another position takes its key to that one's stage.  *)
LEMMA StageOfRun ==
  /\ \A r \in Runs : Stage[r] = StageOf(pc[r])
  /\ \A r \in Runs : \A p : TypeOK /\ Goto(r, p) => Signing!To(r, StageOf(p))
<1>1. ASSUME NEW r \in Runs PROVE Stage[r] = StageOf(pc[r])
  BY DEF Stage
<1>2. ASSUME NEW r \in Runs, NEW p, TypeOK, Goto(r, p)
      PROVE  Signing!To(r, StageOf(p))
  <2>1. \A t \in Runs : StageOf(pc'[t]) = IF t = r THEN StageOf(p) ELSE StageOf(pc[t])
    BY <1>2 DEF TypeOK, Goto
  <2>2. Stage' = [t \in Runs |-> StageOf(pc'[t])]
    BY DEF Stage
  <2>3. [Stage EXCEPT ![r] = StageOf(p)] =
          [t \in Runs |-> IF t = r THEN StageOf(p) ELSE StageOf(pc[t])]
    BY DEF Stage
  <2>. QED  BY <2>1, <2>2, <2>3 DEF Signing!To
<1>. QED  BY <1>1, <1>2

(* A run that stays in its stage leaves every stage as it is.              *)
LEMMA StageStays ==
  ASSUME TypeOK, NEW r \in Runs, NEW p, Goto(r, p), StageOf(p) = StageOf(pc[r])
  PROVE  Stage' = Stage
<1>1. Stage' = [Stage EXCEPT ![r] = Stage[r]]
  BY StageOfRun DEF Signing!To
<1>. QED  BY <1>1 DEF Stage

(* What lies there whole depends on the three files alone.                 *)
LEMMA WholeKept == UNCHANGED outFiles => Whole' = Whole
BY DEF outFiles, Whole, Verifies

(* A run that ends without success abandons its key.                       *)
LEMMA Abandons ==
  ASSUME TypeOK, NEW r \in Runs, pc[r] \notin Ended,
         NEW p \in Ended \ {"pass", "selftest"}, Goto(r, p),
         UNCHANGED <<prv, signed>>,
         \/ Whole' = Whole
         \/ pc[r] \in SignedBy /\ Whole' = None
  PROVE  Signing!Abandon(r)
<1>1. Signing!To(r, "abandoned")
  BY StageOfRun, Stages
<1>2. Stage[r] \in {"unborn", "fresh", "spent", "signed"}
      /\ (pc[r] \in SignedBy => Stage[r] = "signed")
  <2>1. pc[r] \in Before \union Holding
    BY DEF TypeOK
  <2>2. pc[r] \in Before \union {"genpub", "sign", "leaf"} \union SignedBy
    BY <2>1 DEF SignedBy
  <2>. QED  BY <2>2, Stages, StageOfRun
<1>. QED  BY <1>1, <1>2 DEF Signing!Abandon

(* A run that has signed and writes one of its files publishes, or leaves  *)
(* things as they were: what is whole after it is its own release.         *)
LEMMA Publishes ==
  ASSUME FullInv, NEW r \in Runs, pc[r] \in SignedBy,
         NEW p \in SignedBy, Goto(r, p), UNCHANGED <<prv, signed>>,
         sigFile' = sig[r]
  PROVE  Signing!Publish(r)
<1>1. Stage' = Stage /\ Stage[r] = "signed"
  BY Stages, StageOfRun, StageStays DEF FullInv
<1>2. prv.key = r
  BY DEF FullInv, KeyInv, HoldsPair, SignedBy
<1>3. sig[r] \in signed /\ sig[r].key = r
  BY DEF FullInv, KeyInv, Publishing, Recorded, SignedBy
<1>4. Whole' = None \/ (Whole' = r /\ sig[r].good)
  BY <1>3 DEF Whole, Verifies
<1>5. Whole' = None \/ (Whole' = r /\ \E s \in signed : s.key = r /\ s.good)
  BY <1>3, <1>4
<1>. QED  BY <1>1, <1>2, <1>5 DEF Signing!Publish

Stutters == UNCHANGED <<Stage, prv.key, signed, Whole>>

(* A step that ends in the same stage and writes nothing of it stutters.   *)
LEMMA Stays ==
  ASSUME TypeOK, NEW r \in Runs, NEW p, Goto(r, p), StageOf(p) = StageOf(pc[r]),
         UNCHANGED <<prv, signed, outFiles>>
  PROVE  Stutters
BY StageStays, WholeKept DEF Stutters

(* Up to the genkey a run has no key: it goes on, or gives up.             *)
LEMMA EarlyRefines ==
  ASSUME FullInv, NEW r \in Runs,
         Start(r) \/ Load(r) \/ LoadOpen(r) \/ CheckPair(r)
  PROVE  Signing!Abandon(r) \/ Stutters
<1>1. pc[r] \in Before /\ pc[r] \notin Ended
  BY DEF Start, Load, LoadOpen, CheckPair, Before, Ended
<1>2. UNCHANGED <<prv, signed, outFiles>>
  BY DEF Start, Load, LoadOpen, CheckPair, keyFiles, signVars
<1>3. \/ \E p \in Before : Goto(r, p)
      \/ \E p \in {"failed", "refused"} : Goto(r, p)
  BY DEF Start, Load, LoadOpen, CheckPair, FallBack, Use, Before
<1>4. CASE \E p \in Before : Goto(r, p)
  BY <1>1, <1>2, <1>4, Stages, Stays DEF FullInv
<1>5. CASE \E p \in {"failed", "refused"} : Goto(r, p)
  BY <1>1, <1>2, <1>5, WholeKept, Abandons DEF FullInv, Ended
<1>. QED  BY <1>3, <1>4, <1>5

(* genkey mints the run's key where there is no pair.                      *)
LEMMA GenKeyRefines ==
  ASSUME FullInv, NEW r \in Runs, GenKey(r)
  PROVE  Signing!Mint(r) \/ Signing!Abandon(r)
<1>1. pc[r] \in Before /\ pc[r] \notin Ended /\ signed' = signed /\ Whole' = Whole
  BY WholeKept DEF GenKey, Before, Ended
<1>2. CASE PairExists
  BY <1>1, <1>2, Abandons DEF FullInv, GenKey, Ended
<1>3. CASE ~PairExists
  <2>1. prv.key = None /\ prv'.key = r /\ Goto(r, "genpub")
    BY <1>3 DEF GenKey, PairExists
  <2>2. Signing!To(r, "fresh") /\ Stage[r] = "unborn"
    BY <1>1, <2>1, StageOfRun, Stages DEF FullInv
  <2>. QED  BY <1>1, <2>1, <2>2 DEF Signing!Mint
<1>. QED  BY <1>2, <1>3

(* The leaf index moves on disk: the key is spent.                         *)
LEMMA AdvanceRefines ==
  ASSUME FullInv, NEW r \in Runs, Advance(r)
  PROVE  Signing!Spend(r)
<1>1. Goto(r, "leaf") /\ pc[r] = "sign" /\ signed' = signed /\ Whole' = Whole
  BY WholeKept DEF Advance
<1>2. prv.key = r /\ prv'.key = r
  BY <1>1 DEF Advance, FullInv, KeyInv, HoldsPair, Holding
<1>3. Signing!To(r, "spent") /\ Stage[r] = "fresh"
  BY <1>1, StageOfRun, Stages DEF FullInv
<1>. QED  BY <1>1, <1>2, <1>3 DEF Signing!Spend

(* The first leaf signs the digest the run has loaded.                     *)
LEMMA LeafSignRefines ==
  ASSUME FullInv, NEW r \in Runs, LeafSign(r)
  PROVE  Signing!Sign(r)
<1>1. Goto(r, "emitSig") /\ pc[r] = "leaf" /\ prv' = prv /\ Whole' = Whole
  BY WholeKept DEF LeafSign, keyFiles
<1>2. prv.key = r /\ mine[r].key = r /\ mine[r].q - 1 = 0
  BY <1>1 DEF FullInv, KeyInv, HoldsPair, Holding
<1>3. digest[r] \in Payloads
  BY <1>1 DEF FullInv, DigestInv, Sourced, TypeOK, Payloads, Holding
<1>4. \E good \in BOOLEAN :
        signed' = signed \union
                    {[key |-> r, leaf |-> 0, digest |-> digest[r], good |-> good]}
  BY <1>2 DEF LeafSign
<1>5. Signing!To(r, "signed") /\ Stage[r] = "spent"
  BY <1>1, StageOfRun, Stages DEF FullInv, SignedBy, Holding
<1>. QED  BY <1>1, <1>2, <1>3, <1>4, <1>5 DEF Signing!Sign

(* A run that reads or checks goes on in its stage, or gives its key up.   *)
LEMMA ReadRefines ==
  ASSUME FullInv, NEW r \in Runs, GenPub(r) \/ ReadPub(r) \/ Verify(r)
  PROVE  Signing!Abandon(r) \/ Stutters
<1>1. UNCHANGED <<prv, signed, outFiles>> /\ TypeOK
  BY DEF GenPub, ReadPub, Verify, keyFiles, signVars, FullInv
<1>2. CASE GenPub(r)
  BY <1>1, <1>2, Stays, Stages DEF GenPub
<1>3. CASE ReadPub(r) \/ Verify(r)
  <2>1. pc[r] \in SignedBy /\ pc[r] \notin Ended
    BY <1>3 DEF ReadPub, Verify, SignedBy, Holding, Ended
  <2>2. \/ \E p \in SignedBy : Goto(r, p)
        \/ \E p \in {"failed", "unverified"} : Goto(r, p)
    BY <1>3 DEF ReadPub, Verify, SignedBy, Holding
  <2>3. CASE \E p \in SignedBy : Goto(r, p)
    BY <1>1, <2>1, <2>3, Stays, Stages
  <2>4. CASE \E p \in {"failed", "unverified"} : Goto(r, p)
    BY <1>1, <2>1, <2>4, WholeKept, Abandons DEF Ended
  <2>. QED  BY <2>2, <2>3, <2>4
<1>. QED  BY <1>2, <1>3

(* Signature, key and sidecar are written one after the other.             *)
LEMMA EmitRefines ==
  ASSUME FullInv, NEW r \in Runs, EmitSig(r) \/ EmitPub(r) \/ EmitTxt(r)
  PROVE  Signing!Publish(r)
<1>1. UNCHANGED <<prv, signed>> /\ pc[r] \in SignedBy
  BY DEF EmitSig, EmitPub, EmitTxt, keyFiles, signVars, SignedBy, Holding
<1>2. \E p \in SignedBy : Goto(r, p)
  BY DEF EmitSig, EmitPub, EmitTxt, SignedBy, Holding
<1>3. sigFile' = sig[r]
  BY DEF EmitSig, EmitPub, EmitTxt, FullInv, KeyInv, Publishing
<1>. QED  BY <1>1, <1>2, <1>3, Publishes

(* Success is said over a release that lies there whole.                   *)
LEMMA BurnRefines ==
  ASSUME FullInv, NEW r \in Runs, Burn(r)
  PROVE  Signing!Pass(r)
<1>1. pc[r] = "burn" /\ pc[r] \in SignedBy /\ signed' = signed /\ Whole' = Whole
  BY WholeKept DEF Burn, signVars, SignedBy, Holding
<1>2. prv.key = r /\ prv'.key \in {None, r}
  BY <1>1 DEF Burn, NoKey, FullInv, KeyInv, HoldsPair, SignedBy
<1>3. Whole = r
  BY <1>1 DEF FullInv, KeyInv, Publishing, SignedBy, Whole, Verifies
<1>4. Goto(r, "selftest") \/ Goto(r, "pass")
  BY DEF Burn
<1>5. Signing!To(r, "passed") /\ Stage[r] = "signed"
  BY <1>1, <1>4, StageOfRun, Stages DEF FullInv
<1>. QED  BY <1>1, <1>2, <1>3, <1>5 DEF Signing!Pass

(* A run that dies gives its key up; a file it leaves torn leaves nothing  *)
(* whole.                                                                  *)
LEMMA CrashRefines ==
  ASSUME FullInv, NEW r \in Runs, Crash(r)
  PROVE  Signing!Abandon(r)
<1>1. /\ pc[r] \notin Ended /\ Goto(r, "crashed") /\ UNCHANGED <<prv, signed>>
      /\ "crashed" \in Ended \ {"pass", "selftest"}
  BY DEF Crash, Live, Ended, keyFiles, signVars
<1>2. CASE UNCHANGED outFiles
  BY <1>1, <1>2, WholeKept, Abandons DEF FullInv
<1>3. CASE ~UNCHANGED outFiles
  <2>1. pc[r] \in {"emitSig", "emitPub", "emitTxt"} /\ pc[r] \in SignedBy
    BY <1>3 DEF Crash, SignedBy, Holding
  <2>2. Whole' = None
    <3>1. CASE sigFile' = NoSig(Torn)
      BY <3>1 DEF Whole, Verifies, NoSig
    <3>2. CASE pubFile' = Torn /\ sigFile' = sigFile /\ pc[r] = "emitPub"
      <4>1. sigFile.key = r
        BY <2>1, <3>2 DEF FullInv, KeyInv, Publishing, SignedBy
      <4>. QED  BY <3>2, <4>1 DEF Whole, Verifies
    <3>3. CASE txtFile' = Torn /\ sigFile' = sigFile /\ pc[r] = "emitTxt"
      <4>1. sigFile.digest \in Payloads \union {None}
        BY DEF FullInv, TypeOK, SigFiles
      <4>. QED  BY <3>3, <4>1 DEF Whole, Verifies, Payloads
    <3>. QED  BY <1>3, <3>1, <3>2, <3>3 DEF Crash
  <2>. QED  BY <1>1, <2>1, <2>2, Abandons DEF FullInv
<1>. QED  BY <1>2, <1>3

(* The operator removes a pair when no run is under way: its key was given *)
(* up, or has passed.                                                      *)
LEMMA RemoveRefines ==
  ASSUME FullInv, RemovePair
  PROVE  Signing!Remove \/ Stutters
<1>1. prv'.key = None /\ UNCHANGED <<Stage, signed, Whole>>
  BY WholeKept DEF RemovePair, NoKey, signVars, Stage
<1>2. CASE prv.key = None
  BY <1>1, <1>2 DEF Stutters
<1>3. CASE prv.key # None
  <2>. DEFINE r == prv.key
  <2>1. r \in Runs
    BY <1>3 DEF FullInv, TypeOK, PrvFiles
  <2>2. pc[r] \in Ended
    BY <2>1 DEF FullInv, Minted, Before, RemovePair, Live
  <2>3. Stage[r] \in {"passed", "abandoned"}
    BY <2>1, <2>2, Stages, StageOfRun
  <2>. QED  BY <1>1, <1>3, <2>3 DEF Signing!Remove
<1>. QED  BY <1>2, <1>3

(* A step of the runs is a step of OneTimeSigning, or one it does not see. *)
LEMMA StepRefines == FullInv /\ [Next]_vars => Signing!Next \/ Stutters
<1>. SUFFICES ASSUME FullInv, [Next]_vars PROVE Signing!Next \/ Stutters
  OBVIOUS
<1>1. CASE BundleStep
  BY <1>1, WholeKept DEF BundleStep, keyFiles, signVars, Stutters, Stage
<1>2. CASE RemovePair
  BY <1>2, RemoveRefines DEF Signing!Next
<1>3. ASSUME NEW r \in Runs, RunStep(r) PROVE Signing!Next \/ Stutters
  <2>1. CASE Start(r) \/ Load(r) \/ LoadOpen(r) \/ CheckPair(r)
    BY <2>1, EarlyRefines DEF Signing!Next
  <2>2. CASE GenKey(r)
    BY <2>2, GenKeyRefines DEF Signing!Next
  <2>3. CASE Advance(r)
    BY <2>3, AdvanceRefines DEF Signing!Next
  <2>4. CASE LeafSign(r)
    BY <2>4, LeafSignRefines DEF Signing!Next
  <2>5. CASE GenPub(r) \/ ReadPub(r) \/ Verify(r)
    BY <2>5, ReadRefines DEF Signing!Next
  <2>6. CASE EmitSig(r) \/ EmitPub(r) \/ EmitTxt(r)
    BY <2>6, EmitRefines DEF Signing!Next
  <2>7. CASE Burn(r)
    BY <2>7, BurnRefines DEF Signing!Next
  <2>8. CASE Crash(r)
    BY <2>8, CrashRefines DEF Signing!Next
  <2>. QED  BY <1>3, <2>1, <2>2, <2>3, <2>4, <2>5, <2>6, <2>7, <2>8 DEF RunStep
<1>4. CASE UNCHANGED vars
  BY <1>4, WholeKept DEF vars, keyFiles, signVars, Stutters, Stage
<1>. QED  BY <1>1, <1>2, <1>3, <1>4 DEF Next

(* Nothing is minted, held or published to begin with.                     *)
LEMMA InitRefines == Init => Signing!Init
<1>. SUFFICES ASSUME Init PROVE Signing!Init
  OBVIOUS
<1>1. Stage = [r \in Runs |-> "unborn"]
  BY Stages DEF Init, Stage, Before
<1>2. prv.key = None /\ signed = {} /\ Whole = None
  BY DEF Init, NoKey, NoSig, Whole, Verifies
<1>. QED  BY <1>1, <1>2 DEF Signing!Init

(* The runs, at once, crashing anywhere and with pairs removed by hand,    *)
(* implement OneTimeSigning (sign_lms.py:150-296).                         *)
THEOREM ImplementsOneTimeSigning == Spec => ImplementsSigning
<1>1. FullInv /\ [Next]_vars =>
        [Signing!Next]_<<Stage, prv.key, signed, Whole>>
  BY StepRefines DEF Stutters
<1>. QED  BY InitRefines, FullInvariance, <1>1, PTL
          DEF Spec, ImplementsSigning, Signing!Spec
=============================================================================
