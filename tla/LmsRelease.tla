----------------------------- MODULE LmsRelease -----------------------------
(***************************************************************************)
(* Release signing: release/make_bundle.py writes the manifest, and runs   *)
(* of release/sign_lms.py read it, mint a one-time LMS key, sign the       *)
(* digest, publish signature, key and sidecar, verify, and burn the key.   *)
(* Runs are processes that share files and nothing else: they interleave   *)
(* at every file access and may die between any two of them.               *)
(***************************************************************************)
EXTENDS Naturals

CONSTANTS
  Runs,      \* the executions of sign_lms.py
  Digests,   \* the digests make_bundle.py may compute
  SelfTest,  \* SELFTEST_DIGEST_HEX, the placeholder
  None,      \* a file that does not exist, a value not there yet
  Torn,      \* a file left in the middle of a write, or not parseable
  Odd        \* a manifest whose bundle_digest is not 32 bytes

ASSUME LmsAssumption ==
  /\ SelfTest \notin Digests
  /\ Digests \intersect {None, Torn, Odd} = {}
  /\ SelfTest \notin {None, Torn, Odd}
  /\ {None, Torn} \intersect Runs = {} /\ None # Torn

VARIABLES
  manifest,  \* RELEASE_MANIFEST.json: a digest, Odd, Torn or None
  sums,      \* RELEASE_MANIFEST.sha256
  bpc,       \* where make_bundle.py is
  bundle,    \* the digest it has computed
  built,     \* every digest it has written out whole
  prv,       \* vorlath_release.prv: its key, and q, the next leaf
  pub,       \* vorlath_release.pub: the key
  sigFile,   \* RELEASE_BUNDLE.lms.sig
  pubFile,   \* lms_pub.key
  txtFile,   \* RELEASE_BUNDLE.lms.txt: the digest it names
  pc,        \* where each run is, or how it ended
  opts,      \* its command line
  digest,    \* digest and source, as load_bundle_digest returned them
  source,
  mine,      \* priv: the key and leaf index it holds in memory
  sig,       \* what sign() returned
  pubBytes,  \* what it read from vorlath_release.pub
  signed     \* every signature a leaf has made

buildVars == <<sums, bpc, bundle, built>>
keyFiles  == <<prv, pub>>
outFiles  == <<sigFile, pubFile, txtFile>>
loadVars  == <<opts, digest, source>>
signVars  == <<mine, sig, pubBytes, signed>>
vars == <<manifest, buildVars, keyFiles, outFiles, pc, loadVars, signVars>>

(* No .prv, and no signature: the key of what is not there is None.        *)
NoKey == [key |-> None, q |-> 0]
NoSig(key) == [key |-> key, leaf |-> 0, digest |-> None, good |-> FALSE]

-----------------------------------------------------------------------------
(* make_bundle.py: hash the tree, then write two files, each opened "w".   *)

Build == /\ bpc = "idle"
         /\ \E d \in Digests : bundle' = d
         /\ bpc' = "open"
         /\ UNCHANGED <<manifest, sums, built>>

BuildOpen == /\ bpc = "open"
             /\ manifest' = Torn
             /\ bpc' = "write"
             /\ UNCHANGED <<sums, bundle, built>>

BuildWrite == /\ bpc = "write"
              /\ manifest' = bundle
              /\ built' = built \union {bundle}
              /\ bpc' = "sums"
              /\ UNCHANGED <<sums, bundle>>

BuildSums == /\ bpc = "sums"
             /\ sums' = bundle
             /\ bpc' = "idle" /\ bundle' = None
             /\ UNCHANGED <<manifest, built>>

(* The builder dies; a file it was writing stays as it is.                 *)
BuildCrash == /\ bpc # "idle"
              /\ bpc' = "idle" /\ bundle' = None
              /\ \/ sums' = sums
                 \/ bpc = "sums" /\ sums' = Torn
              /\ UNCHANGED <<manifest, built>>

(* The manifest is git-ignored build output: a clean checkout removes it,  *)
(* and any tool may leave another in its place.                            *)
ManifestLost == /\ \E m \in {None, Torn, Odd} : manifest' = m
                /\ UNCHANGED buildVars

BundleStep ==
  /\ Build \/ BuildOpen \/ BuildWrite \/ BuildSums \/ BuildCrash \/ ManifestLost
  /\ UNCHANGED <<keyFiles, outFiles, pc, loadVars, signVars>>

-----------------------------------------------------------------------------
(* sign_lms.py, run r.                                                     *)

Goto(r, next) == pc' = [pc EXCEPT ![r] = next]

Start(r) ==
  /\ pc[r] = "idle"
  /\ \E keep, require \in BOOLEAN :
       opts' = [opts EXCEPT ![r] = [keep |-> keep, require |-> require]]
  /\ Goto(r, "load")
  /\ UNCHANGED <<manifest, buildVars, keyFiles, outFiles, digest, source, signVars>>

(* load_bundle_digest.                                                     *)
Use(r, d, from) == /\ digest' = [digest EXCEPT ![r] = d]
                   /\ source' = [source EXCEPT ![r] = from]
                   /\ Goto(r, "check")

FallBackAlways(r) == Use(r, SelfTest, "self-test")
FallBack(r) == \/ /\ ~opts[r].require
                  /\ Use(r, SelfTest, "self-test")
               \/ /\ opts[r].require
                  /\ Goto(r, "failed")
                  /\ UNCHANGED <<digest, source>>

Load(r) ==
  /\ pc[r] = "load"
  /\ \/ /\ manifest = None
        /\ FallBack(r)
     \/ /\ manifest # None
        /\ Goto(r, "open")
        /\ UNCHANGED <<digest, source>>
  /\ UNCHANGED <<manifest, buildVars, keyFiles, outFiles, opts, signVars>>

(* A manifest gone since the check raises OSError, which nobody catches.   *)
LoadOpen(r) ==
  /\ pc[r] = "open"
  /\ \/ /\ manifest = Torn
        /\ FallBack(r)
     \/ /\ manifest \in {None, Odd}
        /\ Goto(r, "failed")
        /\ UNCHANGED <<digest, source>>
     \/ /\ manifest \in Digests
        /\ Use(r, manifest, "manifest")
  /\ UNCHANGED <<manifest, buildVars, keyFiles, outFiles, opts, signVars>>

(* The guard against reuse: a pair, or half of one, stops the run.         *)
PairExistsByPub == pub # None
PairExists == prv.key # None \/ pub # None

CheckPair(r) ==
  /\ pc[r] = "check"
  /\ Goto(r, IF PairExists THEN "refused" ELSE "genkey")
  /\ UNCHANGED <<manifest, buildVars, keyFiles, outFiles, loadVars, signVars>>

(* pyhsslms genkey: it refuses an existing pair (FileExistsError), writes  *)
(* the .prv, then the .pub.  Key r is the one run r mints.                 *)
GenKeyReuses(r) ==
  /\ pc[r] = "genkey"
  /\ prv' = IF prv = NoKey THEN [key |-> r, q |-> 0] ELSE prv
  /\ mine' = [mine EXCEPT ![r] = prv']
  /\ Goto(r, "genpub")
  /\ UNCHANGED <<manifest, buildVars, pub, outFiles, loadVars, sig, pubBytes, signed>>

GenKeyClobbers(r) ==
  /\ pc[r] = "genkey"
  /\ prv' = [key |-> r, q |-> 0]
  /\ mine' = [mine EXCEPT ![r] = prv']
  /\ Goto(r, "genpub")
  /\ UNCHANGED <<manifest, buildVars, pub, outFiles, loadVars, sig, pubBytes, signed>>

GenKey(r) ==
  /\ pc[r] = "genkey"
  /\ \/ /\ PairExists
        /\ Goto(r, "failed")
        /\ UNCHANGED <<prv, mine>>
     \/ /\ ~PairExists
        /\ prv' = [key |-> r, q |-> 0]
        /\ mine' = [mine EXCEPT ![r] = [key |-> r, q |-> 0]]
        /\ Goto(r, "genpub")
  /\ UNCHANGED <<manifest, buildVars, pub, outFiles, loadVars, sig, pubBytes, signed>>

GenPub(r) ==
  /\ pc[r] = "genpub"
  /\ pub' = mine[r].key
  /\ Goto(r, "sign")
  /\ UNCHANGED <<manifest, buildVars, prv, outFiles, loadVars, signVars>>

(* pyhsslms sign: the .prv is rewritten with the advanced leaf index, and  *)
(* only then does the leaf sign.                                           *)
AdvanceInMemoryOnly(r) ==
  /\ pc[r] = "sign"
  /\ mine' = [mine EXCEPT ![r] = [key |-> mine[r].key, q |-> mine[r].q + 1]]
  /\ Goto(r, "leaf")
  /\ UNCHANGED <<manifest, buildVars, keyFiles, outFiles, loadVars, sig, pubBytes, signed>>

Advance(r) ==
  /\ pc[r] = "sign"
  /\ mine' = [mine EXCEPT ![r] = [key |-> mine[r].key, q |-> mine[r].q + 1]]
  /\ prv' = [key |-> mine[r].key, q |-> mine[r].q + 1]
  /\ Goto(r, "leaf")
  /\ UNCHANGED <<manifest, buildVars, pub, outFiles, loadVars, sig, pubBytes, signed>>

(* The signature may be a bad one: that is what the round trip is for.     *)
LeafSign(r) ==
  /\ pc[r] = "leaf"
  /\ \E good \in BOOLEAN :
       LET s == [key |-> mine[r].key, leaf |-> mine[r].q - 1,
                 digest |-> digest[r], good |-> good]
       IN  /\ sig' = [sig EXCEPT ![r] = s]
           /\ signed' = signed \union {s}
  /\ Goto(r, "emitSig")
  /\ UNCHANGED <<manifest, buildVars, keyFiles, outFiles, loadVars, mine, pubBytes>>

EmitSig(r) ==
  /\ pc[r] = "emitSig"
  /\ sigFile' = sig[r]
  /\ Goto(r, "readPub")
  /\ UNCHANGED <<manifest, buildVars, keyFiles, pubFile, txtFile, loadVars, signVars>>

(* A .pub that has gone raises OSError.                                    *)
ReadPub(r) ==
  /\ pc[r] = "readPub"
  /\ pubBytes' = [pubBytes EXCEPT ![r] = pub]
  /\ Goto(r, IF pub = None THEN "failed" ELSE "emitPub")
  /\ UNCHANGED <<manifest, buildVars, keyFiles, outFiles, loadVars, mine, sig, signed>>

EmitPub(r) ==
  /\ pc[r] = "emitPub"
  /\ pubFile' = pubBytes[r]
  /\ Goto(r, "verify")
  /\ UNCHANGED <<manifest, buildVars, keyFiles, sigFile, txtFile, loadVars, signVars>>

(* The round trip over the .pub as it is now, and its negative control.    *)
Verifies(key, d, s) == s.good /\ s.key = key /\ s.digest = d

NoVerify(r) ==
  /\ pc[r] = "verify"
  /\ Goto(r, "emitTxt")
  /\ UNCHANGED <<manifest, buildVars, keyFiles, outFiles, loadVars, signVars>>

Verify(r) ==
  /\ pc[r] = "verify"
  /\ Goto(r, IF Verifies(pub, digest[r], sig[r]) THEN "emitTxt" ELSE "unverified")
  /\ UNCHANGED <<manifest, buildVars, keyFiles, outFiles, loadVars, signVars>>

EmitTxt(r) ==
  /\ pc[r] = "emitTxt"
  /\ txtFile' = digest[r]
  /\ Goto(r, "burn")
  /\ UNCHANGED <<manifest, buildVars, keyFiles, sigFile, pubFile, loadVars, signVars>>

(* The spent .prv goes, unless --keep-prv or it cannot be removed, which   *)
(* is only a warning; the last line says which digest was signed.          *)
Burn(r) ==
  /\ pc[r] = "burn"
  /\ \/ prv' = prv
     \/ ~opts[r].keep /\ prv' = NoKey
  /\ Goto(r, IF source[r] = "self-test" THEN "selftest" ELSE "pass")
  /\ UNCHANGED <<manifest, buildVars, pub, outFiles, loadVars, signVars>>

Ended == {"pass", "selftest", "failed", "refused", "unverified", "crashed"}
Live(r) == pc[r] \notin Ended \union {"idle"}

(* A run dies; a file it was writing may be left torn.                     *)
Crash(r) ==
  /\ Live(r)
  /\ Goto(r, "crashed")
  /\ \/ UNCHANGED outFiles
     \/ /\ pc[r] = "emitSig"
        /\ sigFile' = NoSig(Torn)
        /\ UNCHANGED <<pubFile, txtFile>>
     \/ /\ pc[r] = "emitPub"
        /\ pubFile' = Torn
        /\ UNCHANGED <<sigFile, txtFile>>
     \/ /\ pc[r] = "emitTxt"
        /\ txtFile' = Torn
        /\ UNCHANGED <<sigFile, pubFile>>
  /\ UNCHANGED <<manifest, buildVars, keyFiles, loadVars, signVars>>

(* "If this is genuinely a stale demo key, remove BOTH files MANUALLY":    *)
(* the operator does it while no run is under way.                         *)
RemovePair ==
  /\ \A r \in Runs : ~Live(r)
  /\ PairExists
  /\ prv' = NoKey /\ pub' = None
  /\ UNCHANGED <<manifest, buildVars, outFiles, pc, loadVars, signVars>>

RunStep(r) ==
  \/ Start(r) \/ Load(r) \/ LoadOpen(r) \/ CheckPair(r) \/ GenKey(r) \/ GenPub(r)
  \/ Advance(r) \/ LeafSign(r) \/ EmitSig(r) \/ ReadPub(r) \/ EmitPub(r)
  \/ Verify(r) \/ EmitTxt(r) \/ Burn(r) \/ Crash(r)

-----------------------------------------------------------------------------
Init ==
  /\ manifest = None /\ sums = None
  /\ bpc = "idle" /\ bundle = None /\ built = {}
  /\ prv = NoKey /\ pub = None
  /\ sigFile = NoSig(None) /\ pubFile = None /\ txtFile = None
  /\ pc = [r \in Runs |-> "idle"]
  /\ opts = [r \in Runs |-> [keep |-> FALSE, require |-> FALSE]]
  /\ digest = [r \in Runs |-> None]
  /\ source = [r \in Runs |-> None]
  /\ mine = [r \in Runs |-> NoKey]
  /\ sig = [r \in Runs |-> NoSig(None)]
  /\ pubBytes = [r \in Runs |-> None]
  /\ signed = {}

Next == BundleStep \/ RemovePair \/ \E r \in Runs : RunStep(r)

Spec == Init /\ [][Next]_vars

-----------------------------------------------------------------------------
(* Properties.                                                             *)

Before == {"idle", "load", "open", "check", "genkey"}
Holding == {"genpub", "sign", "leaf", "emitSig", "readPub", "emitPub", "verify",
            "emitTxt", "burn"}
Payloads == Digests \union {SelfTest}
PrvFiles == [key : Runs \union {None}, q : Nat]
SigFiles == [key : Runs \union {None, Torn}, leaf : Nat,
             digest : Payloads \union {None}, good : BOOLEAN]

(* Type invariant of the files and of the runs.                            *)
TypeOK ==
  /\ manifest \in Digests \union {None, Torn, Odd}
  /\ sums \in Digests \union {None, Torn}
  /\ bpc \in {"idle", "open", "write", "sums"}
  /\ bundle \in Digests \union {None} /\ (bpc # "idle" => bundle \in Digests)
  /\ built \subseteq Digests
  /\ prv \in PrvFiles /\ pub \in Runs \union {None}
  /\ sigFile \in SigFiles
  /\ pubFile \in Runs \union {None, Torn}
  /\ txtFile \in Payloads \union {None, Torn}
  /\ pc \in [Runs -> Before \union Holding \union Ended]
  /\ opts \in [Runs -> [keep : BOOLEAN, require : BOOLEAN]]
  /\ digest \in [Runs -> Payloads \union {None}]
  /\ source \in [Runs -> {None, "manifest", "self-test"}]
  /\ mine \in [Runs -> PrvFiles]
  /\ sig \in [Runs -> SigFiles]
  /\ pubBytes \in [Runs -> Runs \union {None}]
  /\ signed \subseteq SigFiles

(* The inductive invariant.  A run between its genkey and its end holds    *)
(* the pair on disk, so there is one such run at most.                     *)
HoldsPair ==
  \A r \in Runs : pc[r] \in Holding =>
    /\ prv = [key |-> r, q |-> IF pc[r] \in {"genpub", "sign"} THEN 0 ELSE 1]
    /\ mine[r] = prv
    /\ pc[r] # "genpub" => pub = r

(* A key has signed at most once, with its first leaf, and the .prv, while *)
(* it is there, says so.                                                   *)
SignedOnce ==
  \A s \in signed :
    /\ s.key \in Runs /\ s.leaf = 0
    /\ pc[s.key] \notin Before \union {"genpub", "sign", "leaf"}
    /\ sig[s.key] = s
    /\ prv.key = s.key => prv.q = 1

(* What a run has published so far, and what stays published after it.     *)
Publishing ==
  \A r \in Runs :
    /\ pc[r] \in Holding \ {"genpub", "sign", "leaf"} =>
         sig[r].key = r /\ sig[r].digest = digest[r]
    /\ pc[r] \in {"readPub", "emitPub", "verify", "emitTxt", "burn"} =>
         sigFile = sig[r]
    /\ pc[r] = "emitPub" => pubBytes[r] = r
    /\ pc[r] \in {"verify", "emitTxt", "burn"} => pubFile = r
    /\ pc[r] \in {"emitTxt", "burn"} => sig[r].good
    /\ pc[r] = "burn" => txtFile = digest[r]

(* Once a run has exited 0, the published signature, if it is still that   *)
(* run's, verifies under the published key for the digest the sidecar      *)
(* names, whatever runs crash before, meanwhile and later                  *)
(* (sign_lms.py:182-189, 223-253).                                         *)
PublishedTogether ==
  \A r \in Runs : pc[r] \in {"pass", "selftest"} /\ sigFile.key = r =>
    Verifies(pubFile, txtFile, sigFile)

KeyInv == HoldsPair /\ SignedOnce /\ Publishing /\ PublishedTogether
SignerInv == TypeOK /\ KeyInv

(* No leaf of any key signs twice, with any runs at once, crashes and      *)
(* manual deletions of the pair (sign_lms.py:22-47, 182-218).              *)
LeafOnce == \A s, t \in signed : s.key = t.key /\ s.leaf = t.leaf => s = t

(* Fail closed: a .prv on disk has moved past every leaf that has signed,  *)
(* so a crash at any point burns the leaf (sign_lms.py:28-30, 205-210).    *)
SpentOnDisk == \A s \in signed : prv.key = s.key => prv.q > s.leaf

(* A digest that is signed is one make_bundle wrote out whole, or the      *)
(* placeholder; the placeholder is never signed under --require-manifest,  *)
(* and never reported as PASS (sign_lms.py:124-147, 290-295).              *)
ReleaseDigest ==
  /\ \A s \in signed : /\ s.digest \in built \union {SelfTest}
                       /\ s.digest = SelfTest => ~opts[s.key].require
  /\ \A r \in Runs : pc[r] = "pass" => digest[r] \in built

(* The runs implement OneTimeSigning: a pair is minted only where there is *)
(* none and goes only when its run can sign no more; a release that lies   *)
(* there whole is touched only by a run that holds the pair and has        *)
(* signed; success is reported only over it (sign_lms.py:150-296).         *)
StageOf(p) == CASE p \in Before -> "unborn"
                [] p \in {"genpub", "sign"} -> "fresh"
                [] p = "leaf" -> "spent"
                [] p \in {"pass", "selftest"} -> "passed"
                [] p \in Ended \ {"pass", "selftest"} -> "abandoned"
                [] OTHER -> "signed"
Stage == [r \in Runs |-> StageOf(pc[r])]

Whole == IF Verifies(pubFile, txtFile, sigFile) THEN sigFile.key ELSE None

Signing == INSTANCE OneTimeSigning WITH
  Keys <- Runs, stage <- Stage, held <- prv.key, signatures <- signed, published <- Whole

ImplementsSigning == Signing!Spec

(* lms.Dockerfile:45-50: re-running is safe, each run mints a fresh key.   *)
(* The .pub is never removed, so after one passing run that has shredded   *)
(* its .prv, the guard of sign_lms.py:182 refuses every later one.         *)
RerunMintsFreshKey ==
  \A r \in Runs :
    /\ pc[r] = "check"
    /\ \A t \in Runs \ {r} : pc[t] \in {"idle", "pass", "selftest"}
    /\ prv = NoKey
    => ~PairExists
=============================================================================
