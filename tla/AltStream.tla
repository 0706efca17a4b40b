----------------------------- MODULE AltStream -----------------------------
(***************************************************************************)
(* open_stream of interop/altcodec.py beside open_stream of shield.py, on  *)
(* the same stored bytes and private bundle.                               *)
(***************************************************************************)
EXTENDS ShieldStream

(* No error message is Python's None.                                      *)
ASSUME AltStreamAssumption == None # "bad handshake"

VARIABLE alt  \* what altcodec's open_stream has made of env and bundle, or None

altVars == <<vars, alt>>

-----------------------------------------------------------------------------
AltSuites == {1, 2}

AltHeaderChecks(e) ==
  << Check("magic", e.hdr.magic = "VRST"),
     Check("version", e.hdr.version = 2),
     Check("unknown suite", e.hdr.suite \in AltSuites),
     Check("truncated header", e.tail # "header") >>

AltKeyChecksAnySuite(e, b) ==
  << Check("key role", b.role = "kem_priv"),
     Check("key-id mismatch", b.rcpt = e.hdr.kid) >>
AltKeyChecks(e, b) ==
  << Check("key role", b.role = "kem_priv"),
     Check("suite mismatch", SuiteOf[b.rcpt] = e.hdr.suite),
     Check("key-id mismatch", b.rcpt = e.hdr.kid) >>

(* The loop over the length-prefixed blobs.                                *)
AltFrameChecks(e) ==
  << Check("missing chunk length", e.tail # "length"),
     Check("chunk runs past end", e.tail # "chunk"),
     Check("empty stream", e.body # <<>>) >>

(* _derive_key over _pre_auth_transcript, with no sender.                  *)
AltStreamKey(h, r) ==
  [ikm  |-> <<Exchange(r, h.eph), Decaps(r, h.ct), Empty>>,
   info |-> <<h.suite, <<h.suite, h.flags, h.kid, h.eph, h.ct, h.nonce>>, Empty>>]

(* The counter is the blob's position, and the last-flag says it is last.  *)
AltCtrNoFinal(e, i) == <<i - 1, 0>>
AltCtr(e, i) == <<i - 1, IF i = Len(e.body) THEN 1 ELSE 0>>

AltChunkOpens(e, r, i) ==
  AeadOpens(AltStreamKey(e.hdr, r), <<e.hdr.nonce, AltCtr(e, i)>>,
            <<e.hdr, AltCtr(e, i)>>, e.body[i])

(* Whether the library takes the handshake is a function of the bytes, and *)
(* the same one for both decoders.                                         *)
AltFailure(e, b, handshake) ==
  FirstFailure(AltHeaderChecks(e) \o AltKeyChecks(e, b)
    \o << Check("bad handshake", handshake) >> \o AltFrameChecks(e)
    \o [i \in 1..Len(e.body) |-> Check("chunk AEAD", AltChunkOpens(e, b.rcpt, i))])

AltOpenStream ==
  /\ opc \in {"done", "failed"} /\ alt = None
  /\ alt' = LET why == AltFailure(env, bundle, oerr # "bad handshake")
            IN  [err |-> why,
                 out |-> IF why = "none"
                         THEN FlattenSeq([i \in 1..Len(env.body) |-> env.body[i].plaintext])
                         ELSE None]
  /\ UNCHANGED vars

BothReturn == alt # None /\ OpenReturn /\ alt' = None

-----------------------------------------------------------------------------
AltInit == Init /\ alt = None

AltNext == \/ /\ SealCall \/ SealStep \/ StorageFault \/ OpenCall \/ OpenStep
              /\ UNCHANGED alt
           \/ AltOpenStream
           \/ BothReturn

AltSpec == AltInit /\ [][AltNext]_altVars

-----------------------------------------------------------------------------
(* Properties.                                                             *)

(* Two decoders, one verdict: on every stored stream of a suite in scope,  *)
(* damaged, cut or rearranged, both return the same plaintext or refuse    *)
(* for the same reason, at the same chunk loop (altcodec.py:326-388        *)
(* against shield.py:610-658).                                             *)
SameStreamVerdict ==
  alt # None /\ env.hdr.suite # 3 =>
    /\ alt.out = out
    /\ alt.err = IF opc = "done" THEN "none" ELSE oerr
=============================================================================
