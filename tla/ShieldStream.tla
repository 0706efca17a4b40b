---------------------------- MODULE ShieldStream ----------------------------
(***************************************************************************)
(* seal_stream and open_stream of vorlath_shield/shield.py: a plaintext is *)
(* cut into chunks, each sealed under a nonce and associated data that     *)
(* carry its counter and whether it is the last; the sealed chunks travel  *)
(* in one stored stream, which storage and transport may damage; the       *)
(* reader recomputes counter and last-flag from each chunk's position.     *)
(*                                                                         *)
(* One caller seals, one caller opens, and the stored streams in between   *)
(* lose, repeat, reorder, exchange and damage what they hold.  Both calls  *)
(* are functions of their (immutable) arguments; their loops are one       *)
(* action per iteration.                                                   *)
(***************************************************************************)
EXTENDS ShieldCrypto, SequencesExt

CONSTANTS
  Streams,     \* one name per seal_stream call: its fresh eph and encaps
  Byte,        \* byte values that occur in plaintexts
  Messages,    \* the plaintexts callers seal
  ChunkSizes,  \* the chunk_size arguments callers pass, valid or not
  BaseNonces,  \* values os.urandom(7) may return, two calls alike or not
  U32Max,      \* the largest u32: 2^32 - 1 in the code
  TagLen,      \* length of a GCM tag: 16 in the code
  None,        \* Python's None, "no value yet"
  MaxFaults    \* bound on the faults of storage in one behaviour

ASSUME StreamAssumption ==
  /\ Messages \subseteq Seq(Byte)
  /\ ChunkSizes \subseteq Nat
  /\ U32Max \in Nat /\ TagLen \in Nat /\ MaxFaults \in Nat
  /\ None \notin Streams \union Messages

VARIABLES
  spc,     \* where seal_stream is
  cur,     \* the call under way (its fresh randomness)
  pt,      \* plaintext
  to,      \* the recipient whose public bundle was passed
  size,    \* chunk_size
  base,    \* base_nonce
  off,     \* the i of range(0, len(plaintext), chunk_size)
  chunks,  \* the list the comprehension has built so far
  body,    \* the frames appended to out so far
  sent,    \* what each finished call returned, and from what, by call
  wire,    \* the stored copy of each returned stream, by call
  faults,  \* how many times storage has failed
  opc,     \* where open_stream is
  env,     \* its envelope argument
  bundle,  \* its recipient_private_bundle argument
  key,     \* the derived AEAD key
  idx,     \* chunks opened so far
  out,     \* plaintext so far; the value returned when opc = "done"
  oerr,    \* the ValueError raised when opc = "failed"
  used     \* whether the private key has been used in this call

sealVars  == <<spc, cur, pt, to, size, base, off, chunks, body>>
storeVars == <<wire, faults>>
openVars  == <<opc, env, bundle, key, idx, out, oerr, used>>
vars      == <<sealVars, sent, storeVars, openVars>>

-----------------------------------------------------------------------------
(* The wire format.                                                        *)

STREAM_MAGIC == "VRST"
VERSION == 2

(* A key bundle handed to a call: whose it is, and its role byte.          *)
Bundles == [rcpt : Recipients, role : {"kem_pub", "kem_priv"}]

Header(s, r, n, k) ==
  [magic |-> STREAM_MAGIC, version |-> VERSION, suite |-> SuiteOf[r],
   flags |-> 0, kid |-> r, eph |-> EphPublic(SuiteOf[r], s), ct |-> s,
   nonce |-> n, csize |-> k]

(* A stored stream: the header, the whole frames, and how it ends: at a    *)
(* frame boundary, or cut inside a length, a chunk or the header.          *)
Stream(hdr, frames) == [hdr |-> hdr, body |-> frames, tail |-> "whole"]

(* The key of a stream under identity r, from the header's fields.         *)
StreamKey(h, r) ==
  DeriveKey(h.suite, Exchange(r, h.eph), Decaps(r, h.ct),
            PreAuth(h.suite, h.flags, h.kid, h.eph, h.ct, h.nonce),
            Empty, Empty)

(* The counter and the last-flag, and where they go.                       *)
CtrWithoutIndex(i, final) == <<0, final>>
Ctr(i, final) == <<i, final>>

FixedNonce(h, i, final) == <<h.nonce, CtrWithoutIndex(i, final)>>
ChunkNonce(h, i, final) == <<h.nonce, Ctr(i, final)>>

HeaderlessAad(h, i, final) == <<Ctr(i, final)>>
ChunkAad(h, i, final) == <<h, Ctr(i, final)>>

NeverFinal(i, n) == 0
Final(i, n) == IF i = n - 1 THEN 1 ELSE 0

(* Chunk i of n (from 0), sealed by the writer.                            *)
SealCountingFromOne(h, r, i, n, data) ==
  AeadSeal(StreamKey(h, r), ChunkNonce(h, i + 1, Final(i, n)),
           ChunkAad(h, i + 1, Final(i, n)), data)

SealChunkAt(h, r, i, n, data) ==
  AeadSeal(StreamKey(h, r), ChunkNonce(h, i, Final(i, n)),
           ChunkAad(h, i, Final(i, n)), data)

-----------------------------------------------------------------------------
(* seal_stream.                                                            *)

Finished == DOMAIN sent

(* f, with value v for s.                                                  *)
With(f, s, v) == [x \in DOMAIN f \union {s} |-> IF x = s THEN v ELSE f[x]]

(* The call is over: its local values are gone.                            *)
SealEnd(at) ==
  /\ spc' = at
  /\ cur' = None /\ pt' = <<>> /\ to' = None /\ size' = 0 /\ base' = None
  /\ off' = 0 /\ chunks' = <<>> /\ body' = <<>>

SealFail == SealEnd("failed") /\ UNCHANGED <<sent, wire>>

(* The two limits that keep lengths within a u32.                          *)
ChunkSizeOk(k) == 1 <= k /\ k <= U32Max

TooManyAtLimit(n) == n >= U32Max
TooManyChunks(n) == n > U32Max

(* The call: the chunk_size check, the recipient's bundle, the handshake.  *)
SealCall ==
  /\ spc \in {"idle", "failed"}
  /\ \E s \in Streams, m \in Messages, b \in Bundles, k \in ChunkSizes,
        n \in BaseNonces :
       /\ s \notin Finished
       /\ \/ /\ ChunkSizeOk(k)
             /\ b.role = "kem_pub"
             /\ spc' = "split"
             /\ cur' = s /\ pt' = m /\ to' = b.rcpt /\ size' = k /\ base' = n
             /\ off' = 0 /\ chunks' = <<>> /\ body' = <<>>
             /\ UNCHANGED <<sent, wire>>
          \/ /\ ~ChunkSizeOk(k) \/ b.role # "kem_pub"
             /\ SealFail
  /\ UNCHANGED <<faults, openVars>>

(* One step of [plaintext[i:i+chunk_size] for i in range(...)].            *)
SealSplit ==
  /\ spc = "split"
  /\ off < Len(pt)
  /\ chunks' = Append(chunks, SubSeq(pt, off + 1,
                        IF off + size < Len(pt) THEN off + size ELSE Len(pt)))
  /\ off' = off + size
  /\ UNCHANGED <<spc, cur, pt, to, size, base, body, sent, storeVars, openVars>>

(* The list is complete: `or [b""]`, then the check on its length.         *)
SealCount ==
  /\ spc = "split"
  /\ off >= Len(pt)
  /\ LET list == IF chunks = <<>> THEN << <<>> >> ELSE chunks
     IN  \/ /\ ~TooManyChunks(Len(list))
            /\ spc' = "emit"
            /\ chunks' = list
            /\ UNCHANGED <<cur, pt, to, size, base, off, body, sent, wire>>
         \/ /\ TooManyChunks(Len(list))
            /\ SealFail
  /\ UNCHANGED <<faults, openVars>>

(* One iteration of the sealing loop; struct.pack(">I", len(sealed))       *)
(* raises when the sealed chunk is longer than a u32 can say.  After the   *)
(* last chunk the call returns, and the stream is stored.                  *)
SealEmit ==
  /\ spc = "emit"
  /\ LET i   == Len(body)
         h   == Header(cur, to, base, size)
         all == Append(body, SealChunkAt(h, to, i, Len(chunks), chunks[i + 1]))
     IN  \/ /\ Len(chunks[i + 1]) + TagLen > U32Max
            /\ SealFail
         \/ /\ Len(chunks[i + 1]) + TagLen <= U32Max
            /\ Len(all) < Len(chunks)
            /\ body' = all
            /\ UNCHANGED <<spc, cur, pt, to, size, base, off, chunks, sent, wire>>
         \/ /\ Len(chunks[i + 1]) + TagLen <= U32Max
            /\ Len(all) = Len(chunks)
            /\ sent' = With(sent, cur,
                             [pt |-> pt, to |-> to, env |-> Stream(h, all)])
            /\ wire' = With(wire, cur, Stream(h, all))
            /\ SealEnd("idle")
  /\ UNCHANGED <<faults, openVars>>

-----------------------------------------------------------------------------
(* Storage and transport.  A call of open_stream holds its own bytes, so a *)
(* fault during the call is one after it: the faults happen between calls. *)

Fault(s, hdr, frames, tail) ==
  /\ faults < MaxFaults
  /\ opc = "idle"
  /\ faults' = faults + 1
  /\ wire' = [wire EXCEPT ![s] = [hdr |-> hdr, body |-> frames, tail |-> tail]]
  /\ UNCHANGED <<sealVars, sent, openVars>>

FrameFault(s, frames) == Fault(s, wire[s].hdr, frames, wire[s].tail)
HeaderFault(s, hdr) == Fault(s, hdr, wire[s].body, wire[s].tail)

Tails == {"whole", "length", "chunk", "header"}
Stored == DOMAIN wire
Frames(s) == 1..Len(wire[s].body)

LoseFrame == \E s \in Stored : \E i \in Frames(s) :
  FrameFault(s, RemoveAt(wire[s].body, i))

RepeatFrame == \E s \in Stored : \E i \in Frames(s) :
  FrameFault(s, InsertAt(wire[s].body, i, wire[s].body[i]))

SwapFrames == \E s \in Stored : \E i, j \in Frames(s) :
  /\ i < j
  /\ FrameFault(s, [wire[s].body EXCEPT ![i] = wire[s].body[j],
                                        ![j] = wire[s].body[i]])

(* A frame of one stream lands in another (or elsewhere in its own).       *)
CrossFrame == \E s, t \in Stored : \E i \in Frames(s), j \in Frames(t) :
  FrameFault(s, [wire[s].body EXCEPT ![i] = wire[t].body[j]])

DamageFrame == \E s \in Stored : \E i \in Frames(s) :
  FrameFault(s, [wire[s].body EXCEPT ![i] = Bad])

(* The stored bytes end early: n whole frames are left and then nothing,   *)
(* part of a length field, part of a chunk; or part of a header.           *)
Cut == \E s \in Stored : \E n \in 0..Len(wire[s].body), tail \in Tails :
  Fault(s, wire[s].hdr,
        IF tail = "header" THEN <<>> ELSE SubSeq(wire[s].body, 1, n),
        IF wire[s].tail = "header" THEN "header" ELSE tail)

(* A damaged length field: the bytes after it are framed differently.      *)
Reframe == \E s \in Stored : \E i \in Frames(s), tail \in Tails \ {"header"} :
  Fault(s, wire[s].hdr, Append(SubSeq(wire[s].body, 1, i - 1), Bad), tail)

(* A header field is damaged, or is the other stream's field.              *)
DamageHeader == \E s \in Stored : \E f \in DOMAIN wire[s].hdr :
  HeaderFault(s, [wire[s].hdr EXCEPT ![f] = Bad])

CrossHeader == \E s, t \in Stored : \E f \in DOMAIN wire[s].hdr :
  /\ wire[s].hdr[f] # wire[t].hdr[f]
  /\ HeaderFault(s, [wire[s].hdr EXCEPT ![f] = wire[t].hdr[f]])

-----------------------------------------------------------------------------
(* open_stream.                                                            *)

Reject(why) == /\ opc' = "failed"
               /\ oerr' = why
               /\ out' = None
               /\ UNCHANGED <<env, bundle, key, idx>>

OpenCall ==
  /\ opc = "idle"
  /\ \E s \in Stored, b \in Bundles :
       /\ env' = wire[s]
       /\ bundle' = b
  /\ opc' = "parse"
  /\ UNCHANGED <<sealVars, sent, storeVars, key, idx, out, oerr, used>>

(* The checks on the header, in the order the code makes them.             *)
HeaderChecks ==
  << Check("magic", env.hdr.magic = STREAM_MAGIC),
     Check("version", env.hdr.version = VERSION),
     Check("unknown suite", env.hdr.suite \in SuiteIds),
     Check("truncated header", env.tail # "header") >>

OpenParse ==
  /\ opc = "parse"
  /\ \/ /\ FirstFailure(HeaderChecks) = "none"
        /\ opc' = "keys"
        /\ UNCHANGED <<env, bundle, key, idx, out, oerr>>
     \/ /\ FirstFailure(HeaderChecks) # "none"
        /\ Reject(FirstFailure(HeaderChecks))
  /\ UNCHANGED <<sealVars, sent, storeVars, used>>

(* The checks on the private key bundle.                                   *)
KeyChecksWithoutId ==
  << Check("key role", bundle.role = "kem_priv"),
     Check("suite mismatch", SuiteOf[bundle.rcpt] = env.hdr.suite) >>

KeyChecks ==
  << Check("key role", bundle.role = "kem_priv"),
     Check("suite mismatch", SuiteOf[bundle.rcpt] = env.hdr.suite),
     Check("key-id mismatch", env.hdr.kid = bundle.rcpt) >>

OpenKey ==
  /\ opc = "keys"
  /\ \/ /\ FirstFailure(KeyChecks) = "none"
        /\ opc' = "secret"
        /\ UNCHANGED <<env, bundle, key, idx, out, oerr>>
     \/ /\ FirstFailure(KeyChecks) # "none"
        /\ Reject(FirstFailure(KeyChecks))
  /\ UNCHANGED <<sealVars, sent, storeVars, used>>

(* ECDH, decapsulation and the key combiner.  A damaged eph_pub or kem_ct  *)
(* may be one the library refuses (wrong length, invalid point); otherwise *)
(* it yields another secret and another key.                               *)
OpenSecret ==
  /\ opc = "secret"
  /\ used' = TRUE
  /\ \/ /\ opc' = "frames"
        /\ key' = StreamKey(env.hdr, bundle.rcpt)
        /\ UNCHANGED <<env, bundle, idx, out, oerr>>
     \/ /\ Bad \in {env.hdr.eph, env.hdr.ct}
        /\ Reject("bad handshake")
  /\ UNCHANGED <<sealVars, sent, storeVars>>

(* The loop that collects the length-prefixed blobs.                       *)
FrameChecks ==
  << Check("missing chunk length", env.tail # "length"),
     Check("chunk runs past end", env.tail # "chunk"),
     Check("empty stream", env.body # <<>>) >>

OpenFrames ==
  /\ opc = "frames"
  /\ \/ /\ FirstFailure(FrameChecks) = "none"
        /\ opc' = "chunks"
        /\ idx' = 0
        /\ out' = <<>>
        /\ UNCHANGED <<env, bundle, key, oerr>>
     \/ /\ FirstFailure(FrameChecks) # "none"
        /\ Reject(FirstFailure(FrameChecks))
  /\ UNCHANGED <<sealVars, sent, storeVars, used>>

(* A blob that does not open ends the call.                                *)
SkipBadChunk == UNCHANGED <<opc, env, bundle, key, idx, out, oerr>>
BadChunk == Reject("chunk AEAD")

(* One iteration of the opening loop; after the last blob it returns out.  *)
OpenChunk ==
  /\ opc = "chunks"
  /\ LET blob  == env.body[idx + 1]
         final == Final(idx, Len(env.body))
         opens == AeadOpens(key, ChunkNonce(env.hdr, idx, final),
                            ChunkAad(env.hdr, idx, final), blob)
     IN  \/ /\ opens
            /\ out' = out \o blob.plaintext
            /\ idx' = idx + 1
            /\ opc' = IF idx + 1 = Len(env.body) THEN "done" ELSE "chunks"
            /\ UNCHANGED <<env, bundle, key, oerr>>
         \/ /\ ~opens
            /\ BadChunk
  /\ UNCHANGED <<sealVars, sent, storeVars, used>>

(* The caller has the result; it may call again.                           *)
OpenReturn ==
  /\ opc \in {"done", "failed"}
  /\ opc' = "idle"
  /\ env' = None /\ bundle' = None /\ key' = None
  /\ idx' = 0 /\ out' = None /\ oerr' = None /\ used' = FALSE
  /\ UNCHANGED <<sealVars, sent, storeVars>>

-----------------------------------------------------------------------------
Init ==
  /\ spc = "idle"
  /\ cur = None /\ pt = <<>> /\ to = None /\ size = 0 /\ base = None
  /\ off = 0 /\ chunks = <<>> /\ body = <<>>
  /\ sent = <<>> /\ wire = <<>>
  /\ faults = 0
  /\ opc = "idle"
  /\ env = None /\ bundle = None /\ key = None
  /\ idx = 0 /\ out = None /\ oerr = None /\ used = FALSE

SealStep == SealSplit \/ SealCount \/ SealEmit
OpenStep == OpenParse \/ OpenKey \/ OpenSecret \/ OpenFrames \/ OpenChunk
StorageFault == \/ LoseFrame \/ RepeatFrame \/ SwapFrames \/ CrossFrame
                \/ DamageFrame \/ Cut \/ Reframe \/ DamageHeader \/ CrossHeader

Next == SealCall \/ SealStep \/ StorageFault \/ OpenCall \/ OpenStep \/ OpenReturn

-----------------------------------------------------------------------------
(* A Python call that has started runs on to its end.  Nothing obliges a   *)
(* caller to start one, and nothing obliges storage to fail.               *)
Fairness == WF_vars(SealStep) /\ WF_vars(OpenStep)

Safety == Init /\ [][Next]_vars
Spec == Safety /\ Fairness

-----------------------------------------------------------------------------
(* Properties.                                                             *)

(* Type invariant of the variables of both calls and of the store.         *)
TypeOK ==
  /\ spc \in {"idle", "split", "emit", "failed"}
  /\ cur \in Streams \union {None}
  /\ pt \in Seq(Byte)
  /\ to \in Recipients \union {None}
  /\ size \in 0..U32Max
  /\ off \in Nat
  /\ chunks \in Seq(Seq(Byte))
  /\ base \in BaseNonces \union {None}
  /\ Finished \subseteq Streams /\ Stored = Finished
  /\ \A s \in Finished : sent[s].pt \in Messages /\ sent[s].to \in Recipients
  /\ faults \in 0..MaxFaults
  /\ opc \in {"idle", "parse", "keys", "secret", "frames", "chunks", "done", "failed"}
  /\ bundle \in Bundles \union {None}
  /\ idx \in Nat
  /\ used \in BOOLEAN

(* The i-th piece of plaintext m at chunk size k (from 1).                 *)
Piece(m, k, i) ==
  SubSeq(m, (i - 1) * k + 1, IF i * k < Len(m) THEN i * k ELSE Len(m))

(* The n frames that seal m under header h to r.                           *)
SealedFrame(h, r, m, n, i) == SealChunkAt(h, r, i - 1, n, Piece(m, h.csize, i))
SealedFrames(h, r, m, n) == {SealedFrame(h, r, m, n, i) : i \in 1..n}

(* Every frame there is: the sealed ones, and damaged bytes.               *)
Genuine == {Bad} \union
  UNION {{sent[s].env.body[i] : i \in 1..Len(sent[s].env.body)} : s \in Finished}

(* The parts of the inductive invariant.  seal_stream, cutting: what is in *)
(* the list is the plaintext up to off, piece by piece.                    *)
CuttingInv ==
  /\ spc \in {"split", "emit"} =>
       /\ cur \in Streams /\ cur \notin Finished
       /\ to \in Recipients /\ size \in 1..U32Max /\ pt \in Messages
       /\ \A i \in 1..Len(chunks) : /\ (i - 1) * size <= Len(pt)
                                    /\ chunks[i] = Piece(pt, size, i)
  /\ spc = "split" => off = Len(chunks) * size
  /\ spc # "emit" => body = <<>>

(* seal_stream, sealing: the pieces are all of the plaintext, and the      *)
(* frames so far are the first of the final ones.                          *)
SealingInv ==
  spc = "emit" =>
    LET h == Header(cur, to, base, size)
        n == Len(chunks)
    IN  /\ n > 0 /\ Len(pt) <= n * size
        /\ Len(body) < n
        /\ body \in Seq(SealedFrames(h, to, pt, n))
        /\ \A i \in 1..Len(body) : body[i] = SealedFrame(h, to, pt, n, i)

(* A returned stream: the frames of its plaintext, all of them, in order.  *)
SentInv ==
  \A s \in Finished :
    LET e == sent[s].env
        h == e.hdr
        m == sent[s].pt
        n == Len(e.body)
    IN  /\ e = Stream(Header(s, sent[s].to, h.nonce, h.csize), e.body)
        /\ h.csize \in Nat \ {0}
        /\ n > 0 /\ Len(m) <= n * h.csize
        /\ e.body \in Seq(SealedFrames(h, sent[s].to, m, n))
        /\ \A i \in 1..n : /\ (i - 1) * h.csize <= Len(m)
                           /\ e.body[i] = SealedFrame(h, sent[s].to, m, n, i)

(* Storage moves, repeats and damages frames; it does not seal any.        *)
StoredBytes(e) == /\ e = [hdr |-> e.hdr, body |-> e.body, tail |-> e.tail]
                  /\ e.body \in Seq(Genuine)
                  /\ e.tail \in Tails

WireInv == \A s \in Stored : StoredBytes(wire[s])

OpenTypeInv ==
  opc # "idle" =>
    /\ bundle \in Bundles
    /\ StoredBytes(env)
    /\ opc \in {"keys", "secret", "frames", "chunks", "done"} => env.tail # "header"
    /\ opc \in {"frames", "chunks", "done"} =>
         key = StreamKey(env.hdr, bundle.rcpt)

(* open_stream in its loop: what it has opened so far is the beginning of  *)
(* stream s, and out is the beginning of that stream's plaintext.          *)
OpenedFrom(s) ==
  LET e == sent[s].env
      m == sent[s].pt
      k == e.hdr.csize
  IN  /\ env.hdr = e.hdr
      /\ bundle.rcpt = sent[s].to
      /\ idx <= Len(e.body)
      /\ opc = "done" => idx = Len(e.body)
      /\ \A i \in 1..idx : env.body[i] = e.body[i]
      /\ out = SubSeq(m, 1, IF idx * k < Len(m) THEN idx * k ELSE Len(m))

OpeningInv ==
  opc \in {"chunks", "done"} =>
    /\ env.tail = "whole"
    /\ IF opc = "chunks" THEN idx < Len(env.body) ELSE idx = Len(env.body)
    /\ opc = "done" => idx > 0
    /\ idx = 0 => out = <<>>
    /\ idx > 0 => \E s \in Finished : OpenedFrom(s)

(* The inductive invariant: while a stream is opened, out is a prefix of   *)
(* one plaintext and ends at a chunk boundary (shield.py:593-603, 649-658).*)
IInv == /\ CuttingInv /\ SealingInv /\ SentInv /\ WireInv
        /\ OpenTypeInv /\ OpeningInv
StreamInv == TypeOK /\ IInv

(* Whatever storage did, a value that open_stream returns is the plaintext *)
(* of one seal_stream call, whole, opened by the identity it was sealed    *)
(* to, from bytes nobody has changed: never a prefix, a reordering, a      *)
(* repetition or a mixture of two streams (shield.py:598-601, 650-657).    *)
WholeOrNothing ==
  opc = "done" => \E s \in Finished :
    /\ out = sent[s].pt
    /\ bundle.rcpt = sent[s].to
    /\ env = sent[s].env

(* An unchanged stream is refused only because of the key bundle, and then *)
(* before the private key is used: any message length, the empty one and   *)
(* exact multiples of chunk_size included, opens (shield.py:593, 626-630). *)
RefusedOnlyForKey ==
  \A s \in Finished : opc = "failed" /\ env = sent[s].env =>
    /\ bundle # [rcpt |-> sent[s].to, role |-> "kem_priv"]
    /\ oerr \in {"key role", "suite mismatch", "key-id mismatch"}
    /\ ~used

(* No AES-GCM key and nonce pair ever seals two chunks, even when two      *)
(* calls draw the same base_nonce (shield.py:585, 599-601).                *)
Sealed(s) == IF s \in Finished THEN sent[s].env.body
             ELSE IF s = cur THEN body ELSE <<>>

NonceUnique ==
  \A s, t \in Streams : \A i \in 1..Len(Sealed(s)), j \in 1..Len(Sealed(t)) :
    /\ Sealed(s)[i].key = Sealed(t)[j].key
    /\ Sealed(s)[i].nonce = Sealed(t)[j].nonce
    => s = t /\ i = j

(* A call of seal_stream that got past its argument checks fails only when *)
(* the message does not fit the format: more chunks than a u32 counts, or  *)
(* a chunk with its tag longer than a u32 says (shield.py:594, 602).       *)
SealFailsOnlyOversize ==
  [][/\ (spc = "split" /\ spc' = "failed" => U32Max * size < Len(pt))
     /\ (spc = "emit" /\ spc' = "failed" =>
           /\ size + TagLen > U32Max
           /\ Len(pt) + TagLen > U32Max)]_vars

(* A started open_stream call ends (shield.py:637-658: both loops advance).*)
OpenReturns == opc = "parse" ~> opc \in {"done", "failed"}

(* A message that was stored and not damaged reaches its recipient.        *)
Intact(s) == /\ opc = "parse" /\ s \in Finished /\ env = sent[s].env
             /\ bundle = [rcpt |-> sent[s].to, role |-> "kem_priv"]

StreamArrives ==
  \A s \in Streams :
    Intact(s) ~> (opc = "done" /\ s \in Finished /\ out = sent[s].pt)

(* FORMAT.md 8.5: malformed or truncated inputs are rejected before any    *)
(* cryptographic secret is used.  open_stream frames its chunks only after *)
(* ECDH and decapsulation (shield.py:632-647).                             *)
FramingBeforeSecret ==
  opc = "failed" /\ oerr \in {"missing chunk length", "chunk runs past end",
                              "empty stream"} => ~used

(* The two functions implement StreamTransfer.                             *)
Outcome ==
  [phase |-> CASE opc = "idle" -> "idle" [] opc = "done" -> "delivered"
               [] opc = "failed" -> "refused" [] OTHER -> "pending",
   from  |-> IF opc = "done" THEN env.hdr.ct ELSE None,
   msg   |-> IF opc = "done" THEN out ELSE None]

Transfer == INSTANCE StreamTransfer WITH
  sent   <- [s \in Streams |-> IF s \in Finished THEN sent[s].pt ELSE None],
  result <- Outcome

ImplementsTransfer == Transfer!Spec
=============================================================================
