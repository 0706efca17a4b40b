# VORLATH Shield in TLA+

Models, model checking and proofs of the parts of this repository whose
correctness rests on order, position and state: the encryption formats, key
bundles and signatures of `vorlath_shield/`, its command line, the release
signing of `release/`, and the second decoder, the vector corpus and the
cross-validation of `interop/`. Paths below are relative to the root of the
repository. Where line numbers stand alone they are of `shield.py` (ShieldStream,
ShieldEnvelope, KeyBundle), `release/sign_lms.py` (LmsRelease) or the source file
that the section names.

## The system

| Component | State it keeps | Operations | What makes it correct |
|---|---|---|---|
| Streaming encryption, `shield.py:565-658` | none between calls; inside a call the list of chunks, the counter, the plaintext so far. The stream is stored by the caller | `seal_stream`, `open_stream` | what is opened is one sealed message, whole; no nonce repeats under a key; whatever fits the format opens; calls end |
| Single-shot envelope, `shield.py:339-561` | none between calls | `encrypt`, `decrypt`, `encrypt_authenticated`, `decrypt_authenticated`, `encrypt_classical_only` | a recipient's PPK policy is never relaxed; the sender a reader accepts is the sender who signed; checks come before secrets |
| Key bundles, `shield.py:205-303` | byte strings with magic, version, suite, role, key-id, parts | `_tlv`, `_read_tlv`, `_serialize_key`, `_parse_key`, `generate_*_keys`, `kem_key_id`, `sig_key_id`, `suite_of` | parse inverts serialize; one encoding; a public key-id is a fingerprint of the key it comes with |
| Signatures, `shield.py:528-542`, `highassurance.py` | none | `sign`/`verify`, `high_assurance_*`, `ec_*`, `dual_*`, `triple_*` | framing is injective; every leg is checked; a verdict, never an exception |
| Command line, `__main__.py` | key files, envelope, output and signature files | `keygen`, `encrypt`, `decrypt`, `sign`, `verify`, `info`, `demo` | private keys are private; what is opened or verified was sealed or signed |
| Release signing, `release/make_bundle.py`, `release/sign_lms.py` | manifest, key pair (`.prv` with its leaf index, `.pub`), three published files | build the manifest; load digest, mint key, sign once, publish, verify, burn | no leaf signs twice; state on disk is ahead of every signature; what is published belongs together; a placeholder is never taken for a release |
| Independent decoder, `interop/altcodec.py` | none | `open_envelope`, `open_stream` | same verdicts as `shield.py` in its scope, and no more than its scope |
| Vector corpus, `interop/gen_pstv_vectors.py`, `test_pstv.py` | a JSON file | generate, replay | each mutation reaches the layer it is meant for and ends in its category in both decoders |
| Cross-validation, `interop/cross_impl.py` | a seeded generator, results per pair | rounds of comparisons, an exit status | the status tells of every disagreement; nothing goes uncompared |
| Timing, SBOM and CBOM, KAT and ACVP data, protocol proofs | report files | one-shot generators | not modelled, see the end |

How they interact: the command line calls `shield.py` and keeps its results in
files, which other processes of it may be rewriting. `seal_stream` and
`open_stream` never run against shared memory; they meet through stored bytes.
`altcodec.py` shares only the wire format, and the corpus puts the same bytes
before both decoders. `make_bundle.py` and runs of `sign_lms.py` are separate
processes that share a directory and nothing else, so they interleave at every
file access.

What is hard to test: storage that moves chunks about (a test damages one byte,
or swaps one pair); the boundaries of lengths and counters; two processes on the
same files; a crash between any two file operations; a run after a run; two
decoders on bytes that nobody thought of. The `hazards` of `PROJECT.json` list
these at their lines, each with the properties that would catch it.

## Modules

| Module | What it is |
|---|---|
| `Parsing` | a parser as a table of checks in the code's order, and the error it raises |
| `ShieldCrypto` | the suites, transcript and key combiner of `shield.py` and the ideal primitives under them, as terms |
| `ShieldStream` | `seal_stream`, `open_stream`, and the storage between them |
| `StreamTransfer` | what the two calls promise: a call that opens returns one sent message, whole, or refuses |
| `AltStream` | composes `ShieldStream` with altcodec's `open_stream`, on the same stored bytes |
| `PstvStreams` | composes `AltStream` with the stream vectors of the corpus |
| `ShieldEnvelope` | `encrypt`, `decrypt` and the storage between them; sender signatures, PPK policy |
| `EnvelopeTransfer` | what these two promise: a call that opens returns one sealed message to a caller whose demands it meets, or refuses |
| `AltCodec` | composes `ShieldEnvelope` with altcodec's `open_envelope` |
| `PstvEnvelopes` | composes `AltCodec` with the envelope vectors of the corpus |
| `KeyBundle` | key bundles and sender blocks, byte by byte |
| `HighAssurance` | the detached, dual and triple signatures |
| `CommandLine` | processes that run the commands on shared files |
| `LmsRelease` | `make_bundle.py`, any number of runs of `sign_lms.py`, the files they share, the operator |
| `OneTimeSigning` | what the signer promises: a key minted alone, spent before it signs, used for one signature, and a published release that only a held key which has signed touches |
| `CrossImpl` | the cross-validation driver over libraries with defects |
| `MC*` | instances for TLC |
| `*_proofs` | theorems and proofs; those about `AltCodec` and `AltStream` are with those about the envelope and the stream, and `Parsing_proofs` holds the lemmas on check tables and on flattened rows that several of them need |

Operators whose name says what is wrong with them (`NeverFinal`, `FixedNonce`,
`GenKeyClobbers`, ...) are plausible mistakes of the code, kept beside the
definition they would replace; no specification uses them. Each shows that one
property can fail.

### ShieldCrypto

Values are terms. What a primitive makes of different fresh values is taken to be
different; equal terms are equal bytes. `PreAuth` is the one place where bytes that
are equal may be read in two ways: the transcript is a row of fields without their
lengths, and its term is that row, whatever the header says of where its fields end
(see `Recut` below). `Exchange`, `Decaps`, `PreAuth` and `DeriveKey` follow
`_XWrap`/`_NullX`, ML-KEM's implicit rejection (a damaged ciphertext gives another
secret, not an error), `_pre_auth_transcript` and `_derive_key`. `AeadSeal` and
`AeadOpens` are AES-256-GCM taken as ideal: a sealed value opens under its key,
nonce and associated data only. A key is identified by the handshake that made it,
so "fresh" randomness (the ephemeral key, the encapsulation) is the name of the
call. `base_nonce`, 7 bytes, is *not* assumed fresh: two calls may draw the same. A
parser is a table of checks in the code's order; `FirstFailure` of `Parsing` is the
error it raises.

### ShieldStream

| Variables | In the code |
|---|---|
| `spc`, `cur`, `pt`, `to`, `size`, `base`, `off`, `chunks`, `body` | position and locals of `seal_stream` (570-603); `cur` names the call |
| `sent` | what each finished call returned, and from what (a history) |
| `wire`, `faults` | the stored copy of each stream, and how often storage has failed |
| `opc`, `env`, `bundle`, `key`, `idx`, `out`, `oerr`, `used` | position, arguments and locals of `open_stream` (606-658), the error it raised, whether it has used the private key |

| Actions | In the code |
|---|---|
| `SealCall` | arguments, the size check, the recipient's bundle, the handshake and header (577-591) |
| `SealSplit`, `SealCount` | one step of the list comprehension; `or [b""]` and the limit (593-595) |
| `SealEmit` | one iteration of the sealing loop, return included; `struct.pack` may raise (598-603) |
| `LoseFrame` ... `CrossHeader` | storage: frames lost, repeated, swapped, taken from another stream, damaged; the bytes cut at or inside a frame or the header; a damaged length field; a header field damaged or exchanged |
| `OpenCall`, `OpenParse`, `OpenKey` | arguments; header checks (608-624); key bundle checks (626-630) |
| `OpenSecret` | ECDH, decapsulation, key (631-634); a damaged field may be one the library refuses |
| `OpenFrames`, `OpenChunk`, `OpenReturn` | the framing loop (636-647), one iteration of the opening loop (651-657), the result |

Abstractions. A stored stream is its header, its whole frames and how it ends
(`whole`, or cut inside a `length`, a `chunk`, the `header`). A frame is the
sealed term or `Bad`. A damaged length field leaves the frames before it and then
bytes framed differently, which are `Bad`. A call holds its own immutable bytes,
so a fault during a call is one after it. An exception of a library
(`ValueError` for a point or a ciphertext of the wrong length, `struct.error`)
ends the call as a failure. Plaintexts are short sequences over two byte values,
and `2^32 - 1` and the 16-byte tag are the constants `U32Max` and `TagLen`.

### ShieldEnvelope

| Variables | In the code |
|---|---|
| `sent` | what each finished `encrypt` was given, and the envelope it returned (a history) |
| `wire`, `faults` | the stored copy of each envelope, and how often storage has failed |
| `opc`, `env`, `args`, `out`, `oerr`, `used` | position of `decrypt`, its arguments, what it returned or raised, whether it has used the private key |

| Actions | In the code |
|---|---|
| `Encrypt` | the whole call (339-380), for every combination of arguments it does not raise on; a call that raises changes nothing |
| `DamageField` ... `Cut` | storage: a header field damaged or exchanged with another envelope's, a flag bit flipped, a sender block damaged, a ciphertext damaged or exchanged, the bytes cut |
| `Recut` | storage: the lengths of a header cut the row of `eph`, `ct` and `nonce` elsewhere |
| `DecryptCall` | arguments: any stored envelope, recipient bundle, expected sender, pre-shared key, policy |
| `DecryptParse`, `DecryptKey` | framing and suite (405-428); recipient bundle (430-434) |
| `DecryptSender` | sender block, signature, expected sender (438-455) |
| `DecryptPolicy` | policy, then key and flag (457-495) |
| `DecryptOpen`, `DecryptReturn` | ECDH, decapsulation, key, AES-GCM (497-503); the result |

Abstractions. `encrypt` is one step: it shares nothing until it returns. `decrypt`
is one step per group of checks, each group a table in the code's order, because
what has been done with the private key when a call refuses is part of its promise.
A signing bundle is whose it is and its role; a public bundle with a key-id that is
not its fingerprint is damage (`BadBundle`), which `_parse_key` refuses (257-261).
`ppk=b""` and `ppk=None` are one value: the code only ever asks for their truth.
`decrypt` checks the length of no header field (419-424), so a header is its row of
bytes and, in `moved`, which of `eph`, `ct` and `nonce` its lengths cut elsewhere in
that row. The transcript that is signed and bound into the key is the row
(`HandshakeOf`); what the private key and AES-GCM are given is the field as it is
read (`ReadField`); the associated data is the whole header, `moved` included. Only
the ends of the key-id are fixed, as it is compared to the key's (433). Streams are
not cut so: nothing is signed there, and the header is the associated data of every
chunk. A signature made with a key of another ML-DSA parameter set either raises in
the library (no step) or verifies for nobody. `encrypt_authenticated` and
`decrypt_authenticated` (507-524) pass their arguments on.

### AltCodec and AltStream

`interop/altcodec.py` is written from `FORMAT.md` alone. `AltCodec` adds one
variable, `alt`, the verdict of `open_envelope` (240-320) on the bytes and
arguments on which `decrypt` has just ended, and one action, `OpenEnvelope`;
`AltStream` does the same for `open_stream` (326-388). Both verdicts are computed
from tables of their own, in altcodec's order and with its own transcript and
two-leg combiner, so that agreement is a result and not a definition. Altcodec
takes no pre-shared key and no policy, and leaves one suite out; it declares so
(`OutOfScopeSuites`, `OutOfScopeFlags`; `test_suite_scope_drift.py` ties the lists
to the code), and `InScope` is that declaration. Whether a library accepts a
damaged point or ciphertext is a function of the bytes, the same for both.

### PstvEnvelopes and PstvStreams

`gen_pstv_vectors.py` makes each negative vector from a genuine message by one named
mutation; `test_pstv.py` replays the corpus through both decoders and compares the
category of the error. `AnonVectors`, `AuthVectors` and `StreamVectors` are those
mutations with their tags, arguments and expected categories; `Replay` puts one
before `decrypt` or `open_stream` at any point of a behaviour in which the message
it is made from exists, and the decoders then take their own steps. `CategoriesOf`
and `CategoryOf` are `_category` of the test. Outside a replay the modules behave as
`AltCodec` and `AltStream` do, so one run asks both questions.

### KeyBundle

| Variables | In the code |
|---|---|
| `made`, `refused` | what `generate_recipient_keys`, `generate_signing_keys` (284-303) and encrypt's sender block (365-376) wrote; the fields `_tlv` raised for (205-208) |
| `orig`, `head`, `buf`, `expect`, `pc`, `off`, `fields`, `err` | the bytes given to `_parse_key` (237-262) or to decrypt's reading of the block (438-444), and the parser's locals |

| Actions | In the code |
|---|---|
| `GenerateRecipientKeys`, `GenerateSigningKeys`, `WriteSenderBlock` | the writers; nothing is written when a field is too long |
| `ParseCall` | any bytes that were written, or with one byte changed, cut anywhere, run on, or carrying the key-id of another bundle; any expected role |
| `ReadHead`, `ReadField`, `FinalCheck`, `Return` | the fixed bytes; one turn of the loop of `_read_tlv` (211-219); the key-id or the trailing bytes; the result |

A byte has `Base` values (256 in the code) and a length is two of them, so all of
`_tlv`'s arithmetic, its limit and the reader's bounds checks are the code's. The
hash is a constant operator, taken as collision-free over its whole input, which
is the parts *in a row* without their lengths, as `_shake16` is called (223-227).

### HighAssurance

| Variables | In the code |
|---|---|
| `log`, `blobs`, `nsign` | signatures made and returned, and signing calls (histories) |
| `call` | the arguments and verdict of the last verification |

| Actions | In the code |
|---|---|
| `Sign` | `sign` (`shield.py:528-532`), and `high_assurance_sign` (82-86) and `ec_sign` (167-171) of `highassurance.py` in any context |
| `SignRaises` | the same calls where they raise: a bundle that is no private one of the scheme, or a context past the limit (77-78) |
| `DualSign`, `TripleSign` | `dual_sign` (100-104), `triple_sign` (185-201) |
| `Verify`, `DualVerify`, `TripleVerify` | `verify`, `high_assurance_verify` and `ec_verify`, `dual_verify` (107-123), `triple_verify` (204-231), on a blob as returned, damaged, cut, run on, renamed, or put together from the legs of others, with any public bundles |

What is signed is a row of bytes, `Framed(ctx, msg)` (69-79), so that whether two
pairs of context and message lie alike in it is a question the model can answer.
A length field of a blob is one number that may be read where a signature lies. Two
suites have one ML-DSA algorithm, and a key is its algorithm and its material.

### CommandLine

| Variables | In the code |
|---|---|
| `files` | contents and mode of each path: the four halves of a prefix, documents, envelope, output, signature |
| `proc` | per process: its command line, what it has read, what it has still to write, and where in a write it is |
| `made`, `log`, `started`, `died`, `overlaid` | identities generated, what commands have done, bounds and histories |
| `session` | which commands a behaviour may use, and the files it starts from |

| Actions | In the code (`__main__.py`) |
|---|---|
| `Start` | a command line that `main` accepts (232-263) |
| `Read` | one `_r` of one file (53-55), which may be missing |
| `Compute` | what the command makes of what it has read (81-224): refusals, unwrapping with the passphrase, the library call |
| `OpenFile`, `WriteFile`, `Chmod` | the three steps of `_w` (36-50) |
| `Die` | the process ends, or the disk is full, at any step; a file being written may be torn |

What `shield.py` does with the bytes is one step here, and is what
`ShieldEnvelope`, `KeyBundle` and `HighAssurance` show of it. `keygen` records in
`log` the passphrase it was given, so that what lies on disk can be compared with
what was asked for.

### LmsRelease

| Variables | In the code |
|---|---|
| `manifest`, `sums`, `bpc`, `bundle`, `built` | the two files of `make_bundle.py`, its position and digest; every digest it has written whole (a history) |
| `prv`, `pub` | `vorlath_release.prv` (key and next leaf) and `.pub` |
| `sigFile`, `pubFile`, `txtFile` | the three published files |
| `pc`, `opts`, `digest`, `source`, `mine`, `sig`, `pubBytes` | per run: position, command line, locals of `main` |
| `signed` | every signature any leaf has made (a history) |

There is one action per file access, so that another process can act and a crash
can fall between any two: `Load` (exists, 124), `LoadOpen` (133-147),
`CheckPair` (182), `GenKey`, `GenPub` (191-201), `Advance`, `LeafSign` (209-210),
`EmitSig` (223), `ReadPub` (225), `EmitPub` (227), `Verify` (235-247),
`EmitTxt` (253), `Burn` (275-295). `Crash` stops a run anywhere and may leave the
file it was writing torn; a failed `sign` or a `verify` that raises is such an
end. `RemovePair` is the operator who follows the message of 182-189, while no
run is live. The builder truncates and writes each file in two steps.

`pyhsslms` is not in the repository and is modelled from how it is used: `genkey`
refuses an existing pair (177-181, 198) and creates the `.prv` in the same step
as it looks for it; `sign` rewrites the `.prv` with the advanced index, in one
step, before it returns (28-30, 205-208). A signature may come out bad: that is
what the round trip is for.

### CrossImpl

`Start` is the head of `run` (187-218 of `cross_impl.py`), `DrawMessage` the
seeded generator (208-213, 151), `Compare` one comparison of `_check_kem` or
`_check_sig` (105-181) and the loop around it (222-233), `Exit` the status
(235-246). A comparison may `Agree`, `Disagree` (a `CrossImplMismatch`, which ends
its pair, 229-232), or `Raise`: a library refuses what the other made, with an
exception of its own that `run` does not catch. The run is then over, without a
table, and Python exits with 1. A defect is a set of comparisons that differ and a
set of those that raise, for all or some of what the libraries draw, or for one
message: the driver does not know which, and has to tell of whatever it met.

## Runs

Twelve runs. Nine pass; three show where a document and the code differ.

| Run | Asks | Bounds, and why they are enough |
|---|---|---|
| `stream_calls` | does everything that fits the format get sealed, and open; is refusal only for the key, before the key is used; do calls end and messages arrive; do the calls implement `StreamTransfer`; does every stream vector end in its category | one stream, plaintexts of 0 to 5 and of 7 bytes, chunk sizes from 0 to 6, `U32Max` 5, tag 1: both sides of each limit; two recipients of a suite in scope of altcodec and one of the suite out of it, every key bundle; one fault; five chunks for the vectors, as many as the corpus has |
| `stream_faults` | is the value returned one message, whole; are nonces unique; do both decoders agree; is the inductive invariant one | two streams, of three chunks and one, with the same base nonce, and any two faults: first, middle and last chunk, and any exchange between streams |
| `stream_framing` | is framing rejected before secrets are used | one stream, one fault: violated (see below) |
| `envelope_verdicts` | is a message ever refused that the arguments accept; does altcodec open exactly its scope; does every envelope vector end in its category, at its layer | one envelope (and, for the vectors that exchange, a second of the same), no fault; a recipient of each suite and two of the first, two senders of one ML-DSA set and one of the other, every pair of bundles as (private, public), two pre-shared keys, every policy and an unknown one: all argument combinations |
| `envelope_faults` | is only an acceptable message returned, and the private key used only for the expected sender's row of bytes; do the calls implement `EnvelopeTransfer`; do both decoders agree | two envelopes, each signed or not, bound or not, to either of two recipients; three policies (the others are in the run above); one fault: every damage to either, every exchange between them and every other cut of a header |
| `recut_header` | are the fields that the private key meets those of a signed header | the instance of `envelope_faults`: violated (see below) |
| `key_bundle` | does every reading of damaged bytes end, with no second encoding; does what was written come back; does a public key-id stand for its key | three values to a byte, so that a field has at most eight bytes; fields of none, of eight and of nine; blocks whose sum is on both sides of the limit; two bundles that share a row of parts; one change to the bytes |
| `high_assurance` | is a signature accepted exactly where it was made, in this context; did every key sign; is there one encoding of a blob | contexts of each length up to one past the limit of two, messages that begin with what a context may end in, two keys, two signing calls of any kind |
| `commands` | who can read a private key, and is it wrapped where that was asked; which halves lie together; was what is opened or verified sealed or signed | three commands in two processes on one prefix: two that overlap and one before or after; four sessions, so that the commands that matter to one another meet; deaths without bound |
| `lms_runs` | the signing properties; do the runs implement `OneTimeSigning` | two runs, one digest, builder, crashes and deletions without bound: the whole state space |
| `lms_rerun` | does each re-run mint a fresh key, as documented | two runs: violated (see below) |
| `cross_impl` | does the exit status tell of everything | two pairs of each kind, two iterations, a defect in one or two pairs that shows on no, some or all draws, or for one message, as a mismatch or as an exception: a last iteration, a pair after a bad one, a disagreement followed by agreement |

Bounds named in the modules: `MaxFaults` (guards `Fault`), `MaxSealed`, `MaxMade`,
`MaxSigned`, `MaxCommands`, `MaxRuns`, `U32Max`, `Base`, `MaxCtx`, and the finite
`Streams`, `Calls`, `Messages`, `Runs`, `Procs`. Symmetry is used where no
property is of liveness: the names of streams, of runs and of processes are
interchangeable, in the properties too. Every action fires in one of the passing
runs. Deadlock checking is off in three runs, whose programs do stop: `key_bundle`
(nothing more to parse), `commands` (the commands are used up) and `cross_impl`
(one run of a program).

Properties, beside one type invariant per proved module (`StreamInv`,
`EnvelopeInv`, `SignerInv`: types and inductive invariant in one):

- Streams: `WholeOrNothing`, `NonceUnique`, `RefusedOnlyForKey` (invariants),
  `SealFailsOnlyOversize` (action property), `OpenReturns`, `StreamArrives`
  (liveness), `ImplementsTransfer` (refinement), `SameStreamVerdict`,
  `ExpectedStreamCategory`, `RefusedAtFirstMisplaced` (invariants).
- Envelopes: `OpensOnlyAcceptable`, `AcceptableOpens`, `SecretOnlyForSender`
  (invariants), `ImplementsTransfer` (refinement), `SameVerdict`,
  `AltOpensExactly`, `ExpectedCategory`, `ReachesItsLayer` (invariants).
  `Acceptable` is stated from what the two callers said alone (addressee, sender
  pair, expected sender, policy and pre-shared keys), so the invariants say that
  the flags, copies of key-ids and ordered checks on the wire compute exactly that.
- Bundles and signatures: `Canonical`, `RoundTrip`, `KidBinds`, `ParseEnds`
  (liveness); `SignedInContext`, `EveryLegSigned`, `CanonicalBlob`.
- Commands: `SecretsOwnerOnly`, `HalvesInOrder`, `OneLock`, `OpenedWasSealed`,
  `VerifiedWasSigned`.
- Release: `LeafOnce`, `SpentOnDisk`, `PublishedTogether`, `ReleaseDigest`
  (invariants), `ImplementsSigning` (refinement).
- Cross-validation: `StatusTellsAll`, `AllCompared` (with `EachReachedTold` in it).

Refinement. `ShieldStream` maps to `StreamTransfer` by `sent` (the plaintexts of
the finished calls) and `Outcome` (the phase of `open_stream`, and, once it is
done, the value returned with the call it came from). The steps of sealing but
the last, all faults, and the inner steps of opening are stutters.

`ShieldEnvelope` maps to `EnvelopeTransfer` in the same way; `Meets` there is
`Acceptable` here, and the demands are the arguments of `decrypt`. The runs check
both refinements of the composed systems, in which a replayed vector is one more
thing that storage may hold.

`LmsRelease` maps to `OneTimeSigning`, which knows no files, no leaf counter and
no concurrent runs. A run and its key are one there: `Stage` sends the position of
the run to how far its key has come (unborn, fresh, spent once the index on disk
has advanced, signed, passed, abandoned); the key that is held is the one in the
`.prv`; the release that is published is the key of the signature file, if the
three files verify together (`Whole`), and none otherwise. The builder, the
self-test's reads and every file access that changes none of this are stutters. A
crash is an `Abandon`, which may take a release that was whole with it only while
its own run was publishing. What the refinement says beyond `LeafOnce` is the order:
no key is born while another is held, none signs before it is spent, and none lets
go of the pair before its release lies there whole or it has given up.

Fairness. `WF(SealStep)` and `WF(OpenStep)` in the stream modules, `WF(ParseStep)`
in `KeyBundle`: a Python call that has started runs on to its end. No call has to
be started and no fault has to happen or not to happen. `OpenReturns` holds on
every stored stream and every vector; `StreamArrives` for a call that was given
undamaged bytes and the right key; `ParseEnds` on any bytes. The other modules
have no fairness: any process may stop for good anywhere, and their properties are
of safety (`ShieldEnvelope`'s calls have no loop).

### Where documents and code differ

Shown by a run:

- `lms_rerun`: `release/lms.Dockerfile:45-49` describes a default command that
  repeats the self-test with a fresh key. The `.pub` of the run at build time is
  in the image, so the guard of `sign_lms.py:182` refuses every later run.
- `stream_framing`: `FORMAT.md:574-575` has malformed and truncated input
  rejected before any secret is used. `decrypt` does that; `open_stream` checks
  its chunk framing (637-647) after ECDH and decapsulation (632-634).
- `recut_header`: `FORMAT.md:153-155` and `VERIFICATION_GAP_MAP.md:27-30` call the
  transcript unambiguous because every field length is fixed by the suite. No
  line of `decrypt` (or of altcodec) checks a field's length, so a header that cuts
  the signed row elsewhere passes the signature check (448), and 497-498 hand ECDH
  and decapsulation fields that nobody signed. It never opens: the libraries refuse
  a field of a wrong length, and the header is associated data (501). What does hold
  of the private key is `SecretOnlyForSender`, which speaks of the row.

Met while modelling, each the matter of a few lines or outside the state modelled:

- `FORMAT.md:457-459` has `high_assurance_sign` sign context, NUL and message. The
  code signs the length of the context, the context and the message
  (`highassurance.py:69-79`), and its docstring calls the other form the old one. A
  verifier written from the document looks for other bytes than are signed. The
  code's form is the sound one: with the documented bytes (`FramedByNul`)
  `SignedInContext` fails.
- `cross_impl.py:232` stops "this algorithm at the first divergence", but only for a
  `CrossImplMismatch` (229). A divergence at which a library raises an exception of
  its own, as on a ciphertext of the wrong length, ends the whole run (`Raise`): no
  table is printed and the pairs after it are not compared. Its exit status is 1.
- `sign_lms.py:242` refuses "to publish a bad signature" that 223 has already written
  to its published name, where it stays (the phase `unverified` of `LmsRelease`).
- `__main__.py:37-38` has a private key never world-readable, "even before any
  bytes are written". That holds for a file that `_w` creates. One that was there
  before with looser permissions keeps them while the new secret is written and
  until the chmod of 45, or for good if that fails (46). `SecretsOwnerOnly` is
  stated for the rest, and the model has these files too (`session.loose`).
- `demo --suite 3` raises: `cmd_demo` calls `encrypt_classical_only` (176), which
  refuses a suite without a classical leg. The model logs it as `"demo raised"`.
- `cross_impl.py:190-191` promises that `--seed` replays a mismatch. The seed
  makes the messages only; keys and coins come from the libraries, and a mismatch
  that depends on them may not come back.
- `sidechannel/ct_measure.py:60` keeps the fastest 90% of the samples; the index
  of 127 is that of the first sample past them, which is kept as well.

## Proofs

All proofs are checked by TLAPS (Z3, Zenon, LS4) for every value of the
constants, from the assumptions that the modules name (`SuiteOfAssumption`,
`StreamAssumption`, `EnvelopeAssumption`, `ValueAssumption`, `LmsAssumption`,
`HighAssuranceAssumption`, `SignatureAssumption`, `CommandLineAssumption`,
`AltStreamAssumption`, `KeyBundleAssumption`, `ShakeAssumption`,
`CrossImplAssumption`, and a `PstvAssumption` for each part of the corpus), which
TLC evaluates in the runs. Two hypotheses are not assumptions of a module,
`Damaged` (some theorems about streams) and `CollisionFree` (`KidNamesTheBundle`);
see there.

`ShieldStream_proofs`: `Invariance`, `TypedInvariance` (`StreamInv`), `Authentic`
(`WholeOrNothing`), `NoncesUnique`. `WholeOrNothing` speaks of the end of a
call only, so it is not inductive. `IInv` says what is true on the way:
`CuttingInv`, the list so far is the plaintext up to `off`, piece by piece;
`SealingInv`, the frames so far are the first of the plaintext's frames;
`SentInv`, a returned stream is all the frames of its plaintext; `WireInv`,
storage holds only sealed or damaged frames, because no fault seals;
`OpenTypeInv`, the key is the header's; and `OpeningInv`, `out` is a prefix of
the plaintext of *one* stream, with its header, cut at a chunk boundary. The
step that matters is `OpenChunkOpening`: a frame that opens at position `idx`
was sealed at position `idx` (the counter), of the stream with this header (the
associated data), and is last there exactly when it is last here (the
last-flag). `AllPieces` then makes the prefix the whole plaintext.
`NoncesUnique` follows from the same invariant: equal keys name the same
stream, equal nonces the same position, whatever `base_nonce` was.

The same module has `RefusedForKey` (`RefusedOnlyForKey`) and `SealFailure`
(`SealFailsOnlyOversize`). The first is about untouched bytes, so its invariant
`RefusalInv` recognises them: the ciphertext in a stored header names the stream
it came from (`NamesInv`), and a call on the bytes of stream *s* has passed every
check so far unless its bundle is not that of *s* (`VerdictSoFar`). A fault can
make no stored copy equal to the bytes of a stream that is still to be returned,
because a new stream brings a ciphertext of its own. It takes one hypothesis
beyond the assumptions, `Damaged`: the model value for damaged bytes is none of
the values it may stand in for; the runs use a model value, for which it holds.
`SealFailure` needs `LastInside`: the piece that was cut last begins inside the
plaintext, so that too many pieces mean too long a plaintext.

`ImplementsTransferSteps` (same module) is the safety of the refinement:
`StreamTransfer`'s initial states and steps, under the mapping of the section on
refinement. Sealing's last step sends, opening's first asks, and the step that
ends a call delivers a sent plaintext by `WholeOrNothing`; all others are stutters.

`OneStreamVerdict` (`SameStreamVerdict`) is about `AltStream`. altcodec's verdict is
computed from tables of its own; the invariant `StreamReadersInv` says that a call
of `open_stream` has passed its stages so far or was refused at one of five
(`FailedSomewhere`), and that the chunks it has opened are those altcodec opens,
with the same plaintext. When the call ends, both have met the same first failure.

`StreamCorpusVerdicts` (`ExpectedStreamCategory`) and `RefusedInPlace`
(`RefusedAtFirstMisplaced`) are about `PstvStreams`, under `Damaged` too. The
invariant `PstvInv` adds to that of the two readers that the vector under replay is
what they were given and is `Proper`: its tables have the first failure that its
category names, and its chunks open at exactly the places where they are the
original's (`Placed`). The last part is `PlacedOpens`: the frames of a sealed stream
differ pairwise in counter or last-flag, so that a dropped, exchanged or repeated
one opens nowhere but where it was sealed. `StageVector` and `FrameVector` make
every vector of the generator proper.

`OpeningAdvances` says why a call of `open_stream` ends: on any stored bytes each of
its steps lowers `ToDo`, its stages and the chunks left, and no other step touches
it. That it ends if it runs on is left to `OpenReturns`.

Where the theorems above are about the two functions alone, the same holds of the
composed systems that the runs check. Beside altcodec every step is a step of the
functions or changes nothing of theirs (`SafeBesideAlt`). Through the corpus a
replay puts bytes before `open_stream` that storage does not hold, so each theorem
needs its invariant kept by that step too: `CorpusRefusedForKey` because a vector
names its original by its ciphertext (`VectorNames`), `CorpusSealFailure`, and
`CorpusTransferSteps`, all under `Damaged`.

`ShieldEnvelope_proofs`: `Invariance`, `TypedInvariance` (`EnvelopeInv`),
`OpenedIsAcceptable` (`OpensOnlyAcceptable`), `AcceptableIsOpened`
(`AcceptableOpens`), `SecretUsedForSender` (`SecretOnlyForSender`), `Implements`.
The invariant says that everything stored is genuine or damaged (`SentInv`,
`WireInv`, `ArgsInv`) and which stages `decrypt` has passed (`StageInv`). The
argument: what AES-GCM opens carries the header it was sealed under as associated
data, so it is one envelope of `encrypt`, unchanged (`OpenedUnchanged`); then the
stages passed say what the arguments were (`PassedSender`, `PassedPolicy`; the
pre-shared keys are equal because the derived keys are). In the other direction the
check tables of an acceptable envelope have no failure and the keys agree
(`AcceptableNotRefused`). For `SecretUsedForSender` no ciphertext helps: the
signature is the only witness, and a genuine one names its row of bytes
(`GenuineSigner`), the recipient's key-id at its head included. That is all it says:
where the header cuts the row is left to the associated data. `Implements` is the
whole refinement, `EnvelopeTransfer` being a safety specification.

`OneVerdict` (`SameVerdict`) and `AltOpensItsScope` (`AltOpensExactly`), in the same
module, are about `AltCodec`. `decrypt` takes its checks in stages and altcodec in
one row, with its own transcript, combiner and suite lists. `VerdictInv` ties the
error of `decrypt` to the first failure of its tables one after another
(`VerdictStages`), and `SameTables` compares each table of altcodec with its
counterpart in scope. For the second theorem, what altcodec opens is carried back
to what `decrypt` accepts without a pre-shared key (`AltOpensAcceptable`,
`AltAcceptableOpens`).

As with streams, what is proved of `Spec` holds beside altcodec (`SafeBesideAlt`,
`ImplementsBesideAlt`) and through the corpus: `CorpusAcceptable`
(`AcceptableOpens`), and `CorpusOpensItsScope` (`AltOpensExactly`), whose invariant
`ScopeInv` says that what altcodec would open is an unchanged envelope of its scope,
whether it comes from the store or is a vector (`Genuine`, `VectorGenuine`).

`CorpusVerdicts` (`ExpectedCategory`) and `CorpusReaches` (`ReachesItsLayer`) are
about `PstvEnvelopes`, any recipients, senders and messages. Again a vector under
replay is `Proper`: `AnonProper` and `AuthProper` compute the first failure of the
four tables for each mutation. `UsedInv` says that a call that has ended has used
the private key exactly when those tables had no failure. That the misbound
signature is another one takes the assumption that there is a second call.

`LmsRelease_proofs`: `Invariance`, `TypedInvariance` (`SignerInv`),
`LeafUsedOnce`, `SpentLeafOnDisk`, `ReleaseVerifies` (`PublishedTogether`),
`DigestIsRelease` (`ReleaseDigest`). `KeyInv` strengthens the properties with the
ownership that makes them true: a run between its `genkey` and its end holds the
pair on disk (`HoldsPair`), so there is at most one such run and nobody deletes or
replaces the pair under it; `SignedOnce` and `Publishing` say how far the holder
is. `DigestInv` follows a digest from the manifest that was written whole to the
run that read it (`Sourced`), past builders that rewrite the manifest meanwhile.

`ImplementsOneTimeSigning` (`ImplementsSigning`) is the refinement above, whole, as
`OneTimeSigning` is a specification of safety: one lemma for each kind of step
(`GenKeyRefines`, `AdvanceRefines`, `EmitRefines`, `CrashRefines`, ...). Beside the
invariants it takes two more (`FullInv`): the key on disk was minted by a run that
is past its `genkey` (`Minted`), and a run that publishes has its signature in the
history (`Recorded`). The delicate steps are the writes of the three files: each
must leave either nothing whole or the release of the run that writes, also when an
older release lay there, and this is what `Publishing` and the key in every
signature are for.

`HighAssurance_proofs`: `ContextBinding` (`SignedInContext`), `StrongestLeg`
(`EveryLegSigned`), `OneEncoding` (`CanonicalBlob`), for any limit on contexts and
any numbers as signatures. `ContextBinding` has both directions: what is accepted
was signed so, and what was signed so is accepted, the context of `MaxCtx` included.
`FramedInjective`: a context of at most `MaxCtx` numbers
and its message can be read back from what is signed, because the length comes
first. `DualWhole` and `TripleWhole`: a blob whose reading ends exactly at its end
is what the writer makes of the legs that were read, although a slice may stop
short (`ReadWithin`: then the end was passed, and every later end is too).

`CommandLine_proofs`: `SecretsKept` (`SecretsOwnerOnly`), `LockedAlike`
(`OneLock`), `OpenedIsSealed` (`OpenedWasSealed`), `VerifiedIsSigned`
(`VerifiedWasSigned`), for any number of processes, prefixes and commands. What a
process holds in its memory counts as much as what lies on disk, since it will be
written: `Kept` says of both that every envelope and signature is in the log
(`Backed`), that every private half is under the passphrase its identity was made
with (`Locked`), and that secrets are only in, or on their way to, private files.
The passphrase of each identity is no variable of the model: it is the witness
`lock` of an existential in the invariant, extended by each keygen, and `Recorded`
says that it is what the log has of that keygen, and `NoPass` for the keys that
were there before. A torn file counts as the text that was written to it last
(`was`); what it may still hold of another write is under that write's own lock.
`HalvesStayInOrder` (`HalvesInOrder`) adds `OrderInv`: what a keygen has still to
write is its row of halves from some place on (`HalvesFrom`), every half on disk is
of an identity that was made, and under a prefix where no two keygens overlapped
there is one writer, the halves before its place are of its identity or not there,
and no half is of a later one (`Newest`).

`KeyBundle_proofs`: `BundleInvariance` (`BundleInv`), `OneEncoding` (`Canonical`),
`WrittenIsReadBack` (`RoundTrip`), `KidNamesTheBundle` (`KidBinds`), for every base,
any material and any damage. The arithmetic is that of two digits: `DivUnique` and
`TwoDigits` (a length that fits has two byte values, and they make it again).
`ReadInv` says that the bytes up to the offset are, at every turn of the loop, what
`_tlv` writes for the fields read so far: `FieldRead` is the turn, `RowGrows` the
next offset. `FaithfulInv` is about bytes as they were written: `FaithfulNext` finds
the next field whole where the parser stands, because what is written of a row of
fields begins with what is written of its first ones (`TlvsFrom`), and `AllRead`
says that only all of the fields use up all of the bytes. `KidNamesTheBundle` takes
`CollisionFree` as its hypothesis, `_shake16` as an injective function of label,
suite and the parts in a row; of a recipient's bundle it says that the parts in a
row are the same, not where the one ends and the other begins, which is what the
code's fingerprint says. `ParsingAdvances` is the measure behind `ParseEnds`: on any
bytes each turn of the loop takes the offset at least two bytes on and never past
the end, so that less is left to read.

`CrossImpl_proofs`: `StatusIsTrue` (`StatusTellsAll`), `ZeroMeansAllCompared`
(`AllCompared`), `MismatchHidesNothing` (its part `EachReachedTold`), for any pairs,
iterations and defects. The invariant follows a run under way: `failed` is whether
anything disagreed, every result is a full count or has its disagreement
(`ResultsSoFar`), and unless something disagreed every comparison before the present
place is made (`AllMadeSoFar`). A run ends in `Exit`, with a result for each pair, or
in `Raise`, with one for each pair before (`RunOver`); of the pairs after it nothing
is said, as the code says nothing.

Only model-checked, because the provers cannot reach it: liveness and fairness
(`OpenReturns`, `StreamArrives`, `ParseEnds`, the fairness of `StreamTransfer`);
of the first and the third the decreasing measure is proved. Every invariant of a
passing run is stated by a theorem, as are both refinements of safety. Rows of
fields of any number are flattened by a recursive function of the library; what is
needed of it is proved by least counterexample instead of induction (`Least`,
`PartialsExist`, `FlattenAppend` in `Parsing_proofs`).

## Not modelled

- Cryptographic strength: the protocol proofs of `formal/` are about that, and
  begin where these models end.
- `sidechannel/ct_measure.py`: Welch's t over samples of execution time. The
  program keeps no state from one measurement to the next, and what it says is
  about hardware and real numbers.
- `sbom/`, `cbom/`, `gen_kat_vectors.py`, the ACVP and KAT tests: they write or
  read one file of constants.
- The corpus as JSON, and the byte offsets at which the helpers of
  `gen_pstv_vectors.py` find a field to damage (181-240): a vector here names the
  field.
- `encrypt_classical_only`, a demonstration foil without a reader; its refusal is
  in `DemoResult`.
- Memory, and files outside the paths the commands name.

Storage here is faulty and forgetful: it moves, repeats and damages what was
sealed, and seals nothing. That is the setting in which the anonymous stream
format promises anything: it does not say who sealed a stream.

What the bounds leave out. The framing loop of `open_stream` (636-645) is one step
over frames that storage has already told apart; that it advances is read off the
code, and `OpenReturns` is about the opening loop. `struct.pack` at 602 cannot fail
in practice, because AES-GCM of the library refuses a chunk of 2^31 bytes before;
the model has the check at a small `U32Max`. `RemovePair` waits until no run is live,
so a key pair exchanged under a running signer is not reached; and `lms_runs` has
one digest, as with two it does not end in its time (`DigestIsRelease` is for any).
`genkey` of `pyhsslms` is one step up to its `.prv`, and `sign_lms.py:38` says that
no lock is provided. `Outcome` of an envelope carries whom a message is from; that it
is the message whole is `OpensOnlyAcceptable`. A flipped tag and a flipped ciphertext
of the corpus are one vector of `AnonVectors`.

One hazard has no property. A builder that dies between its two files leaves a
manifest and a checksum of different trees (`make_bundle.py:102`); the model
reaches that state, and no program reads the checksum. That a rerun of
`cross_impl.py` under its printed seed may pass is told above.

## Plan

1. Where a proof shows the way, deeper properties of the same modules: what
   altcodec does with a pre-shared key outside its scope; a parser that reads a
   sender block out of an envelope that is itself damaged.
2. What the proofs share and state twice (the tables of the two decoders, the
   frames of a stream) as lemmas of `Parsing_proofs`.
