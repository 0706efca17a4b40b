---------------------------- MODULE PstvStreams ----------------------------
(***************************************************************************)
(* interop/gen_pstv_vectors.py: the streams of the frozen corpus, as       *)
(* mutations of a genuine one of five chunks, replayed through both        *)
(* decoders; and every other stream as the two functions treat it.         *)
(***************************************************************************)
EXTENDS AltStream

CONSTANT Plaintext  \* STREAM_NEG_PLAINTEXT: ChunkCount chunks of the size used

ChunkCount == 5

ASSUME PstvAssumption == Plaintext \in Messages /\ Len(Plaintext) = ChunkCount

VARIABLE vec  \* the vector that is replayed, or None

pstvVars == <<altVars, vec>>

-----------------------------------------------------------------------------
(* The generator seals the plaintext for a recipient of a suite in scope.  *)
Original(s) ==
  /\ s \in Finished
  /\ sent[s].pt = Plaintext /\ Len(sent[s].env.body) = ChunkCount
  /\ SuiteOf[sent[s].to] \in AltSuites

Vector(s, tag, e, who, category) ==
  [tag |-> tag, from |-> s, env |-> e, bundle |-> [rcpt |-> who, role |-> "kem_priv"],
   expected |-> category]

(* The middle chunk is the third: chunks[len(chunks) // 2].                *)
Middle == ChunkCount \div 2 + 1

StreamVectors(s) ==
  LET stream == sent[s].env
      frames == stream.body
      suite  == stream.hdr.suite
      V(tag, e, category) == Vector(s, tag, e, sent[s].to, category)
      B(tag, changed) == V(tag, [stream EXCEPT !.body = changed], "aead")
      others == {r \in Recipients \ {sent[s].to} : SuiteOf[r] = suite}
  IN  { V("stream", stream, "opens"),
        B("stream_chunk_bitflip", [frames EXCEPT ![Middle] = Bad]),
        B("stream_final_dropped", Front(frames)),
        B("stream_chunk_reordered", [frames EXCEPT ![2] = frames[ChunkCount - 1],
                                                 ![ChunkCount - 1] = frames[2]]),
        B("stream_middle_dropped", RemoveAt(frames, Middle)),
        B("stream_chunk_duplicated", InsertAt(frames, Middle, frames[Middle])),
        V("stream_suite_mutated", [stream EXCEPT !.hdr = [@ EXCEPT !.suite = 3 - suite]],
          "suite_mismatch"),
        V("stream_header_truncated", [stream EXCEPT !.body = <<>>, !.tail = "header"],
          "truncation") }
      \union { Vector(s, "stream_wrong_recipient", stream, r, "wrong_recipient") : r \in others }

CategoryOf(err) ==
  CASE err = "suite mismatch" -> "suite_mismatch"
    [] err = "key-id mismatch" -> "wrong_recipient"
    [] err \in {"truncated header", "missing chunk length", "empty stream"} -> "truncation"
    [] err = "chunk AEAD" -> "aead"
    [] OTHER -> "unmapped"

-----------------------------------------------------------------------------
Replay ==
  /\ opc = "idle" /\ vec = None
  /\ \E s \in Streams : Original(s) /\ \E v \in StreamVectors(s) :
       vec' = v /\ env' = v.env /\ bundle' = v.bundle
  /\ opc' = "parse"
  /\ UNCHANGED <<sealVars, sent, storeVars, key, idx, out, oerr, used, alt>>

PstvNext == \/ Replay
            \/ /\ SealCall \/ SealStep \/ StorageFault \/ OpenCall \/ OpenStep
               /\ UNCHANGED <<alt, vec>>
            \/ AltOpenStream /\ UNCHANGED vec
            \/ BothReturn /\ vec' = None

PstvSpec == /\ AltInit /\ vec = None
            /\ [][PstvNext]_pstvVars
            /\ Fairness

-----------------------------------------------------------------------------
(* Properties.                                                             *)

(* Both decoders end every vector in its category, and no loss, exchange   *)
(* or repetition of chunks is mistaken for a framing error                 *)
(* (gen_pstv_vectors.py:512-604, test_pstv.py:284-335).                    *)
ExpectedStreamCategory ==
  alt # None /\ vec # None =>
    IF vec.expected = "opens" THEN opc = "done" /\ alt.err = "none"
    ELSE /\ opc = "failed" /\ CategoryOf(oerr) = vec.expected
         /\ CategoryOf(alt.err) = vec.expected

(* Where a rearranged stream is refused: not before the first chunk that   *)
(* is out of its place, so the chunks before it did open, and none of them *)
(* is returned (shield.py:649-657).                                        *)
InPlace(i) == i <= ChunkCount /\ env.body[i] = sent[vec.from].env.body[i]

RefusedAtFirstMisplaced ==
  opc \in {"done", "failed"} /\ vec # None /\ vec.expected = "aead" =>
    /\ out = None
    /\ \A i \in 1..idx : InPlace(i)
    /\ ~InPlace(idx + 1) \/ (idx + 1 = Len(env.body)) # (idx + 1 = ChunkCount)
=============================================================================
