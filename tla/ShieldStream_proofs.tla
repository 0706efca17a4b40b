------------------------ MODULE ShieldStream_proofs ------------------------
(***************************************************************************)
(* Theorems about ShieldStream, about AltStream beside it, and about the   *)
(* streams of the corpus (PstvStreams), for every value of their constants.*)
(***************************************************************************)
EXTENDS PstvStreams, Parsing_proofs

USE SuiteOfAssumption, StreamAssumption

(* A slice of a sequence is one over the same elements.                    *)
LEMMA SliceType ==
  ASSUME NEW S, NEW s \in Seq(S), NEW m \in Nat \ {0}, NEW n \in 0..Len(s)
  PROVE  SubSeq(s, m, n) \in Seq(S)
<1>1. CASE m <= n
  BY <1>1, SubSeqProperties
<1>2. CASE m > n
  BY <1>2, SubSeqProperties
<1>. QED  BY <1>1, <1>2

(* The end of a call resets its local variables to values of their type.   *)
LEMMA SealEndType ==
  ASSUME NEW at \in {"idle", "failed"}, SealEnd(at)
  PROVE  /\ spc' \in {"idle", "split", "emit", "failed"}
         /\ cur' \in Streams \union {None}
         /\ pt' \in Seq(Byte)
         /\ to' \in Recipients \union {None}
         /\ size' \in 0..U32Max
         /\ off' \in Nat
         /\ chunks' \in Seq(Seq(Byte))
         /\ base' \in BaseNonces \union {None}
BY DEF SealEnd

(* The variables start with values of their types.                         *)
LEMMA InitTypeOK == Init => TypeOK
<1>. SUFFICES ASSUME Init PROVE TypeOK
  OBVIOUS
<1>1. pt \in Seq(Byte) /\ chunks \in Seq(Seq(Byte))
  BY DEF Init
<1>2. Finished = {} /\ Stored = {}
  BY DEF Init, Finished, Stored
<1>3. faults \in 0..MaxFaults /\ size \in 0..U32Max
  BY DEF Init
<1>. QED  BY <1>1, <1>2, <1>3 DEF Init, TypeOK

(* Starting (or refusing) a call of seal_stream keeps the types.           *)
LEMMA SealCallTypeOK == TypeOK /\ SealCall => TypeOK'
<1>. SUFFICES ASSUME TypeOK, SealCall PROVE TypeOK'
  OBVIOUS
<1>1. CASE SealFail
  BY <1>1, SealEndType DEF TypeOK, SealCall, SealFail, openVars, Finished, Stored
<1>2. CASE ~SealFail
  <2>1. PICK m \in Messages : pt' = m
    BY <1>2 DEF SealCall, ChunkSizeOk
  <2>2. pt' \in Seq(Byte)
    BY <2>1
  <2>3. chunks' = <<>>
    BY <1>2 DEF SealCall, ChunkSizeOk
  <2>4. chunks' \in Seq(Seq(Byte))
    BY <2>3
  <2>5. size' \in 0..U32Max
    <3>1. size' \in Nat /\ ChunkSizeOk(size')
      BY <1>2 DEF SealCall
    <3>. QED  BY <3>1 DEF ChunkSizeOk
  <2>. QED  BY <1>2, <2>2, <2>4, <2>5
            DEF TypeOK, SealCall, openVars, Finished, Stored, Bundles
<1>. QED  BY <1>1, <1>2

(* Cutting one more piece keeps the types: a slice of bytes is bytes.      *)
LEMMA SealSplitTypeOK == TypeOK /\ SealSplit => TypeOK'
<1>. SUFFICES ASSUME TypeOK, SealSplit PROVE TypeOK'
  OBVIOUS
<1>. DEFINE upto == IF off + size < Len(pt) THEN off + size ELSE Len(pt)
<1>1. /\ pt \in Seq(Byte) /\ off \in Nat /\ size \in Nat
      /\ chunks \in Seq(Seq(Byte))
  BY DEF TypeOK
<1>2. SubSeq(pt, off + 1, upto) \in Seq(Byte)
  <2>1. off + 1 \in Nat \ {0} /\ upto \in 0..Len(pt)
    BY <1>1
  <2>. QED  BY <1>1, <2>1, SliceType
<1>3. chunks' \in Seq(Seq(Byte)) /\ off' \in Nat
  BY <1>1, <1>2, AppendProperties DEF SealSplit
<1>. QED  BY <1>3 DEF TypeOK, SealSplit, storeVars, openVars, Finished, Stored

(* Completing the list of chunks keeps the types.                          *)
LEMMA SealCountTypeOK == TypeOK /\ SealCount => TypeOK'
<1>. SUFFICES ASSUME TypeOK, SealCount PROVE TypeOK'
  OBVIOUS
<1>1. CASE SealFail
  BY <1>1, SealEndType DEF TypeOK, SealCount, SealFail, openVars, Finished, Stored
<1>2. CASE ~SealFail
  <2>1. << <<>> >> \in Seq(Seq(Byte))
    OBVIOUS
  <2>2. chunks' \in Seq(Seq(Byte))
    BY <1>2, <2>1 DEF SealCount, TypeOK
  <2>. QED  BY <1>2, <2>2 DEF TypeOK, SealCount, openVars, Finished, Stored
<1>. QED  BY <1>1, <1>2

(* A fault changes one stored stream and the count, within its bound.      *)
LEMMA FaultTypeOK ==
  ASSUME TypeOK, NEW s, NEW h, NEW b, NEW tail, Fault(s, h, b, tail)
  PROVE  TypeOK'
BY DEF TypeOK, Fault, sealVars, openVars, Finished, Stored

(* So every fault of storage keeps the types.                              *)
LEMMA StorageTypeOK == TypeOK /\ StorageFault => TypeOK'
<1>. SUFFICES ASSUME TypeOK, StorageFault PROVE TypeOK'
  OBVIOUS
<1>1. PICK s, h, b, tail : Fault(s, h, b, tail)
  BY Zenon DEF StorageFault, LoseFrame, RepeatFrame, SwapFrames, CrossFrame,
     DamageFrame, Cut, Reframe, DamageHeader, CrossHeader, FrameFault, HeaderFault
<1>. QED  BY <1>1, FaultTypeOK

(* The steps of open_stream keep the types.                                *)
LEMMA OpenTypeOK ==
  TypeOK /\ (OpenCall \/ OpenStep \/ OpenReturn) => TypeOK'
<1>. SUFFICES ASSUME TypeOK, OpenCall \/ OpenStep \/ OpenReturn PROVE TypeOK'
  OBVIOUS
<1>1. UNCHANGED <<sealVars, sent, storeVars>>
  BY DEF OpenCall, OpenStep, OpenParse, OpenKey, OpenSecret, OpenFrames, OpenChunk,
     OpenReturn
<1>2. /\ opc' \in {"idle", "parse", "keys", "secret", "frames", "chunks", "done", "failed"}
      /\ bundle' \in Bundles \union {None}
      /\ idx' \in Nat
      /\ used' \in BOOLEAN
  <2>1. CASE OpenCall
    BY <2>1 DEF TypeOK, OpenCall
  <2>2. CASE OpenParse
    BY <2>2 DEF TypeOK, OpenParse, Reject
  <2>7. CASE OpenKey
    BY <2>7 DEF TypeOK, OpenKey, Reject
  <2>3. CASE OpenSecret
    BY <2>3 DEF TypeOK, OpenSecret, Reject
  <2>4. CASE OpenFrames
    BY <2>4 DEF TypeOK, OpenFrames, Reject
  <2>5. CASE OpenChunk
    <3>1. bundle' = bundle /\ used' = used
      BY <2>5 DEF OpenChunk, BadChunk, Reject
    <3>2. idx' = idx \/ idx' = idx + 1
      BY <2>5 DEF OpenChunk, BadChunk, Reject
    <3>3. opc' \in {"done", "chunks", "failed"}
      BY <2>5 DEF OpenChunk, BadChunk, Reject
    <3>. QED  BY <3>1, <3>2, <3>3 DEF TypeOK
  <2>6. CASE OpenReturn
    BY <2>6 DEF TypeOK, OpenReturn
  <2>. QED  BY <2>1, <2>2, <2>3, <2>4, <2>5, <2>6, <2>7 DEF OpenStep
<1>. QED  BY <1>1, <1>2 DEF TypeOK, sealVars, storeVars, Finished, Stored

-----------------------------------------------------------------------------
(* The writer's half of the inductive invariant.                           *)

(* Appending the next slice of a sequence to its first ones.               *)
LEMMA NextSlice ==
  ASSUME NEW S, NEW m \in Seq(S), NEW p \in 0..Len(m), NEW q \in p..Len(m)
  PROVE  SubSeq(m, 1, p) \o SubSeq(m, p + 1, q) = SubSeq(m, 1, q)
BY ConcatAdjacentSubSeq

(* A new call starts with nothing cut, and a refused one has no state.     *)
LEMMA SealCallCutting == TypeOK /\ SealCall => (CuttingInv /\ SealingInv)'
<1>. SUFFICES ASSUME TypeOK, SealCall PROVE (CuttingInv /\ SealingInv)'
  OBVIOUS
<1>1. CASE SealFail
  BY <1>1 DEF SealFail, SealEnd, CuttingInv, SealingInv
<1>2. CASE ~SealFail
  <2>1. PICK s \in Streams, m \in Messages, b \in Bundles, k \in ChunkSizes :
          /\ s \notin Finished /\ 1 <= k /\ k <= U32Max
          /\ spc' = "split" /\ cur' = s /\ pt' = m /\ to' = b.rcpt /\ size' = k
          /\ off' = 0 /\ chunks' = <<>> /\ body' = <<>> /\ sent' = sent
    BY <1>2 DEF SealCall, ChunkSizeOk
  <2>2. k \in 1..U32Max /\ 0 = 0 * k
    <3>1. k \in Nat
      OBVIOUS
    <3>. QED  BY <2>1, <3>1
  <2>3. Len(chunks') = 0
    BY <2>1
  <2>4. to' \in Recipients
    BY <2>1 DEF Bundles
  <2>5. CuttingInv'
    BY <2>1, <2>2, <2>3, <2>4 DEF CuttingInv, Finished
  <2>6. SealingInv'
    BY <2>1 DEF SealingInv
  <2>. QED  BY <2>5, <2>6
<1>. QED  BY <1>1, <1>2

(* The piece cut next is the next piece of the plaintext.                  *)
LEMMA SealSplitCutting ==
  TypeOK /\ CuttingInv /\ SealSplit => (CuttingInv /\ SealingInv)'
<1>. SUFFICES ASSUME TypeOK, CuttingInv, SealSplit
              PROVE  (CuttingInv /\ SealingInv)'
  OBVIOUS
<1>. DEFINE n == Len(chunks)
            x == SubSeq(pt, off + 1, IF off + size < Len(pt) THEN off + size ELSE Len(pt))
<1>1. /\ pt \in Seq(Byte) /\ chunks \in Seq(Seq(Byte)) /\ size \in Nat
      /\ off = n * size /\ n \in Nat /\ off < Len(pt)
      /\ chunks' = Append(chunks, x) /\ off' = off + size
      /\ UNCHANGED <<spc, cur, pt, to, size, base, body, sent>>
  BY DEF TypeOK, CuttingInv, SealSplit
<1>. HIDE DEF x
<1>2. /\ Len(chunks') = n + 1
      /\ \A i \in 1..n : chunks'[i] = chunks[i]
      /\ chunks'[n + 1] = x
  <2>1. x \in Seq(Byte)
    <3>1. off + 1 \in Nat \ {0}
      BY <1>1
    <3>2. (IF off + size < Len(pt) THEN off + size ELSE Len(pt)) \in 0..Len(pt)
      BY <1>1
    <3>. QED  BY <1>1, <3>1, <3>2, SliceType DEF x
  <2>. QED  BY <1>1, <2>1, AppendProperties
<1>3. (n + 1) * size = off + size
  BY <1>1
<1>4. x = Piece(pt, size, n + 1) /\ (n + 1 - 1) * size <= Len(pt)
  <2>1. n + 1 - 1 = n
    BY <1>1
  <2>2. x = SubSeq(pt, n * size + 1,
                   IF (n + 1) * size < Len(pt) THEN (n + 1) * size ELSE Len(pt))
    BY <1>1, <1>3 DEF x
  <2>3. n * size <= Len(pt)
    BY <1>1
  <2>. QED  BY <2>1, <2>2, <2>3 DEF Piece
<1>5. ASSUME NEW i \in 1..Len(chunks')
      PROVE  (i - 1) * size <= Len(pt) /\ chunks'[i] = Piece(pt, size, i)
  <2>1. CASE i \in 1..n
    BY <2>1, <1>2 DEF CuttingInv, SealSplit
  <2>2. CASE i = n + 1
    BY <2>2, <1>2, <1>4
  <2>3. i \in 1..n \/ i = n + 1
    BY <1>1, <1>2
  <2>. QED  BY <2>1, <2>2, <2>3
<1>6. off' = Len(chunks') * size'
  BY <1>1, <1>2, <1>3
<1>7. CuttingInv'
  BY <1>1, <1>5, <1>6 DEF CuttingInv, SealSplit, Finished
<1>8. SealingInv'
  BY <1>1 DEF SealingInv, SealSplit
<1>. QED  BY <1>7, <1>8

(* When the list is complete its pieces cover the plaintext: b"" is the    *)
(* one piece of the empty message.                                         *)
LEMMA SealCountCutting ==
  TypeOK /\ CuttingInv /\ SealCount => (CuttingInv /\ SealingInv)'
<1>. SUFFICES ASSUME TypeOK, CuttingInv, SealCount
              PROVE  (CuttingInv /\ SealingInv)'
  OBVIOUS
<1>1. CASE SealFail
  BY <1>1 DEF SealFail, SealEnd, CuttingInv, SealingInv
<1>2. CASE ~SealFail
  <2>1. /\ pt \in Seq(Byte) /\ chunks \in Seq(Seq(Byte)) /\ size \in Nat \ {0}
        /\ Len(chunks) \in Nat
        /\ off = Len(chunks) * size /\ off >= Len(pt) /\ body = <<>>
        /\ spc' = "emit"
        /\ chunks' = IF chunks = <<>> THEN << <<>> >> ELSE chunks
        /\ UNCHANGED <<cur, pt, to, size, base, body, sent>>
    BY <1>2 DEF TypeOK, CuttingInv, SealCount
  <2>2. /\ Len(chunks') \in Nat \ {0}
        /\ Len(pt) <= Len(chunks') * size
        /\ \A i \in 1..Len(chunks') : /\ (i - 1) * size <= Len(pt)
                                      /\ chunks'[i] = Piece(pt, size, i)
    <3>1. CASE chunks = <<>>
      <4>1. Len(pt) = 0
        BY <2>1, <3>1
      <4>2. Piece(pt, size, 1) = <<>>
        BY <2>1, <4>1, SubSeqEmpty DEF Piece
      <4>3. Len(chunks') = 1 /\ chunks'[1] = <<>>
        BY <2>1, <3>1
      <4>4. 0 <= 1 * size /\ 0 * size = 0 /\ 1 - 1 = 0
        BY <2>1
      <4>. QED  BY <4>1, <4>2, <4>3, <4>4
    <3>2. CASE chunks # <<>>
      <4>1. Len(chunks) \in Nat \ {0}
        BY <2>1, <3>2, EmptySeq
      <4>. QED  BY <2>1, <3>2, <4>1 DEF CuttingInv, SealCount
    <3>. QED  BY <3>1, <3>2
  <2>3. CuttingInv'
    BY <2>1, <2>2 DEF CuttingInv, SealCount, Finished
  <2>4. SealingInv'
    <3>1. body' = <<>> /\ Len(body') = 0
      BY <2>1
    <3>2. Len(chunks') > 0 /\ Len(pt') <= Len(chunks') * size' /\ Len(body') < Len(chunks')
      BY <2>1, <2>2, <3>1
    <3>3. \A S : body' \in Seq(S)
      BY <3>1
    <3>4. \A i \in 1..Len(body') : FALSE
      BY <3>1
    <3>. QED  BY <3>2, <3>3, <3>4 DEF SealingInv
  <2>. QED  BY <2>3, <2>4
<1>. QED  BY <1>1, <1>2

(* The frame an iteration of the sealing loop appends is the next one of   *)
(* the plaintext's frames.                                                 *)
Emitted == Append(body, SealChunkAt(Header(cur, to, base, size), to, Len(body),
                                    Len(chunks), chunks[Len(body) + 1]))

(* With it, the frames so far are the first frames of the plaintext.       *)
LEMMA EmittedFrames ==
  ASSUME TypeOK, CuttingInv, SealingInv, spc = "emit",
         NEW h, h = Header(cur, to, base, size),
         NEW n, n = Len(chunks)
  PROVE  /\ n \in Nat \ {0} /\ Len(pt) <= n * size /\ h.csize = size
         /\ Len(Emitted) = Len(body) + 1 /\ Len(body) \in Nat /\ Len(body) < n
         /\ Emitted \in Seq(SealedFrames(h, to, pt, n))
         /\ \A i \in 1..Len(Emitted) : Emitted[i] = SealedFrame(h, to, pt, n, i)
<1>. DEFINE j == Len(body)
            f == SealChunkAt(h, to, j, n, chunks[j + 1])
<1>1. /\ chunks \in Seq(Seq(Byte)) /\ pt \in Seq(Byte)
      /\ n > 0 /\ Len(pt) <= n * size /\ j < n
      /\ body \in Seq(SealedFrames(h, to, pt, n))
      /\ \A i \in 1..j : body[i] = SealedFrame(h, to, pt, n, i)
  BY DEF TypeOK, SealingInv
<1>2. n \in Nat \ {0} /\ j \in Nat /\ j + 1 \in 1..n /\ j + 1 - 1 = j
  BY <1>1
<1>3. h.csize = size
  BY DEF Header
<1>4. chunks[j + 1] = Piece(pt, h.csize, j + 1)
  BY <1>2, <1>3 DEF CuttingInv
<1>5. f = SealedFrame(h, to, pt, n, j + 1)
  BY <1>2, <1>4 DEF SealedFrame
<1>6. f \in SealedFrames(h, to, pt, n)
  BY <1>2, <1>5 DEF SealedFrames
<1>7. Emitted = Append(body, f)
  BY DEF Emitted
<1>. HIDE DEF f
<1>8. /\ Emitted \in Seq(SealedFrames(h, to, pt, n))
      /\ Len(Emitted) = j + 1
      /\ \A i \in 1..j : Emitted[i] = body[i]
      /\ Emitted[j + 1] = f
  BY <1>1, <1>6, <1>7, AppendProperties
<1>9. ASSUME NEW i \in 1..Len(Emitted)
      PROVE  Emitted[i] = SealedFrame(h, to, pt, n, i)
  <2>1. i \in 1..j \/ i = j + 1
    BY <1>2, <1>8
  <2>. QED  BY <2>1, <1>1, <1>5, <1>8
<1>. QED  BY <1>1, <1>2, <1>3, <1>8, <1>9

(* The three ways an iteration of the sealing loop ends.                   *)
EmitMore == /\ Len(Emitted) < Len(chunks)
            /\ body' = Emitted
            /\ UNCHANGED <<spc, cur, pt, to, size, base, off, chunks, sent, wire>>

EmitLast ==
  LET stream == Stream(Header(cur, to, base, size), Emitted)
  IN  /\ Len(Emitted) = Len(chunks)
      /\ sent' = With(sent, cur, [pt |-> pt, to |-> to, env |-> stream])
      /\ wire' = With(wire, cur, stream)
      /\ SealEnd("idle")

(* An iteration raises, goes on, or returns.                               *)
LEMMA SealEmitCases ==
  ASSUME SealEmit
  PROVE  /\ spc = "emit" /\ faults' = faults /\ UNCHANGED openVars
         /\ SealFail \/ EmitMore \/ EmitLast
BY DEF SealEmit, EmitMore, EmitLast, Emitted

(* The sealing loop keeps the writer's half of the invariant.              *)
LEMMA SealEmitCutting ==
  TypeOK /\ CuttingInv /\ SealingInv /\ SealEmit => (CuttingInv /\ SealingInv)'
<1>. SUFFICES ASSUME TypeOK, CuttingInv, SealingInv, SealEmit
              PROVE  (CuttingInv /\ SealingInv)'
  OBVIOUS
<1>1. CASE SealFail
  BY <1>1 DEF SealFail, SealEnd, CuttingInv, SealingInv
<1>2. CASE EmitLast
  BY <1>2 DEF EmitLast, SealEnd, CuttingInv, SealingInv
<1>3. CASE EmitMore
  <2>1. spc = "emit"
    BY SealEmitCases
  <2>2. CuttingInv'
    BY <1>3, <2>1 DEF EmitMore, CuttingInv, Finished
  <2>3. SealingInv'
    BY <1>3, <2>1, EmittedFrames DEF EmitMore, SealingInv
  <2>. QED  BY <2>2, <2>3
<1>. QED  BY <1>1, <1>2, <1>3, SealEmitCases

(* A returned stream is recorded and stored with the frames just sealed;   *)
(* the earlier ones stay.                                                  *)
LEMMA EmitLastSent ==
  ASSUME TypeOK, CuttingInv, EmitLast, spc = "emit",
         NEW stream, stream = Stream(Header(cur, to, base, size), Emitted)
  PROVE  /\ cur \in Streams /\ cur \notin Finished
         /\ Finished' = Finished \union {cur} /\ Stored' = Stored \union {cur}
         /\ \A s \in Finished : sent'[s] = sent[s] /\ wire'[s] = wire[s]
         /\ sent'[cur] = [pt |-> pt, to |-> to, env |-> stream]
         /\ wire'[cur] = stream
<1>1. cur \in Streams /\ cur \notin Finished /\ Stored = Finished
  BY DEF CuttingInv, TypeOK
<1>2. /\ sent' = With(sent, cur, [pt |-> pt, to |-> to, env |-> stream])
      /\ wire' = With(wire, cur, stream)
  BY DEF EmitLast
<1>3. /\ Finished' = Finished \union {cur}
      /\ \A s \in Finished : sent'[s] = sent[s]
      /\ sent'[cur] = [pt |-> pt, to |-> to, env |-> stream]
  BY <1>1, <1>2 DEF Finished, With
<1>4. /\ Stored' = Stored \union {cur}
      /\ \A s \in Stored : wire'[s] = wire[s]
      /\ wire'[cur] = stream
  BY <1>1, <1>2 DEF Stored, With
<1>. QED  BY <1>1, <1>3, <1>4

(* The sealing loop keeps the types.                                       *)
LEMMA SealEmitTypeOK == TypeOK /\ CuttingInv /\ SealEmit => TypeOK'
<1>. SUFFICES ASSUME TypeOK, CuttingInv, SealEmit PROVE TypeOK'
  OBVIOUS
<1>1. CASE SealFail
  BY <1>1, SealEndType, SealEmitCases
     DEF TypeOK, SealFail, openVars, Finished, Stored
<1>2. CASE EmitMore
  BY <1>2, SealEmitCases DEF TypeOK, EmitMore, openVars, Finished, Stored
<1>3. CASE EmitLast
  <2>1. SealEnd("idle") /\ spc = "emit" /\ faults' = faults /\ UNCHANGED openVars
    BY <1>3, SealEmitCases DEF EmitLast
  <2>2. pt \in Messages /\ to \in Recipients
    BY <2>1 DEF CuttingInv
  <2>3. /\ Finished' \subseteq Streams /\ Stored' = Finished'
        /\ \A s \in Finished' : sent'[s].pt \in Messages /\ sent'[s].to \in Recipients
    <3>1. PICK stream : stream = Stream(Header(cur, to, base, size), Emitted)
      OBVIOUS
    <3>2. /\ cur \in Streams
          /\ Finished' = Finished \union {cur} /\ Stored' = Stored \union {cur}
          /\ \A s \in Finished : sent'[s] = sent[s]
          /\ sent'[cur] = [pt |-> pt, to |-> to, env |-> stream]
      BY <1>3, <2>1, <3>1, EmitLastSent
    <3>3. sent'[cur].pt = pt /\ sent'[cur].to = to
      BY <3>2
    <3>. QED  BY <2>2, <3>2, <3>3 DEF TypeOK
  <2>. QED  BY <2>1, <2>3, SealEndType DEF TypeOK, openVars
<1>. QED  BY <1>1, <1>2, <1>3, SealEmitCases

-----------------------------------------------------------------------------
(* Returned streams, and what storage makes of them.                       *)

(* The stream a call returns holds all the frames of its plaintext.        *)
LEMMA SealEmitSent ==
  TypeOK /\ CuttingInv /\ SealingInv /\ SentInv /\ SealEmit => SentInv'
<1>. SUFFICES ASSUME TypeOK, CuttingInv, SealingInv, SentInv, SealEmit
              PROVE  SentInv'
  OBVIOUS
<1>1. CASE sent' = sent
  BY <1>1 DEF SentInv, Finished
<1>2. CASE EmitLast
  <2>. DEFINE h == Header(cur, to, base, size)
              n == Len(chunks)
  <2>1. PICK stream : stream = Stream(h, Emitted)
    OBVIOUS
  <2>2. spc = "emit" /\ Len(Emitted) = n
    BY <1>2, SealEmitCases DEF EmitLast
  <2>3. /\ Finished' = Finished \union {cur}
        /\ \A s \in Finished : sent'[s] = sent[s]
        /\ sent'[cur] = [pt |-> pt, to |-> to, env |-> stream]
    BY <1>2, <2>1, <2>2, EmitLastSent
  <2>4. /\ n \in Nat \ {0} /\ Len(pt) <= n * size /\ h.csize = size
        /\ Emitted \in Seq(SealedFrames(h, to, pt, n))
        /\ \A i \in 1..n : Emitted[i] = SealedFrame(h, to, pt, n, i)
    BY <2>2, EmittedFrames
  <2>5. \A i \in 1..n : (i - 1) * size <= Len(pt)
    BY <2>2 DEF CuttingInv
  <2>6. size \in Nat \ {0}
    BY <2>2 DEF CuttingInv
  <2>7. /\ sent'[cur].env = stream /\ stream.hdr = h /\ stream.body = Emitted
        /\ sent'[cur].pt = pt /\ sent'[cur].to = to
    BY <2>1, <2>3 DEF Stream
  <2>8. h = Header(cur, to, h.nonce, h.csize)
    BY DEF Header
  <2>. HIDE DEF h, n
  <2>9. ASSUME NEW s \in Finished'
        PROVE LET e == sent'[s].env
                  g == e.hdr
                  m == sent'[s].pt
                  k == Len(e.body)
              IN  /\ e = Stream(Header(s, sent'[s].to, g.nonce, g.csize), e.body)
                  /\ g.csize \in Nat \ {0}
                  /\ k > 0 /\ Len(m) <= k * g.csize
                  /\ e.body \in Seq(SealedFrames(g, sent'[s].to, m, k))
                  /\ \A i \in 1..k : /\ (i - 1) * g.csize <= Len(m)
                                     /\ e.body[i] = SealedFrame(g, sent'[s].to, m, k, i)
    <3>1. CASE s \in Finished
      BY <3>1, <2>3 DEF SentInv
    <3>2. CASE s = cur
      BY <3>2, <2>1, <2>2, <2>4, <2>5, <2>6, <2>7, <2>8
    <3>. QED  BY <3>1, <3>2, <2>3
  <2>. QED  BY <2>9 DEF SentInv
<1>. QED  BY <1>1, <1>2, SealEmitCases DEF SealFail, EmitMore

(* What is genuine stays so.                                               *)
LEMMA GenuineGrows ==
  ASSUME Finished \subseteq Finished', \A s \in Finished : sent'[s] = sent[s]
  PROVE  Genuine \subseteq Genuine'
BY DEF Genuine

(* Returning a stream changes none that has been returned before.          *)
LEMMA SealEmitGrows ==
  ASSUME TypeOK, CuttingInv, SealEmit
  PROVE  /\ Finished \subseteq Finished' /\ \A s \in Finished : sent'[s] = sent[s]
         /\ Genuine \subseteq Genuine'
<1>1. CASE sent' = sent
  BY <1>1, GenuineGrows DEF Finished
<1>2. CASE EmitLast
  <2>1. PICK stream : stream = Stream(Header(cur, to, base, size), Emitted)
    OBVIOUS
  <2>2. Finished \subseteq Finished' /\ \A s \in Finished : sent'[s] = sent[s]
    BY <1>2, <2>1, EmitLastSent, SealEmitCases
  <2>. QED  BY <2>2, GenuineGrows
<1>. QED  BY <1>1, <1>2, SealEmitCases DEF SealFail, EmitMore

(* The stored copy of a new stream holds frames that were sealed.          *)
LEMMA SealEmitWire ==
  TypeOK /\ CuttingInv /\ SealingInv /\ WireInv /\ SealEmit => WireInv'
<1>. SUFFICES ASSUME TypeOK, CuttingInv, SealingInv, WireInv, SealEmit
              PROVE  WireInv'
  OBVIOUS
<1>1. CASE wire' = wire
  BY <1>1, SealEmitGrows, SeqMonotonic DEF WireInv, StoredBytes, Stored
<1>2. CASE EmitLast
  <2>1. PICK stream : stream = Stream(Header(cur, to, base, size), Emitted)
    OBVIOUS
  <2>2. spc = "emit"
    BY SealEmitCases
  <2>3. /\ cur \in Finished' /\ Stored' = Stored \union {cur}
        /\ \A s \in Finished : wire'[s] = wire[s]
        /\ sent'[cur] = [pt |-> pt, to |-> to, env |-> stream]
        /\ wire'[cur] = stream
    BY <1>2, <2>1, <2>2, EmitLastSent
  <2>4. stream.body = Emitted /\ stream.tail = "whole" /\ sent'[cur].env = stream
    BY <2>1, <2>3 DEF Stream
  <2>5. {Emitted[i] : i \in 1..Len(Emitted)} \subseteq Genuine'
    BY <2>3, <2>4 DEF Genuine
  <2>6. Emitted \in Seq(Genuine')
    <3>1. PICK S : Emitted \in Seq(S)
      BY <2>2, EmittedFrames
    <3>2. Emitted \in Seq({Emitted[i] : i \in 1..Len(Emitted)})
      BY <3>1, SeqOfRange, RangeEquality
    <3>. QED  BY <2>5, <3>2, SeqMonotonic
  <2>7. ASSUME NEW s \in Stored'
        PROVE  StoredBytes(wire[s])'
    <3>1. CASE s \in Stored
      BY <3>1, <2>3, SealEmitGrows, SeqMonotonic DEF WireInv, StoredBytes, TypeOK
    <3>2. CASE s = cur
      <4>1. wire'[s] = stream
        BY <3>2, <2>3
      <4>2. stream = [hdr |-> stream.hdr, body |-> stream.body, tail |-> stream.tail]
        BY <2>1 DEF Stream
      <4>. QED  BY <4>1, <4>2, <2>4, <2>6 DEF Tails, StoredBytes
    <3>. QED  BY <2>3, <3>1, <3>2
  <2>. QED  BY <2>7 DEF WireInv
<1>. QED  BY <1>1, <1>2, SealEmitCases DEF SealFail, EmitMore

(* The sequence edits of the faults use the elements they are given.       *)
LEMMA EditType ==
  ASSUME NEW S, NEW q \in Seq(S), NEW i \in 1..Len(q), NEW x \in S,
         NEW y \in S, NEW j \in 1..Len(q)
  PROVE  /\ RemoveAt(q, i) \in Seq(S)
         /\ InsertAt(q, i, x) \in Seq(S)
         /\ [q EXCEPT ![i] = x] \in Seq(S)
         /\ [q EXCEPT ![i] = x, ![j] = y] \in Seq(S)
         /\ Append(SubSeq(q, 1, i - 1), x) \in Seq(S)
<1>1. /\ Len(q) \in Nat /\ 1 \in Nat \ {0} /\ i + 1 \in Nat \ {0}
      /\ i \in Nat \ {0}
      /\ i - 1 \in 0..Len(q) /\ Len(q) \in 0..Len(q)
  OBVIOUS
<1>2. /\ SubSeq(q, 1, i - 1) \in Seq(S)
      /\ SubSeq(q, i, Len(q)) \in Seq(S)
      /\ SubSeq(q, i + 1, Len(q)) \in Seq(S)
  BY <1>1, SliceType
<1>3. <<x>> \in Seq(S)
  OBVIOUS
<1>4. RemoveAt(q, i) \in Seq(S)
  BY <1>2, ConcatProperties DEF RemoveAt
<1>5. InsertAt(q, i, x) \in Seq(S)
  <2>1. SubSeq(q, 1, i - 1) \o <<x>> \in Seq(S)
    BY <1>2, <1>3, ConcatProperties
  <2>. QED  BY <2>1, <1>2, ConcatProperties DEF InsertAt
<1>6. [q EXCEPT ![i] = x] \in Seq(S) /\ Len([q EXCEPT ![i] = x]) = Len(q)
  BY ExceptSeq
<1>7. [[q EXCEPT ![i] = x] EXCEPT ![j] = y] \in Seq(S)
  BY <1>6, ExceptSeq
<1>8. [q EXCEPT ![i] = x, ![j] = y] = [[q EXCEPT ![i] = x] EXCEPT ![j] = y]
  OBVIOUS
<1>. QED  BY <1>2, <1>4, <1>5, <1>6, <1>7, <1>8, AppendProperties

(* A fault that leaves genuine frames leaves a genuine store.              *)
LEMMA FaultWire ==
  ASSUME WireInv, NEW s \in Stored, NEW h, NEW b \in Seq(Genuine),
         NEW tail \in Tails, Fault(s, h, b, tail)
  PROVE  WireInv'
<1>1. /\ wire' = [wire EXCEPT ![s] = [hdr |-> h, body |-> b, tail |-> tail]]
      /\ sent' = sent
  BY DEF Fault
<1>2. Stored' = Stored /\ Genuine' = Genuine
  BY <1>1 DEF Stored, Genuine, Finished
<1>3. /\ wire'[s] = [hdr |-> h, body |-> b, tail |-> tail]
      /\ \A t \in Stored \ {s} : wire'[t] = wire[t]
  BY <1>1 DEF Stored
<1>4. ASSUME NEW t \in Stored
      PROVE  StoredBytes(wire[t])'
  <2>1. CASE t = s
    BY <2>1, <1>2, <1>3 DEF StoredBytes
  <2>2. CASE t # s
    BY <2>2, <1>2, <1>3 DEF WireInv, StoredBytes
  <2>. QED  BY <2>1, <2>2
<1>. QED  BY <1>2, <1>4 DEF WireInv

(* Whatever storage does, a stored frame was sealed or is damaged.         *)
LEMMA StorageWire == TypeOK /\ WireInv /\ StorageFault => WireInv'
<1>. SUFFICES ASSUME TypeOK, WireInv, StorageFault PROVE WireInv'
  OBVIOUS
<1>1. \A s \in Stored :
        /\ wire[s].body \in Seq(Genuine) /\ wire[s].tail \in Tails
        /\ \A i \in Frames(s) : i \in 1..Len(wire[s].body) /\ wire[s].body[i] \in Genuine
  <2>. SUFFICES ASSUME NEW s \in Stored
                PROVE  /\ wire[s].body \in Seq(Genuine) /\ wire[s].tail \in Tails
                       /\ \A i \in Frames(s) : /\ i \in 1..Len(wire[s].body)
                                               /\ wire[s].body[i] \in Genuine
    OBVIOUS
  <2>1. wire[s].body \in Seq(Genuine) /\ wire[s].tail \in Tails
    BY DEF WireInv, StoredBytes
  <2>. QED  BY <2>1 DEF Frames
<1>2. Bad \in Genuine
  BY DEF Genuine
<1>3. CASE LoseFrame
  <2>1. PICK s, i :
          /\ s \in Stored
          /\ i \in Frames(s) /\ FrameFault(s, RemoveAt(wire[s].body, i))
    BY <1>3 DEF LoseFrame
  <2>2. RemoveAt(wire[s].body, i) \in Seq(Genuine)
    BY <1>1, <1>2, <2>1, EditType
  <2>. QED  BY <1>1, <2>1, <2>2, FaultWire DEF FrameFault
<1>4. CASE RepeatFrame
  <2>1. PICK s, i :
          /\ s \in Stored
          /\ i \in Frames(s)
          /\ FrameFault(s, InsertAt(wire[s].body, i, wire[s].body[i]))
    BY <1>4 DEF RepeatFrame
  <2>2. InsertAt(wire[s].body, i, wire[s].body[i]) \in Seq(Genuine)
    BY <1>1, <2>1, EditType
  <2>. QED  BY <1>1, <2>1, <2>2, FaultWire DEF FrameFault
<1>5. CASE SwapFrames
  <2>1. PICK s, i, j :
          /\ s \in Stored
          /\ i \in Frames(s) /\ j \in Frames(s)
          /\ FrameFault(s, [wire[s].body EXCEPT ![i] = wire[s].body[j],
                                                ![j] = wire[s].body[i]])
    BY <1>5 DEF SwapFrames
  <2>2. [wire[s].body EXCEPT ![i] = wire[s].body[j], ![j] = wire[s].body[i]]
          \in Seq(Genuine)
    BY <1>1, <2>1, EditType
  <2>. QED  BY <1>1, <2>1, <2>2, FaultWire DEF FrameFault
<1>6. CASE CrossFrame
  <2>1. PICK s, t, i, j :
          /\ s \in Stored /\ t \in Stored
          /\ i \in Frames(s) /\ j \in Frames(t)
          /\ FrameFault(s, [wire[s].body EXCEPT ![i] = wire[t].body[j]])
    BY <1>6 DEF CrossFrame
  <2>2. [wire[s].body EXCEPT ![i] = wire[t].body[j]] \in Seq(Genuine)
    BY <1>1, <2>1, EditType
  <2>. QED  BY <1>1, <2>1, <2>2, FaultWire DEF FrameFault
<1>7. CASE DamageFrame
  <2>1. PICK s, i :
          /\ s \in Stored
          /\ i \in Frames(s)
          /\ FrameFault(s, [wire[s].body EXCEPT ![i] = Bad])
    BY <1>7 DEF DamageFrame
  <2>2. [wire[s].body EXCEPT ![i] = Bad] \in Seq(Genuine)
    BY <1>1, <1>2, <2>1, EditType
  <2>. QED  BY <1>1, <2>1, <2>2, FaultWire DEF FrameFault
<1>8. CASE Cut
  <2>1. PICK s, tail, n :
          /\ s \in Stored /\ tail \in Tails
          /\ n \in 0..Len(wire[s].body)
          /\ Fault(s, wire[s].hdr,
                   IF tail = "header" THEN <<>> ELSE SubSeq(wire[s].body, 1, n),
                   IF wire[s].tail = "header" THEN "header" ELSE tail)
    BY <1>8 DEF Cut
  <2>2. /\ SubSeq(wire[s].body, 1, n) \in Seq(Genuine) /\ <<>> \in Seq(Genuine)
        /\ (IF wire[s].tail = "header" THEN "header" ELSE tail) \in Tails
    <3>1. 1 \in Nat \ {0}
      OBVIOUS
    <3>. QED  BY <3>1, <1>1, <2>1, SliceType DEF Tails
  <2>3. CASE tail = "header"
    BY <2>1, <2>2, <2>3, FaultWire
  <2>4. CASE tail # "header"
    BY <2>1, <2>2, <2>4, FaultWire
  <2>. QED  BY <2>3, <2>4
<1>9. CASE Reframe
  <2>1. PICK s, tail, i :
          /\ s \in Stored /\ tail \in Tails
          /\ i \in Frames(s)
          /\ Fault(s, wire[s].hdr, Append(SubSeq(wire[s].body, 1, i - 1), Bad), tail)
    BY <1>9 DEF Reframe
  <2>2. Append(SubSeq(wire[s].body, 1, i - 1), Bad) \in Seq(Genuine)
    BY <1>1, <1>2, <2>1, EditType
  <2>. QED  BY <2>1, <2>2, FaultWire
<1>10. CASE DamageHeader \/ CrossHeader
  <2>1. PICK s, h : s \in Stored /\ HeaderFault(s, h)
    BY <1>10 DEF DamageHeader, CrossHeader
  <2>. QED  BY <1>1, <2>1, FaultWire DEF HeaderFault
<1>. QED  BY <1>3, <1>4, <1>5, <1>6, <1>7, <1>8, <1>9, <1>10 DEF StorageFault

-----------------------------------------------------------------------------
(* The reader's half of the inductive invariant.                           *)

(* What open_stream has established survives the return of other streams.  *)
LEMMA OpenUntouched ==
  ASSUME OpenTypeInv, OpeningInv, UNCHANGED openVars,
         Finished \subseteq Finished', \A s \in Finished : sent'[s] = sent[s],
         Genuine \subseteq Genuine'
  PROVE  (OpenTypeInv /\ OpeningInv)'
<1>1. OpenTypeInv'
  BY SeqMonotonic DEF OpenTypeInv, StoredBytes, openVars
<1>2. \A s \in Finished : OpenedFrom(s) => OpenedFrom(s)'
  BY DEF OpenedFrom, openVars
<1>3. OpeningInv'
  BY <1>2 DEF OpeningInv, openVars
<1>. QED  BY <1>1, <1>3

(* A header that passes its checks is complete.                            *)
LEMMA HeaderVerdict ==
  ASSUME FirstFailure(HeaderChecks) = "none"
  PROVE  env.tail # "header"
<1>. DEFINE t == HeaderChecks
<1>1. Len(t) = 4
  BY DEF HeaderChecks
<1>2. /\ t[4] = Check("truncated header", env.tail # "header")
  BY DEF HeaderChecks
<1>. HIDE DEF t
<1>3. \A i \in 1..Len(t) : t[i] = "none"
  <2>1. Len(t) \in Nat
    BY <1>1
  <2>. QED  BY Zenon, <2>1, NoFailure DEF t
<1>4. \A i \in 1..4 : t[i] = "none"
  BY Zenon, <1>1, <1>3
<1>5. t[4] = "none"
  BY <1>4
<1>. QED  BY <1>2, <1>5 DEF Check

(* A bundle that passes its checks is the private one the header names.    *)
LEMMA KeyVerdict ==
  ASSUME FirstFailure(KeyChecks) = "none"
  PROVE  /\ bundle.role = "kem_priv"
         /\ SuiteOf[bundle.rcpt] = env.hdr.suite /\ env.hdr.kid = bundle.rcpt
<1>. DEFINE t == KeyChecks
<1>1. Len(t) = 3
  BY DEF KeyChecks
<1>2. /\ t[1] = Check("key role", bundle.role = "kem_priv")
      /\ t[2] = Check("suite mismatch", SuiteOf[bundle.rcpt] = env.hdr.suite)
      /\ t[3] = Check("key-id mismatch", env.hdr.kid = bundle.rcpt)
  BY DEF KeyChecks
<1>. HIDE DEF t
<1>3. \A i \in 1..Len(t) : t[i] = "none"
  <2>1. Len(t) \in Nat
    BY <1>1
  <2>. QED  BY Zenon, <2>1, NoFailure DEF t
<1>4. \A i \in 1..3 : t[i] = "none"
  BY Zenon, <1>1, <1>3
<1>5. t[1] = "none" /\ t[2] = "none" /\ t[3] = "none"
  BY <1>4
<1>. QED  BY <1>2, <1>5 DEF Check

(* The blobs collected are whole, and there is one.                        *)
LEMMA FrameVerdict ==
  ASSUME FirstFailure(FrameChecks) = "none"
  PROVE  env.tail # "length" /\ env.tail # "chunk" /\ env.body # <<>>
<1>. DEFINE t == FrameChecks
<1>1. Len(t) = 3
  BY DEF FrameChecks
<1>2. /\ t[1] = Check("missing chunk length", env.tail # "length")
      /\ t[2] = Check("chunk runs past end", env.tail # "chunk")
      /\ t[3] = Check("empty stream", env.body # <<>>)
  BY DEF FrameChecks
<1>. HIDE DEF t
<1>3. \A i \in 1..Len(t) : t[i] = "none"
  <2>1. Len(t) \in Nat
    BY <1>1
  <2>. QED  BY Zenon, <2>1, NoFailure DEF t
<1>4. \A i \in 1..3 : t[i] = "none"
  BY Zenon, <1>1, <1>3
<1>5. t[1] = "none" /\ t[2] = "none" /\ t[3] = "none"
  BY <1>4
<1>. QED  BY <1>2, <1>5 DEF Check

(* The steps of open_stream keep what it holds: the frames of the store,   *)
(* and the key of the header it has parsed.                                *)
LEMMA OpenStepTyped ==
  TypeOK /\ WireInv /\ OpenTypeInv /\ (OpenCall \/ OpenStep \/ OpenReturn)
    => OpenTypeInv'
<1>. SUFFICES ASSUME TypeOK, WireInv, OpenTypeInv,
                     OpenCall \/ OpenStep \/ OpenReturn
              PROVE  OpenTypeInv'
  OBVIOUS
<1>1. sent' = sent
  BY DEF OpenCall, OpenStep, OpenParse, OpenKey, OpenSecret, OpenFrames,
     OpenChunk, OpenReturn
<1>2. Genuine' = Genuine
  BY <1>1 DEF Genuine, Finished
<1>3. CASE OpenCall
  <2>1. PICK s \in Stored, b \in Bundles : env' = wire[s] /\ bundle' = b
    BY <1>3 DEF OpenCall
  <2>2. opc' = "parse"
    BY <1>3 DEF OpenCall
  <2>3. StoredBytes(env)'
    BY <1>2, <2>1 DEF WireInv, StoredBytes
  <2>. QED  BY <2>1, <2>2, <2>3 DEF OpenTypeInv
<1>4. CASE OpenParse
  <2>1. CASE FirstFailure(HeaderChecks) = "none"
    <3>1. opc = "parse" /\ opc' = "keys" /\ UNCHANGED <<env, bundle, key>>
      BY <1>4, <2>1 DEF OpenParse, Reject
    <3>. QED  BY <1>2, <2>1, <3>1, HeaderVerdict DEF OpenTypeInv, StoredBytes
  <2>2. CASE FirstFailure(HeaderChecks) # "none"
    BY <1>2, <1>4, <2>2 DEF OpenTypeInv, StoredBytes, OpenParse, Reject
  <2>. QED  BY <2>1, <2>2
<1>5. CASE OpenKey
  BY <1>2, <1>5 DEF OpenTypeInv, StoredBytes, OpenKey, Reject
<1>6. CASE OpenSecret
  BY <1>2, <1>6 DEF OpenTypeInv, StoredBytes, OpenSecret, Reject
<1>7. CASE OpenFrames
  BY <1>2, <1>7 DEF OpenTypeInv, StoredBytes, OpenFrames, Reject
<1>8. CASE OpenChunk
  <2>1. /\ opc = "chunks" /\ opc' \in {"chunks", "done", "failed"}
        /\ UNCHANGED <<env, bundle, key>>
    BY <1>8 DEF OpenChunk, BadChunk, Reject
  <2>. QED  BY <1>2, <2>1 DEF OpenTypeInv, StoredBytes
<1>9. CASE OpenReturn
  BY <1>9 DEF OpenTypeInv, StoredBytes, OpenReturn
<1>. QED  BY <1>3, <1>4, <1>5, <1>6, <1>7, <1>8, <1>9 DEF OpenStep

(* Before the opening loop there is nothing to say about it, and the loop  *)
(* starts with nothing opened.                                             *)
LEMMA OpenBeforeLoop ==
  TypeOK /\ OpenTypeInv /\ OpeningInv
    /\ (OpenCall \/ OpenParse \/ OpenKey \/ OpenSecret \/ OpenFrames \/ OpenReturn)
    => OpeningInv'
<1>. SUFFICES ASSUME OpenTypeInv,
                     OpenCall \/ OpenParse \/ OpenKey \/ OpenSecret \/ OpenFrames \/ OpenReturn
              PROVE  OpeningInv'
  OBVIOUS
<1>1. CASE OpenCall \/ OpenParse \/ OpenKey \/ OpenSecret \/ OpenReturn
  <2>1. opc' \notin {"chunks", "done"}
    BY <1>1 DEF OpenCall, OpenParse, OpenKey, OpenSecret, OpenReturn, Reject
  <2>. QED  BY <2>1 DEF OpeningInv
<1>2. CASE OpenFrames
  <2>1. CASE FirstFailure(FrameChecks) = "none"
    <3>1. /\ opc = "frames" /\ opc' = "chunks" /\ idx' = 0 /\ out' = <<>>
          /\ env' = env
      BY <1>2, <2>1 DEF OpenFrames, Reject
    <3>2. env.tail # "length" /\ env.tail # "chunk" /\ env.body # <<>>
      BY <2>1, FrameVerdict
    <3>3. env.tail \in Tails /\ env.tail # "header" /\ env.body \in Seq(Genuine)
      BY <3>1 DEF OpenTypeInv, StoredBytes
    <3>4. env.tail = "whole"
      BY <3>2, <3>3 DEF Tails
    <3>5. 0 < Len(env.body)
      BY <3>2, <3>3, EmptySeq
    <3>. QED  BY <3>1, <3>4, <3>5 DEF OpeningInv
  <2>2. CASE FirstFailure(FrameChecks) # "none"
    <3>1. opc' = "failed"
      BY <1>2, <2>2 DEF OpenFrames, Reject
    <3>. QED  BY <3>1 DEF OpeningInv
  <2>. QED  BY <2>1, <2>2
<1>. QED  BY <1>1, <1>2

(* Two streams of one header have one recipient if they have one key: the  *)
(* recipient is an input of decapsulation.                                 *)
LEMMA KeyNamesRecipient ==
  ASSUME NEW h, NEW r, NEW q, StreamKey(h, r) = StreamKey(h, q)
  PROVE  r = q
<1>1. Decaps(r, h.ct) = Decaps(q, h.ct)
  BY DEF StreamKey, DeriveKey
<1>. QED  BY <1>1 DEF Decaps

(* A chunk that opens is the one sealed at this place of the stream whose  *)
(* header is being read, and it is the last of the one when it is the last *)
(* of the other.                                                           *)
LEMMA OpenedFrame ==
  ASSUME TypeOK, SentInv, OpenTypeInv, OpeningInv, opc = "chunks",
         NEW final, final = Final(idx, Len(env.body)),
         AeadOpens(key, ChunkNonce(env.hdr, idx, final),
                   ChunkAad(env.hdr, idx, final), env.body[idx + 1])
  PROVE  \E s \in Finished :
           /\ env.hdr = sent[s].env.hdr /\ bundle.rcpt = sent[s].to
           /\ env.hdr.ct = s
           /\ idx + 1 \in 1..Len(sent[s].env.body)
           /\ (idx + 1 = Len(env.body)) <=> (idx + 1 = Len(sent[s].env.body))
           /\ env.body[idx + 1] = sent[s].env.body[idx + 1]
           /\ idx * env.hdr.csize <= Len(sent[s].pt)
           /\ env.body[idx + 1].plaintext
                = Piece(sent[s].pt, env.hdr.csize, idx + 1)
<1>. DEFINE blob == env.body[idx + 1]
<1>1. /\ env.body \in Seq(Genuine) /\ idx \in Nat /\ idx < Len(env.body)
      /\ key = StreamKey(env.hdr, bundle.rcpt) /\ Len(env.body) \in Nat
  BY DEF TypeOK, OpenTypeInv, StoredBytes, OpeningInv
<1>2. blob \in Genuine
  BY <1>1
<1>3. /\ blob # Bad /\ blob.key = key
      /\ blob.aad = ChunkAad(env.hdr, idx, final)
  BY DEF AeadOpens
<1>. HIDE DEF blob
<1>4. PICK s, i : /\ s \in Finished
                  /\ i \in 1..Len(sent[s].env.body)
                  /\ blob = sent[s].env.body[i]
  BY <1>2, <1>3 DEF Genuine
<1>. DEFINE h == sent[s].env.hdr
            m == sent[s].pt
            n == Len(sent[s].env.body)
            r == sent[s].to
<1>5. /\ blob = SealedFrame(h, r, m, n, i)
      /\ (i - 1) * h.csize <= Len(m)
      /\ n \in Nat
      /\ sent[s].env = Stream(Header(s, r, h.nonce, h.csize), sent[s].env.body)
  BY <1>4 DEF SentInv
<1>6. h.ct = s
  <2>1. h = Header(s, r, h.nonce, h.csize)
    BY <1>5 DEF Stream
  <2>. QED  BY <2>1 DEF Header
<1>. HIDE DEF h, m, n, r
<1>7. /\ blob.key = StreamKey(h, r)
      /\ blob.aad = <<h, <<i - 1, Final(i - 1, n)>>>>
      /\ blob.plaintext = Piece(m, h.csize, i)
  BY <1>5 DEF SealedFrame, SealChunkAt, AeadSeal, ChunkAad, Ctr
<1>8. <<h, <<i - 1, Final(i - 1, n)>>>> = <<env.hdr, <<idx, final>>>>
  BY <1>3, <1>7 DEF ChunkAad, Ctr
<1>9. h = env.hdr /\ i - 1 = idx /\ Final(i - 1, n) = final
  BY <1>8
<1>10. i \in 1..n /\ i = idx + 1
  BY <1>1, <1>4, <1>5, <1>9 DEF n
<1>11. (idx + 1 = Len(env.body)) <=> (idx + 1 = n)
  BY <1>1, <1>5, <1>9 DEF Final
<1>12. bundle.rcpt = r
  BY <1>1, <1>3, <1>7, <1>9, KeyNamesRecipient
<1>13. /\ env.hdr = sent[s].env.hdr /\ bundle.rcpt = sent[s].to
       /\ env.hdr.ct = s
       /\ idx + 1 \in 1..Len(sent[s].env.body)
       /\ (idx + 1 = Len(env.body)) <=> (idx + 1 = Len(sent[s].env.body))
  BY <1>6, <1>9, <1>10, <1>11, <1>12 DEF h, n, r
<1>14. /\ blob = sent[s].env.body[idx + 1]
       /\ idx * env.hdr.csize <= Len(sent[s].pt)
       /\ blob.plaintext = Piece(sent[s].pt, env.hdr.csize, idx + 1)
  BY <1>4, <1>5, <1>7, <1>9, <1>10 DEF h, m
<1>. QED  BY <1>4, <1>13, <1>14 DEF blob

(* A stream is named by the ciphertext in its header.                      *)
LEMMA HeaderNames ==
  ASSUME SentInv, NEW s \in Finished
  PROVE  sent[s].env.hdr.ct = s
<1>1. sent[s].env = Stream(Header(s, sent[s].to, sent[s].env.hdr.nonce,
                                  sent[s].env.hdr.csize), sent[s].env.body)
  BY DEF SentInv
<1>2. sent[s].env.hdr = Header(s, sent[s].to, sent[s].env.hdr.nonce,
                               sent[s].env.hdr.csize)
  BY <1>1 DEF Stream
<1>. QED  BY <1>2 DEF Header

(* The first pieces of a message and the next one make its first pieces.   *)
LEMMA NextPiece ==
  ASSUME NEW S, NEW m \in Seq(S), NEW k \in Nat, NEW i \in Nat,
         i * k <= Len(m), NEW o,
         o = SubSeq(m, 1, IF i * k < Len(m) THEN i * k ELSE Len(m))
  PROVE  o \o Piece(m, k, i + 1)
           = SubSeq(m, 1, IF (i + 1) * k < Len(m) THEN (i + 1) * k ELSE Len(m))
<1>. DEFINE p == i * k
            q == IF (i + 1) * k < Len(m) THEN (i + 1) * k ELSE Len(m)
<1>1. p \in Nat /\ (i + 1) * k = p + k /\ i + 1 - 1 = i /\ Len(m) \in Nat
  OBVIOUS
<1>2. (IF i * k < Len(m) THEN i * k ELSE Len(m)) = p
  BY <1>1
<1>3. o = SubSeq(m, 1, p) /\ Piece(m, k, i + 1) = SubSeq(m, p + 1, q)
  BY <1>1, <1>2 DEF Piece
<1>4. p \in 0..Len(m) /\ q \in p..Len(m)
  BY <1>1
<1>. HIDE DEF p, q
<1>. QED  BY <1>3, <1>4, NextSlice DEF q

(* A chunk that opens extends out by the next piece of one plaintext.      *)
LEMMA OpenChunkOpening ==
  TypeOK /\ SentInv /\ OpenTypeInv /\ OpeningInv /\ OpenChunk => OpeningInv'
<1>. SUFFICES ASSUME TypeOK, SentInv, OpenTypeInv, OpeningInv, OpenChunk,
                     opc' \in {"chunks", "done"}
              PROVE  OpeningInv'
  BY DEF OpeningInv
<1>. DEFINE final == Final(idx, Len(env.body))
            blob == env.body[idx + 1]
            k == env.hdr.csize
<1>1. /\ opc = "chunks"
      /\ AeadOpens(key, ChunkNonce(env.hdr, idx, final),
                   ChunkAad(env.hdr, idx, final), blob)
      /\ out' = out \o blob.plaintext
      /\ idx' = idx + 1
      /\ opc' = IF idx + 1 = Len(env.body) THEN "done" ELSE "chunks"
      /\ UNCHANGED <<env, bundle, key, sent>>
  BY DEF OpenChunk, BadChunk, Reject
<1>2. /\ idx \in Nat /\ idx < Len(env.body) /\ env.tail = "whole"
      /\ Len(env.body) \in Nat
  BY <1>1 DEF TypeOK, OpeningInv, OpenTypeInv, StoredBytes
<1>. HIDE DEF final, blob, k
<1>3. PICK s \in Finished :
        /\ env.hdr = sent[s].env.hdr /\ bundle.rcpt = sent[s].to
        /\ env.hdr.ct = s
        /\ idx + 1 \in 1..Len(sent[s].env.body)
        /\ (idx + 1 = Len(env.body)) <=> (idx + 1 = Len(sent[s].env.body))
        /\ blob = sent[s].env.body[idx + 1]
        /\ idx * k <= Len(sent[s].pt)
        /\ blob.plaintext = Piece(sent[s].pt, k, idx + 1)
  BY <1>1, OpenedFrame DEF final, blob, k
<1>. DEFINE m == sent[s].pt
<1>4. m \in Seq(Byte) /\ k \in Nat
  BY <1>3 DEF TypeOK, SentInv, k
<1>5. /\ \A i \in 1..idx : env.body[i] = sent[s].env.body[i]
      /\ out = SubSeq(m, 1, IF idx * k < Len(m) THEN idx * k ELSE Len(m))
  <2>1. CASE idx = 0
    <3>1. out = <<>>
      BY <1>1, <2>1 DEF OpeningInv
    <3>2. (IF idx * k < Len(m) THEN idx * k ELSE Len(m)) = 0
      BY <1>3, <1>4, <2>1
    <3>3. SubSeq(m, 1, 0) = <<>>
      BY <1>4, SubSeqEmpty
    <3>. QED  BY <2>1, <3>1, <3>2, <3>3
  <2>2. CASE idx > 0
    <3>1. PICK t \in Finished : OpenedFrom(t)
      BY <1>1, <2>2 DEF OpeningInv
    <3>2. t = s
      BY <1>3, <3>1, HeaderNames DEF OpenedFrom
    <3>. QED  BY <3>1, <3>2 DEF k, OpenedFrom
  <2>. QED  BY <1>2, <2>1, <2>2
<1>6. out' = SubSeq(m, 1, IF (idx + 1) * k < Len(m) THEN (idx + 1) * k ELSE Len(m))
  <2>1. out' = out \o Piece(m, k, idx + 1) /\ idx * k <= Len(m)
    BY <1>1, <1>3
  <2>2. out = SubSeq(m, 1, IF idx * k < Len(m) THEN idx * k ELSE Len(m))
    BY <1>5
  <2>. HIDE DEF m
  <2>. QED  BY <1>2, <1>4, <2>1, <2>2, NextPiece
<1>7. \A i \in 1..(idx + 1) : env.body[i] = sent[s].env.body[i]
  <2>1. \A i \in 1..(idx + 1) : i \in 1..idx \/ i = idx + 1
    BY <1>2
  <2>. QED  BY <1>3, <1>5, <2>1 DEF blob
<1>8. idx + 1 <= Len(sent[s].env.body) /\ (opc' = "done" => idx + 1 = Len(sent[s].env.body))
  BY <1>1, <1>3
<1>9. /\ env'.tail = "whole"
      /\ IF opc' = "chunks" THEN idx' < Len(env'.body) ELSE idx' = Len(env'.body)
      /\ idx' > 0
  BY <1>1, <1>2
<1>10. s \in Finished' /\ sent'[s] = sent[s]
  BY <1>1, <1>3 DEF Finished
<1>11. /\ env' = env /\ bundle' = bundle /\ idx' = idx + 1 /\ k = sent[s].env.hdr.csize
       /\ env.hdr = sent[s].env.hdr /\ bundle.rcpt = sent[s].to
  BY <1>1, <1>3 DEF k
<1>12. OpenedFrom(s)'
  <2>1. sent'[s].pt = m /\ sent'[s].env.hdr.csize = k
    BY <1>10, <1>11
  <2>. QED  BY <1>6, <1>7, <1>8, <1>10, <1>11, <2>1 DEF OpenedFrom
<1>. QED  BY <1>9, <1>10, <1>12 DEF OpeningInv

-----------------------------------------------------------------------------
(* The inductive invariant.                                                *)

(* What a step leaves alone stays true.                                    *)
LEMMA SealUntouched ==
  ASSUME UNCHANGED <<sealVars, sent>>, CuttingInv, SealingInv
  PROVE  (CuttingInv /\ SealingInv)'
BY DEF CuttingInv, SealingInv, sealVars, Finished

(* Streams that were returned stay as they were.                           *)
LEMMA SentUntouched == SentInv /\ UNCHANGED sent => SentInv'
BY DEF SentInv, Finished

(* Storage that nobody touches keeps its invariant.                        *)
LEMMA WireUntouched == WireInv /\ UNCHANGED <<sent, wire>> => WireInv'
<1>. SUFFICES ASSUME WireInv, UNCHANGED <<sent, wire>> PROVE WireInv'
  OBVIOUS
<1>1. Genuine' = Genuine /\ Stored' = Stored
  BY DEF Genuine, Finished, Stored
<1>. QED  BY <1>1 DEF WireInv, StoredBytes

(* open_stream keeps its invariants while others step.                     *)
LEMMA OpenKept ==
  ASSUME OpenTypeInv, OpeningInv, UNCHANGED <<openVars, sent>>
  PROVE  (OpenTypeInv /\ OpeningInv)'
<1>1. Finished \subseteq Finished' /\ \A s \in Finished : sent'[s] = sent[s]
  BY DEF Finished
<1>. QED  BY <1>1, GenuineGrows, OpenUntouched

(* The inductive invariant holds initially.                                *)
LEMMA InitIInv == Init => TypeOK /\ IInv
<1>. SUFFICES ASSUME Init PROVE TypeOK /\ IInv
  OBVIOUS
<1>1. Finished = {} /\ Stored = {}
  BY DEF Init, Finished, Stored
<1>2. CuttingInv /\ SealingInv /\ OpenTypeInv /\ OpeningInv
  BY DEF Init, CuttingInv, SealingInv, OpenTypeInv, OpeningInv
<1>. QED  BY <1>1, <1>2, InitTypeOK DEF IInv, SentInv, WireInv

(* Every step, and stuttering, preserves it.                               *)
LEMMA StepIInv == TypeOK /\ IInv /\ [Next]_vars => (TypeOK /\ IInv)'
<1>. SUFFICES ASSUME TypeOK, IInv, [Next]_vars PROVE (TypeOK /\ IInv)'
  OBVIOUS
<1>. USE DEF IInv
<1>1. CASE SealCall
  <2>1. UNCHANGED <<openVars, sent, wire>>
    BY <1>1 DEF SealCall, SealFail, SealEnd
  <2>. QED  BY <1>1, <2>1, SealCallTypeOK, SealCallCutting, SentUntouched,
               WireUntouched, OpenKept
<1>2. CASE SealSplit
  <2>1. UNCHANGED <<openVars, sent, wire>>
    BY <1>2 DEF SealSplit, storeVars
  <2>. QED  BY <1>2, <2>1, SealSplitTypeOK, SealSplitCutting, SentUntouched,
               WireUntouched, OpenKept
<1>3. CASE SealCount
  <2>1. UNCHANGED <<openVars, sent, wire>>
    BY <1>3 DEF SealCount, SealFail
  <2>. QED  BY <1>3, <2>1, SealCountTypeOK, SealCountCutting, SentUntouched,
               WireUntouched, OpenKept
<1>4. CASE SealEmit
  <2>1. UNCHANGED openVars
    BY <1>4 DEF SealEmit
  <2>2. (OpenTypeInv /\ OpeningInv)'
    BY <1>4, <2>1, SealEmitGrows, OpenUntouched
  <2>. QED  BY <1>4, <2>2, SealEmitTypeOK, SealEmitCutting, SealEmitSent,
               SealEmitWire
<1>5. CASE StorageFault
  <2>1. UNCHANGED <<sealVars, sent, openVars>>
    <3>1. PICK s, h, b, tail : Fault(s, h, b, tail)
      BY Zenon, <1>5 DEF StorageFault, LoseFrame, RepeatFrame, SwapFrames,
         CrossFrame, DamageFrame, Cut, Reframe, DamageHeader, CrossHeader,
         FrameFault, HeaderFault
    <3>. QED  BY <3>1 DEF Fault
  <2>. QED  BY <1>5, <2>1, StorageTypeOK, StorageWire, SealUntouched,
               SentUntouched, OpenKept
<1>6. CASE OpenCall \/ OpenStep \/ OpenReturn
  <2>1. UNCHANGED <<sealVars, sent, wire>>
    BY <1>6 DEF OpenCall, OpenStep, OpenParse, OpenKey, OpenSecret, OpenFrames,
       OpenChunk, OpenReturn, storeVars
  <2>2. OpeningInv'
    BY <1>6, OpenBeforeLoop, OpenChunkOpening DEF OpenStep
  <2>. QED  BY <1>6, <2>1, <2>2, OpenTypeOK, OpenStepTyped, SealUntouched,
               SentUntouched, WireUntouched
<1>7. CASE UNCHANGED vars
  <2>1. UNCHANGED <<sealVars, sent, storeVars, openVars>>
    BY <1>7 DEF vars
  <2>2. TypeOK'
    BY <2>1 DEF TypeOK, sealVars, storeVars, openVars, Finished, Stored
  <2>. QED  BY <2>1, <2>2, SealUntouched, SentUntouched, WireUntouched, OpenKept
            DEF storeVars
<1>. QED  BY <1>1, <1>2, <1>3, <1>4, <1>5, <1>6, <1>7 DEF Next, SealStep

(* Every variable has its type, and the two halves of the program and the  *)
(* store keep the inductive invariant, for every message, chunk size, key  *)
(* and number of faults.                                                   *)
THEOREM Invariance == Safety => [](TypeOK /\ IInv)
BY InitIInv, StepIInv, PTL DEF Safety

(* Type correctness of seal_stream, storage and open_stream and their      *)
(* inductive invariant (shield.py:570-658).                                *)
THEOREM TypedInvariance == Safety => []StreamInv
BY Invariance, PTL DEF StreamInv

(* At the end of the opening loop all the pieces of the plaintext are out. *)
LEMMA AllPieces ==
  ASSUME NEW s \in Finished, TypeOK, SentInv, OpenTypeInv, OpeningInv,
         opc = "done", OpenedFrom(s)
  PROVE  out = sent[s].pt /\ bundle.rcpt = sent[s].to /\ env = sent[s].env
<1>. DEFINE e == sent[s].env
            m == sent[s].pt
            n == Len(e.body)
            k == e.hdr.csize
<1>1. /\ e.body \in Seq(SealedFrames(e.hdr, sent[s].to, m, n))
      /\ k \in Nat /\ Len(m) <= n * k
      /\ e = Stream(Header(s, sent[s].to, e.hdr.nonce, k), e.body)
  BY DEF SentInv
<1>2. /\ env = [hdr |-> env.hdr, body |-> env.body, tail |-> env.tail]
      /\ env.tail = "whole"
      /\ env.body \in Seq(Genuine)
      /\ idx = Len(env.body)
  BY DEF OpenTypeInv, StoredBytes, OpeningInv
<1>3. /\ env.hdr = e.hdr /\ bundle.rcpt = sent[s].to /\ idx = n
      /\ \A i \in 1..idx : env.body[i] = e.body[i]
      /\ out = SubSeq(m, 1, IF idx * k < Len(m) THEN idx * k ELSE Len(m))
  BY DEF OpenedFrom
<1>4. env.body = e.body
  <2>1. PICK S, T : env.body \in Seq(S) /\ e.body \in Seq(T)
    BY <1>1, <1>2
  <2>2. Len(env.body) = Len(e.body)
    BY <1>2, <1>3
  <2>3. \A i \in 1..Len(env.body) : env.body[i] = e.body[i]
    BY <1>2, <1>3
  <2>. HIDE DEF e
  <2>4. env.body \in Seq(S \union T) /\ e.body \in Seq(S \union T)
    BY <2>1, SeqMonotonic
  <2>. QED  BY <2>2, <2>3, <2>4, SeqEqual
<1>5. env = e
  <2>1. /\ e.hdr = Header(s, sent[s].to, e.hdr.nonce, k)
        /\ e = [hdr |-> Header(s, sent[s].to, e.hdr.nonce, k), body |-> e.body,
                tail |-> "whole"]
    BY <1>1 DEF Stream
  <2>. QED  BY <1>2, <1>3, <1>4, <2>1
<1>6. out = m
  <2>1. m \in Seq(Byte) /\ n \in Nat
    BY <1>1 DEF TypeOK
  <2>2. (IF n * k < Len(m) THEN n * k ELSE Len(m)) = Len(m)
    BY <1>1, <2>1
  <2>3. SubSeq(m, 1, Len(m)) = m
    BY <2>1, SubSeqFull
  <2>. QED  BY <1>3, <2>2, <2>3
<1>. QED  BY <1>3, <1>5, <1>6

(* The inductive invariant implies that what is returned is whole.         *)
LEMMA WholeFromIInv == TypeOK /\ IInv => WholeOrNothing
<1>. SUFFICES ASSUME TypeOK, IInv, opc = "done"
              PROVE  \E s \in Finished : /\ out = sent[s].pt
                                         /\ bundle.rcpt = sent[s].to
                                         /\ env = sent[s].env
  BY DEF WholeOrNothing
<1>1. PICK s \in Finished : OpenedFrom(s)
  BY DEF IInv, OpeningInv
<1>. QED  BY <1>1, AllPieces DEF IInv

(* open_stream returns the whole plaintext of one seal_stream call, or it  *)
(* raises: whatever faults storage has, and for every number of streams,   *)
(* chunks and faults.                                                      *)
THEOREM Authentic == Safety => []WholeOrNothing
BY Invariance, WholeFromIInv, PTL

(* A sealed chunk's key holds the ciphertext of its stream, its nonce the  *)
(* place of the chunk.                                                     *)
LEMMA SealedAt ==
  ASSUME TypeOK, IInv, NEW s \in Streams, NEW i \in 1..Len(Sealed(s))
  PROVE  /\ i \in Nat
         /\ \E h, r, f : /\ h.ct = s /\ Sealed(s)[i].key = StreamKey(h, r)
                         /\ Sealed(s)[i].nonce = ChunkNonce(h, i - 1, f)
<1>1. ASSUME NEW h, NEW r, NEW m, NEW n, h.ct = s, Len(Sealed(s)) \in Nat,
             Sealed(s)[i] = SealedFrame(h, r, m, n, i)
      PROVE  /\ i \in Nat
             /\ h.ct = s /\ Sealed(s)[i].key = StreamKey(h, r)
             /\ Sealed(s)[i].nonce = ChunkNonce(h, i - 1, Final(i - 1, n))
  <2>1. i \in Nat
    BY <1>1
  <2>. QED  BY <1>1, <2>1 DEF SealedFrame, SealChunkAt, AeadSeal
<1>2. CASE s \in Finished
  <2>1. Sealed(s) = sent[s].env.body
    BY <1>2 DEF Sealed
  <2>2. /\ \A j \in 1..Len(sent[s].env.body) :
             sent[s].env.body[j] = SealedFrame(sent[s].env.hdr, sent[s].to,
                                     sent[s].pt, Len(sent[s].env.body), j)
        /\ Len(sent[s].env.body) \in Nat
    BY <1>2 DEF IInv, SentInv
  <2>3. sent[s].env.hdr.ct = s
    BY <1>2, HeaderNames DEF IInv
  <2>. QED  BY <1>1, <2>1, <2>2, <2>3
<1>3. CASE s \notin Finished
  <2>1. s = cur /\ Sealed(s) = body
    BY <1>3 DEF Sealed
  <2>2. spc = "emit"
    BY <2>1 DEF IInv, CuttingInv
  <2>. DEFINE h == Header(cur, to, base, size)
  <2>3. /\ \A j \in 1..Len(body) : body[j] = SealedFrame(h, to, pt, Len(chunks), j)
        /\ Len(body) \in Nat
    BY <2>2 DEF IInv, SealingInv
  <2>4. h.ct = s
    BY <2>1 DEF Header
  <2>. HIDE DEF h
  <2>. QED  BY <1>1, <2>1, <2>3, <2>4
<1>. QED  BY <1>2, <1>3

(* The inductive invariant implies that no key and nonce pair recurs.      *)
LEMMA NonceFromIInv == TypeOK /\ IInv => NonceUnique
<1>. SUFFICES ASSUME TypeOK, IInv, NEW s \in Streams, NEW t \in Streams,
                     NEW i \in 1..Len(Sealed(s)), NEW j \in 1..Len(Sealed(t)),
                     Sealed(s)[i].key = Sealed(t)[j].key,
                     Sealed(s)[i].nonce = Sealed(t)[j].nonce
              PROVE  s = t /\ i = j
  BY DEF NonceUnique
<1>1. PICK h, r, f : /\ h.ct = s /\ Sealed(s)[i].key = StreamKey(h, r)
                     /\ Sealed(s)[i].nonce = ChunkNonce(h, i - 1, f)
  BY SealedAt
<1>2. PICK g, q, e : /\ g.ct = t /\ Sealed(t)[j].key = StreamKey(g, q)
                     /\ Sealed(t)[j].nonce = ChunkNonce(g, j - 1, e)
  BY SealedAt
<1>3. s = t
  <2>1. StreamKey(h, r) = StreamKey(g, q)
    BY <1>1, <1>2
  <2>2. Decaps(r, h.ct) = Decaps(q, g.ct)
    BY <2>1 DEF StreamKey, DeriveKey
  <2>. QED  BY <1>1, <1>2, <2>2 DEF Decaps
<1>4. i = j
  <2>1. ChunkNonce(h, i - 1, f) = ChunkNonce(g, j - 1, e)
    BY <1>1, <1>2
  <2>2. i - 1 = j - 1
    BY <2>1 DEF ChunkNonce, Ctr
  <2>3. i \in Nat /\ j \in Nat
    BY SealedAt
  <2>. QED  BY <2>2, <2>3
<1>. QED  BY <1>3, <1>4

(* No AES-GCM key and nonce pair seals two chunks, of one stream or of     *)
(* two, in any number of calls, even when their base nonces collide.       *)
THEOREM NoncesUnique == Safety => []NonceUnique
BY Invariance, NonceFromIInv, PTL

-----------------------------------------------------------------------------
(* Why open_stream and seal_stream refuse.                                 *)

(* Damaged bytes are told apart from what they may stand in for.           *)
Damaged == /\ Bad \notin Streams \union {Empty}
           /\ \A k, n, a, p : AeadSeal(k, n, a, p) # Bad

(* Bytes that name a stream by their ciphertext name a returned one.       *)
Names(e) == "ct" \in DOMAIN e.hdr /\ e.hdr.ct \in Finished \union {Bad}

(* The verdict on the untouched bytes of stream s, so far.                 *)
Intended(s) == bundle = [rcpt |-> sent[s].to, role |-> "kem_priv"]

Refusal(s) == /\ ~Intended(s)
              /\ oerr \in {"key role", "suite mismatch", "key-id mismatch"}
              /\ ~used

VerdictSoFar ==
  \A s \in Finished : env = sent[s].env =>
    /\ opc \in {"secret", "frames", "chunks", "done"} => Intended(s)
    /\ opc = "failed" => Refusal(s)

NamesInv == /\ \A s \in Stored : Names(wire[s])
            /\ opc # "idle" => Names(env)

RefusalInv == /\ NamesInv /\ VerdictSoFar
              /\ opc \in {"idle", "parse", "keys"} => ~used

-----------------------------------------------------------------------------
(* The fields of a returned stream.                                        *)
LEMMA SentFields ==
  ASSUME TypeOK, SentInv, NEW s \in Finished
  PROVE  LET e == sent[s].env
             h == e.hdr
             r == sent[s].to
         IN  /\ s \in Streams /\ r \in Recipients
             /\ "ct" \in DOMAIN h /\ h.ct = s
             /\ h.magic = STREAM_MAGIC /\ h.version = VERSION
             /\ h.suite = SuiteOf[r] /\ h.suite \in SuiteIds
             /\ h.kid = r /\ h.eph = EphPublic(SuiteOf[r], s)
             /\ e.tail = "whole" /\ Len(e.body) \in Nat \ {0}
<1>. DEFINE e == sent[s].env
            r == sent[s].to
<1>1. /\ e = Stream(Header(s, r, e.hdr.nonce, e.hdr.csize), e.body)
      /\ Len(e.body) > 0
      /\ e.body \in Seq(SealedFrames(e.hdr, r, sent[s].pt, Len(e.body)))
  BY DEF SentInv
<1>2. s \in Streams /\ r \in Recipients
  BY DEF TypeOK
<1>. HIDE DEF e, r
<1>3. e.hdr = Header(s, r, e.hdr.nonce, e.hdr.csize) /\ e.tail = "whole"
  BY <1>1 DEF Stream
<1>. DEFINE g == Header(s, r, e.hdr.nonce, e.hdr.csize)
<1>4. /\ "ct" \in DOMAIN g /\ g.ct = s /\ g.magic = STREAM_MAGIC
      /\ g.version = VERSION /\ g.suite = SuiteOf[r] /\ g.kid = r
      /\ g.eph = EphPublic(SuiteOf[r], s)
  BY DEF Header
<1>. HIDE DEF g
<1>5. SuiteOf[r] \in SuiteIds
  BY <1>2, SuiteOfAssumption
<1>6. Len(e.body) \in Nat \ {0}
  BY <1>1
<1>. QED  BY <1>2, <1>3, <1>4, <1>5, <1>6 DEF e, r, g

(* An untouched header passes its checks.                                  *)
LEMMA HeaderPasses ==
  ASSUME TypeOK, SentInv, NEW s \in Finished, env = sent[s].env
  PROVE  FirstFailure(HeaderChecks) = "none"
<1>1. /\ env.hdr.magic = STREAM_MAGIC /\ env.hdr.version = VERSION
      /\ env.hdr.suite \in SuiteIds /\ env.tail # "header"
  BY SentFields
<1>. DEFINE t == HeaderChecks
<1>2. Len(t) = 4 /\ t[1] = "none" /\ t[2] = "none" /\ t[3] = "none" /\ t[4] = "none"
  BY <1>1 DEF HeaderChecks, Check
<1>. HIDE DEF t
<1>3. \A i \in 1..Len(t) : t[i] = "none"
  BY <1>2
<1>4. Len(t) \in Nat
  BY <1>2
<1>. QED  BY <1>3, <1>4, FailsSomewhere DEF t

(* So do its frames.                                                       *)
LEMMA FramesPass ==
  ASSUME TypeOK, SentInv, NEW s \in Finished, env = sent[s].env
  PROVE  FirstFailure(FrameChecks) = "none"
<1>1. /\ env.tail # "length" /\ env.tail # "chunk" /\ env.body # <<>>
  <2>1. env.tail = "whole" /\ Len(env.body) # 0
    BY SentFields
  <2>. QED  BY <2>1
<1>. DEFINE t == FrameChecks
<1>2. Len(t) = 3 /\ t[1] = "none" /\ t[2] = "none" /\ t[3] = "none"
  BY <1>1 DEF FrameChecks, Check
<1>. HIDE DEF t
<1>3. \A i \in 1..Len(t) : t[i] = "none"
  BY <1>2
<1>4. Len(t) \in Nat
  BY <1>2
<1>. QED  BY <1>3, <1>4, FailsSomewhere DEF t

(* The key checks raise one of three errors, and never at the recipient's  *)
(* own private bundle.                                                     *)
LEMMA KeyRefusal ==
  ASSUME TypeOK, SentInv, NEW s \in Finished, env = sent[s].env,
         FirstFailure(KeyChecks) # "none"
  PROVE  /\ FirstFailure(KeyChecks) \in
              {"key role", "suite mismatch", "key-id mismatch"}
         /\ ~Intended(s)
<1>. DEFINE t == KeyChecks
            role == bundle.role = "kem_priv"
            suite == SuiteOf[bundle.rcpt] = env.hdr.suite
            kid == env.hdr.kid = bundle.rcpt
<1>0. Len(t) = 3
  BY DEF KeyChecks
<1>1. /\ t[1] = Check("key role", role)
      /\ t[2] = Check("suite mismatch", suite)
      /\ t[3] = Check("key-id mismatch", kid)
  BY DEF KeyChecks
<1>2. Intended(s) => role /\ suite /\ kid
  BY SentFields DEF Intended
<1>. HIDE DEF t, role, suite, kid
<1>3. PICK i \in 1..Len(t) : t[i] # "none" /\ FirstFailure(t) = t[i]
  <2>1. Len(t) \in Nat
    BY <1>0
  <2>2. FirstFailure(t) # "none"
    BY Zenon DEF t
  <2>. QED  BY <2>1, <2>2, FailsSomewhere
<1>4. i = 1 \/ i = 2 \/ i = 3
  BY <1>0, <1>3
<1>. QED  BY <1>1, <1>2, <1>3, <1>4 DEF Check, t

(* A bundle that passes against an untouched header is the intended one.   *)
LEMMA KeyPasses ==
  ASSUME TypeOK, SentInv, NEW s \in Finished, env = sent[s].env,
         bundle \in Bundles, FirstFailure(KeyChecks) = "none"
  PROVE  Intended(s)
<1>1. bundle.role = "kem_priv" /\ bundle.rcpt = sent[s].to
  BY KeyVerdict, SentFields
<1>2. bundle = [rcpt |-> bundle.rcpt, role |-> bundle.role]
  BY DEF Bundles
<1>. QED  BY <1>1, <1>2 DEF Intended

(* Every frame of an untouched stream opens at its place.                  *)
LEMMA FrameOpens ==
  ASSUME Damaged, TypeOK, SentInv, OpenTypeInv, OpeningInv, opc = "chunks",
         NEW s \in Finished, env = sent[s].env, Intended(s),
         NEW final, final = Final(idx, Len(env.body))
  PROVE  AeadOpens(key, ChunkNonce(env.hdr, idx, final),
                   ChunkAad(env.hdr, idx, final), env.body[idx + 1])
<1>1. /\ idx \in Nat /\ idx < Len(env.body) /\ Len(env.body) \in Nat
      /\ key = StreamKey(env.hdr, bundle.rcpt)
  BY DEF TypeOK, OpenTypeInv, StoredBytes, OpeningInv
<1>2. idx + 1 \in 1..Len(env.body) /\ idx + 1 - 1 = idx
  BY <1>1
<1>3. env.body[idx + 1] = SealedFrame(env.hdr, sent[s].to, sent[s].pt,
                                      Len(env.body), idx + 1)
  BY <1>2 DEF SentInv
<1>4. bundle.rcpt = sent[s].to
  BY DEF Intended
<1>5. PICK p : env.body[idx + 1]
                 = AeadSeal(key, ChunkNonce(env.hdr, idx, final),
                            ChunkAad(env.hdr, idx, final), p)
  BY <1>1, <1>2, <1>3, <1>4 DEF SealedFrame, SealChunkAt
<1>6. env.body[idx + 1] # Bad
  BY <1>5 DEF Damaged
<1>. QED  BY <1>5, <1>6 DEF AeadOpens, AeadSeal

-----------------------------------------------------------------------------
(* What the invariant says survives the return of another stream: it has a *)
(* ciphertext of its own, so the bytes being opened are not its bytes.     *)
LEMMA EmitLastRefusal ==
  ASSUME Damaged, TypeOK, CuttingInv, EmitLast, spc = "emit", UNCHANGED openVars,
         RefusalInv
  PROVE  RefusalInv'
<1>1. PICK stream : stream = Stream(Header(cur, to, base, size), Emitted)
  OBVIOUS
<1>2. /\ cur \in Streams /\ cur \notin Finished
      /\ Finished' = Finished \union {cur} /\ Stored' = Stored \union {cur}
      /\ \A s \in Finished : sent'[s] = sent[s] /\ wire'[s] = wire[s]
      /\ sent'[cur] = [pt |-> pt, to |-> to, env |-> stream]
      /\ wire'[cur] = stream
  BY <1>1, EmitLastSent
<1>3. /\ opc' = opc /\ env' = env /\ bundle' = bundle /\ oerr' = oerr
      /\ used' = used
  BY DEF openVars
<1>4. "ct" \in DOMAIN stream.hdr /\ stream.hdr.ct = cur
  BY <1>1 DEF Stream, Header
<1>5. NamesInv'
  BY <1>2, <1>3, <1>4 DEF RefusalInv, NamesInv, Names, TypeOK
<1>6. opc # "idle" => env # stream
  BY <1>2, <1>4 DEF RefusalInv, NamesInv, Names, Damaged
<1>7. VerdictSoFar'
  <2>1. \A s \in Finished : /\ sent'[s] = sent[s]
                            /\ Intended(s)' <=> Intended(s)
                            /\ Refusal(s)' <=> Refusal(s)
    BY <1>2, <1>3 DEF Refusal, Intended
  <2>2. opc' # "idle" => env' # sent'[cur].env
    BY <1>2, <1>3, <1>6
  <2>. QED  BY <1>2, <1>3, <2>1, <2>2 DEF RefusalInv, VerdictSoFar
<1>. QED  BY <1>3, <1>5, <1>7 DEF RefusalInv

(* The writer's other steps return nothing.                                *)
LEMMA SealRefusal ==
  ASSUME Damaged, TypeOK, CuttingInv, SealCall \/ SealStep, RefusalInv
  PROVE  RefusalInv'
<1>1. UNCHANGED openVars
  BY DEF SealCall, SealStep, SealSplit, SealCount, SealEmit
<1>2. CASE UNCHANGED <<sent, wire>>
  BY <1>1, <1>2 DEF RefusalInv, NamesInv, Names, VerdictSoFar, Refusal, Intended,
     Finished, Stored, openVars
<1>3. CASE EmitLast /\ spc = "emit"
  BY <1>1, <1>3, EmitLastRefusal
<1>4. UNCHANGED <<sent, wire>> \/ (EmitLast /\ spc = "emit")
  <2>1. CASE SealCall \/ SealSplit \/ SealCount
    BY <2>1 DEF SealCall, SealSplit, SealCount, SealFail, storeVars
  <2>2. CASE SealEmit
    BY <2>2, SealEmitCases DEF SealFail, EmitMore
  <2>. QED  BY <2>1, <2>2 DEF SealStep
<1>. QED  BY <1>2, <1>3, <1>4

(* A fault gives no stored stream a name of its own.                       *)
LEMMA FaultRefusal ==
  ASSUME RefusalInv, NEW s \in Stored, NEW h, NEW b, NEW tail,
         Fault(s, h, b, tail), Names([hdr |-> h])
  PROVE  RefusalInv'
<1>1. /\ UNCHANGED <<sealVars, sent, openVars>>
      /\ wire' = [wire EXCEPT ![s] = [hdr |-> h, body |-> b, tail |-> tail]]
  BY DEF Fault
<1>2. Stored' = Stored /\ Finished' = Finished
  BY <1>1 DEF Stored, Finished
<1>3. \A t \in Stored : wire'[t] = IF t = s
                          THEN [hdr |-> h, body |-> b, tail |-> tail] ELSE wire[t]
  BY <1>1 DEF Stored
<1>4. NamesInv'
  BY <1>1, <1>2, <1>3 DEF RefusalInv, NamesInv, Names, openVars
<1>5. VerdictSoFar'
  BY <1>1, <1>2 DEF RefusalInv, VerdictSoFar, Refusal, Intended, openVars
<1>. QED  BY <1>1, <1>4, <1>5 DEF RefusalInv, openVars

(* So no fault of storage disturbs what a call of open_stream knows.       *)
LEMMA StorageRefusal ==
  ASSUME RefusalInv, StorageFault
  PROVE  RefusalInv'
<1>1. \A s \in Stored : Names([hdr |-> wire[s].hdr])
  BY DEF RefusalInv, NamesInv, Names
<1>2. CASE \E s \in Stored : \E b, tail : Fault(s, wire[s].hdr, b, tail)
  BY <1>1, <1>2, FaultRefusal
<1>3. CASE DamageHeader
  <2>1. PICK s, f : /\ s \in Stored /\ f \in DOMAIN wire[s].hdr
                    /\ HeaderFault(s, [wire[s].hdr EXCEPT ![f] = Bad])
    BY <1>3 DEF DamageHeader
  <2>2. Names([hdr |-> [wire[s].hdr EXCEPT ![f] = Bad]])
    BY <1>1, <2>1 DEF Names
  <2>. QED  BY <2>1, <2>2, FaultRefusal DEF HeaderFault
<1>4. CASE CrossHeader
  <2>1. PICK s, t, f : /\ s \in Stored /\ t \in Stored /\ f \in DOMAIN wire[s].hdr
                       /\ HeaderFault(s, [wire[s].hdr EXCEPT ![f] = wire[t].hdr[f]])
    BY <1>4 DEF CrossHeader
  <2>2. Names([hdr |-> [wire[s].hdr EXCEPT ![f] = wire[t].hdr[f]]])
    BY <1>1, <2>1 DEF Names
  <2>. QED  BY <2>1, <2>2, FaultRefusal DEF HeaderFault
<1>5. CASE LoseFrame \/ RepeatFrame \/ SwapFrames \/ CrossFrame \/ DamageFrame
             \/ Cut \/ Reframe
  BY Zenon, <1>2, <1>5 DEF LoseFrame, RepeatFrame, SwapFrames, CrossFrame,
     DamageFrame, Cut, Reframe, FrameFault
<1>. QED  BY <1>3, <1>4, <1>5 DEF StorageFault

(* open_stream: untouched bytes pass every check but those of the key      *)
(* bundle, and the private key is used after them.                         *)
LEMMA OpenRefusal ==
  ASSUME Damaged, TypeOK, SentInv, OpenTypeInv, OpeningInv, RefusalInv,
         OpenCall \/ OpenStep \/ OpenReturn
  PROVE  RefusalInv'
<1>1. UNCHANGED <<sent, wire>>
  BY DEF OpenCall, OpenStep, OpenParse, OpenKey, OpenSecret, OpenFrames,
     OpenChunk, OpenReturn, storeVars
<1>2. Finished' = Finished /\ Stored' = Stored
  BY <1>1 DEF Finished, Stored
<1>3. CASE OpenCall
  <2>1. PICK s \in Stored : env' = wire[s]
    BY <1>3 DEF OpenCall
  <2>2. opc = "idle" /\ opc' = "parse" /\ used' = used
    BY <1>3 DEF OpenCall
  <2>. QED  BY <1>1, <1>2, <2>1, <2>2 DEF RefusalInv, NamesInv, Names, VerdictSoFar
<1>4. CASE OpenReturn
  BY <1>1, <1>2, <1>4 DEF OpenReturn, RefusalInv, NamesInv, Names, VerdictSoFar
<1>5. CASE OpenStep
  <2>1. env' = env /\ bundle' = bundle /\ opc # "idle" /\ opc' # "idle"
    BY <1>5 DEF OpenStep, OpenParse, OpenKey, OpenSecret, OpenFrames, OpenChunk,
       Reject, BadChunk
  <2>2. NamesInv'
    BY <1>1, <1>2, <2>1 DEF RefusalInv, NamesInv, Names
  <2>3. opc' \in {"idle", "parse", "keys"} => ~used'
    BY <1>5 DEF OpenStep, OpenParse, OpenKey, OpenSecret, OpenFrames, OpenChunk,
       Reject, BadChunk, RefusalInv
  <2>4. ASSUME NEW s \in Finished, env = sent[s].env
        PROVE  /\ opc' \in {"secret", "frames", "chunks", "done"} => Intended(s)
               /\ opc' = "failed" => /\ ~Intended(s) /\ ~used'
                                     /\ oerr' \in {"key role", "suite mismatch",
                                                   "key-id mismatch"}
    <3>. DEFINE so == opc \in {"secret", "frames", "chunks", "done"} => Intended(s)
    <3>0. so
      BY <2>4 DEF RefusalInv, VerdictSoFar
    <3>1. CASE OpenParse
      <4>1. FirstFailure(HeaderChecks) = "none"
        BY <2>4, HeaderPasses
      <4>2. opc' = "keys"
        BY <3>1, <4>1 DEF OpenParse
      <4>. QED  BY <4>2
    <3>2. CASE OpenKey
      <4>1. opc = "keys" /\ used' = used /\ bundle \in Bundles
        BY <3>2 DEF OpenKey, OpenTypeInv
      <4>2. CASE FirstFailure(KeyChecks) = "none"
        <5>1. opc' = "secret"
          BY <3>2, <4>2 DEF OpenKey
        <5>. QED  BY <2>4, <4>1, <4>2, <5>1, KeyPasses
      <4>3. CASE FirstFailure(KeyChecks) # "none"
        <5>1. opc' = "failed" /\ oerr' = FirstFailure(KeyChecks)
          BY <3>2, <4>3 DEF OpenKey, Reject
        <5>2. ~used
          BY <4>1 DEF RefusalInv
        <5>. QED  BY <2>4, <4>1, <4>3, <5>1, <5>2, KeyRefusal
      <4>. QED  BY <4>2, <4>3
    <3>3. CASE OpenSecret
      <4>1. env.hdr.ct \in Streams /\ env.hdr.eph \in Streams \union {Empty}
        BY <2>4, SentFields DEF EphPublic
      <4>2. opc = "secret" /\ opc' = "frames"
        BY <3>3, <4>1 DEF OpenSecret, Damaged
      <4>. QED  BY <3>0, <4>2
    <3>4. CASE OpenFrames
      <4>1. FirstFailure(FrameChecks) = "none"
        BY <2>4, FramesPass
      <4>2. opc = "frames" /\ opc' = "chunks"
        BY <3>4, <4>1 DEF OpenFrames
      <4>. QED  BY <3>0, <4>2
    <3>5. CASE OpenChunk
      <4>1. opc = "chunks" /\ Intended(s)
        BY <3>0, <3>5 DEF OpenChunk
      <4>2. AeadOpens(key, ChunkNonce(env.hdr, idx, Final(idx, Len(env.body))),
                      ChunkAad(env.hdr, idx, Final(idx, Len(env.body))),
                      env.body[idx + 1])
        BY <2>4, <4>1, FrameOpens
      <4>3. opc' \in {"done", "chunks"}
        BY <3>5, <4>2 DEF OpenChunk
      <4>. QED  BY <4>1, <4>3
    <3>. QED  BY <1>5, <3>1, <3>2, <3>3, <3>4, <3>5 DEF OpenStep
  <2>5. VerdictSoFar'
    BY <1>1, <1>2, <2>1, <2>4 DEF VerdictSoFar, Refusal, Intended
  <2>. QED  BY <2>2, <2>3, <2>5 DEF RefusalInv
<1>. QED  BY <1>3, <1>4, <1>5

-----------------------------------------------------------------------------
(* The invariant holds initially, and every step preserves it.             *)
LEMMA InitRefusal == Init => RefusalInv
<1>. SUFFICES ASSUME Init PROVE RefusalInv
  OBVIOUS
<1>1. Finished = {} /\ Stored = {} /\ opc = "idle" /\ ~used
  BY DEF Init, Finished, Stored
<1>. QED  BY <1>1 DEF RefusalInv, NamesInv, VerdictSoFar

(* Each step, by who takes it.                                             *)
LEMMA StepRefusal ==
  ASSUME Damaged, TypeOK, IInv, RefusalInv, [Next]_vars
  PROVE  RefusalInv'
<1>1. CASE UNCHANGED vars
  <2>1. UNCHANGED <<sent, wire, openVars>>
    BY <1>1 DEF vars, storeVars
  <2>. QED  BY <2>1 DEF RefusalInv, NamesInv, Names, VerdictSoFar, Refusal,
               Intended, Finished, Stored, openVars
<1>. QED  BY <1>1, SealRefusal, StorageRefusal, OpenRefusal DEF Next, IInv

(* An unchanged stream opens, whatever its length and chunk size, unless   *)
(* the key bundle is not its recipient's private one, and then the private *)
(* key has not been used (shield.py:593, 626-630).                         *)
THEOREM RefusedForKey == Damaged => (Safety => []RefusedOnlyForKey)
<1>. SUFFICES ASSUME Damaged PROVE Safety => []RefusedOnlyForKey
  OBVIOUS
<1>1. TypeOK /\ IInv /\ RefusalInv /\ [Next]_vars => RefusalInv'
  BY StepRefusal
<1>2. RefusalInv => RefusedOnlyForKey
  BY DEF RefusalInv, VerdictSoFar, Refusal, Intended, RefusedOnlyForKey
<1>. QED  BY InitRefusal, <1>1, <1>2, Invariance, PTL DEF Safety
-----------------------------------------------------------------------------
(* seal_stream.  Each chunk in the list begins inside the plaintext.       *)
LastInside ==
  spc = "split" /\ chunks # <<>> => (Len(chunks) - 1) * size < Len(pt)

(* It is so at first, and a chunk is cut only while some plaintext is left.*)
LEMMA StepLastInside ==
  TypeOK /\ IInv /\ LastInside /\ [Next]_vars => LastInside'
<1>. SUFFICES ASSUME TypeOK, CuttingInv, LastInside, [Next]_vars PROVE LastInside'
  BY DEF IInv
<1>1. CASE UNCHANGED <<spc, chunks, size, pt>>
  BY <1>1 DEF LastInside
<1>2. CASE SealCall
  BY <1>2 DEF SealCall, SealFail, SealEnd, LastInside
<1>3. CASE SealSplit
  <2>1. /\ Len(chunks) \in Nat /\ Len(chunks') = Len(chunks) + 1
        /\ off = Len(chunks) * size /\ off < Len(pt)
        /\ pt' = pt /\ size' = size
    BY <1>3 DEF SealSplit, CuttingInv, TypeOK
  <2>. QED  BY <2>1 DEF LastInside
<1>4. CASE SealCount \/ SealEmit
  <2>1. spc' # "split"
    BY <1>4 DEF SealCount, SealEmit, SealFail, SealEnd
  <2>. QED  BY <2>1 DEF LastInside
<1>5. CASE StorageFault
  <2>1. PICK s, h, b, tail : Fault(s, h, b, tail)
    BY Zenon, <1>5 DEF StorageFault, LoseFrame, RepeatFrame, SwapFrames,
       CrossFrame, DamageFrame, Cut, Reframe, DamageHeader, CrossHeader,
       FrameFault, HeaderFault
  <2>. QED  BY <1>1, <2>1 DEF Fault, sealVars
<1>6. CASE OpenCall \/ OpenStep \/ OpenReturn \/ UNCHANGED vars
  BY <1>1, <1>6 DEF OpenCall, OpenStep, OpenParse, OpenKey, OpenSecret,
     OpenFrames, OpenChunk, OpenReturn, sealVars, vars
<1>. QED  BY <1>2, <1>3, <1>4, <1>5, <1>6 DEF Next, SealStep

(* Multiplication by a natural number keeps the order.                     *)
LEMMA TimesMonotone ==
  ASSUME NEW a \in Nat, NEW b \in Nat, NEW k \in Nat, a <= b
  PROVE  a * k <= b * k
<1>1. PICK d \in Nat : b = a + d
  <2>1. b - a \in Nat /\ b = a + (b - a)
    OBVIOUS
  <2>. QED  BY <2>1
<1>2. d * k \in Nat /\ (a + d) * k = a * k + d * k /\ a * k \in Nat
  OBVIOUS
<1>. QED  BY <1>1, <1>2

(* A piece is no longer than the chunk size, nor than the message.         *)
LEMMA PieceLength ==
  ASSUME NEW S, NEW m \in Seq(S), NEW k \in Nat, NEW i \in Nat \ {0},
         (i - 1) * k <= Len(m)
  PROVE  /\ Len(Piece(m, k, i)) \in Nat
         /\ Len(Piece(m, k, i)) <= k /\ Len(Piece(m, k, i)) <= Len(m)
<1>. DEFINE p == (i - 1) * k
            q == IF i * k < Len(m) THEN i * k ELSE Len(m)
<1>1. i * k = p + k /\ p \in Nat /\ Len(m) \in Nat
  BY DEF p
<1>2. p <= q /\ q <= p + k /\ q <= Len(m) /\ q \in Nat
  BY <1>1
<1>. HIDE DEF p, q
<1>3. Len(SubSeq(m, p + 1, q)) = q - p
  <2>1. CASE p + 1 <= q
    BY <1>1, <1>2, <2>1, SubSeqProperties
  <2>2. CASE p = q
    BY <1>1, <1>2, <2>2, SubSeqProperties
  <2>. QED  BY <1>1, <1>2, <2>1, <2>2
<1>4. Piece(m, k, i) = SubSeq(m, p + 1, q)
  BY DEF Piece, p, q
<1>. QED  BY <1>1, <1>2, <1>3, <1>4

(* What a step of seal_stream that fails past its argument checks says of  *)
(* its message.                                                            *)
FailsOversize == /\ (spc = "split" /\ spc' = "failed" => U32Max * size < Len(pt))
                 /\ (spc = "emit" /\ spc' = "failed" =>
                       /\ size + TagLen > U32Max
                       /\ Len(pt) + TagLen > U32Max)

(* No step of the two functions or of storage fails otherwise.             *)
LEMMA StepFailsOversize ==
  TypeOK /\ IInv /\ LastInside /\ [Next]_vars => [FailsOversize]_vars
<1>. SUFFICES ASSUME TypeOK, CuttingInv, SealingInv, LastInside, Next,
                     spc \in {"split", "emit"}, spc' = "failed"
              PROVE  /\ spc = "split" => U32Max * size < Len(pt)
                     /\ spc = "emit" => /\ size + TagLen > U32Max
                                        /\ Len(pt) + TagLen > U32Max
  BY DEF IInv, FailsOversize
<1>1. SealCount \/ SealEmit
  <2>1. CASE StorageFault
    <3>1. PICK s, h, b, tail : Fault(s, h, b, tail)
      BY Zenon, <2>1 DEF StorageFault, LoseFrame, RepeatFrame, SwapFrames,
         CrossFrame, DamageFrame, Cut, Reframe, DamageHeader, CrossHeader,
         FrameFault, HeaderFault
    <3>. QED  BY <3>1 DEF Fault, sealVars
  <2>2. CASE OpenCall \/ OpenStep \/ OpenReturn
    BY <2>2 DEF OpenCall, OpenStep, OpenParse, OpenKey, OpenSecret,
       OpenFrames, OpenChunk, OpenReturn, sealVars
  <2>3. CASE SealCall \/ SealSplit
    BY <2>3 DEF SealCall, SealSplit
  <2>. QED  BY <2>1, <2>2, <2>3 DEF Next, SealStep
<1>2. /\ U32Max \in Nat /\ TagLen \in Nat /\ size \in 1..U32Max
      /\ pt \in Seq(Byte) /\ chunks \in Seq(Seq(Byte))
      /\ Len(pt) \in Nat /\ Len(chunks) \in Nat
  BY StreamAssumption DEF TypeOK, CuttingInv
<1>3. CASE SealCount
  <2>1. spc = "split"
    BY <1>3 DEF SealCount
  <2>2. Len(IF chunks = <<>> THEN << <<>> >> ELSE chunks) > U32Max
    BY <1>3 DEF SealCount, TooManyChunks
  <2>3. chunks # <<>> /\ Len(chunks) > U32Max
    BY <1>2, <2>2
  <2>4. (Len(chunks) - 1) * size < Len(pt)
    BY <2>1, <2>3 DEF LastInside
  <2>5. U32Max * size <= (Len(chunks) - 1) * size
    <3>1. Len(chunks) - 1 \in Nat /\ U32Max <= Len(chunks) - 1 /\ size \in Nat
      BY <1>2, <2>3
    <3>. QED  BY <1>2, <3>1, TimesMonotone
  <2>. QED  BY <1>2, <2>1, <2>4, <2>5
<1>4. CASE SealEmit
  <2>. DEFINE i == Len(body) + 1
  <2>1. spc = "emit" /\ Len(chunks[i]) + TagLen > U32Max
    BY <1>4 DEF SealEmit, SealEnd
  <2>2. i \in 1..Len(chunks) /\ i \in Nat \ {0}
    BY <1>2, <2>1 DEF SealingInv
  <2>3. (i - 1) * size <= Len(pt) /\ chunks[i] = Piece(pt, size, i)
    BY <2>1, <2>2 DEF CuttingInv
  <2>. HIDE DEF i
  <2>4. size \in Nat
    BY <1>2
  <2>5. /\ Len(chunks[i]) \in Nat
        /\ Len(chunks[i]) <= size /\ Len(chunks[i]) <= Len(pt)
    BY <1>2, <2>2, <2>3, <2>4, PieceLength
  <2>. QED  BY <1>2, <2>1, <2>5
<1>. QED  BY <1>1, <1>3, <1>4

(* seal_stream, past its argument checks, fails only on a message with     *)
(* more chunks than a u32 counts, or a chunk that is, with its tag, longer *)
(* than a u32 says (shield.py:594, 602).                                   *)
THEOREM SealFailure == Safety => SealFailsOnlyOversize
<1>1. Init => LastInside
  BY DEF Init, LastInside
<1>2. TypeOK /\ IInv /\ LastInside /\ [Next]_vars => [FailsOversize]_vars
  BY StepFailsOversize
<1>3. TypeOK /\ IInv /\ LastInside /\ [Next]_vars => LastInside'
  BY StepLastInside
<1>. QED  BY <1>1, <1>2, <1>3, Invariance, PTL
          DEF Safety, SealFailsOnlyOversize, FailsOversize

-----------------------------------------------------------------------------
(* The independent reader beside open_stream.                              *)

(* What the two readers of a stream may raise.                             *)
StreamErrors ==
  {"none", "magic", "version", "unknown suite", "truncated header", "key role",
   "suite mismatch", "key-id mismatch", "bad handshake", "missing chunk length",
   "chunk runs past end", "empty stream", "chunk AEAD"}

AltChunkChecks(e, r) ==
  [i \in 1..Len(e.body) |-> Check("chunk AEAD", AltChunkOpens(e, r, i))]

Plaintexts(e, n) == [i \in 1..n |-> e.body[i].plaintext]

AltStreamResult(e, k, handshake) ==
  [err |-> AltFailure(e, k, handshake),
   out |-> IF AltFailure(e, k, handshake) = "none"
           THEN FlattenSeq(Plaintexts(e, Len(e.body))) ELSE None]

(* The stages open_stream has passed.                                      *)
PassedStages ==
  /\ opc \in {"keys", "secret", "frames", "chunks", "done"} =>
       FirstFailure(HeaderChecks) = "none"
  /\ opc \in {"secret", "frames", "chunks", "done"} => FirstFailure(KeyChecks) = "none"
  /\ opc \in {"chunks", "done"} => FirstFailure(FrameChecks) = "none"

(* The stage it was refused at, after passing those before.                *)
FailedAtHeader == FirstFailure(HeaderChecks) # "none" /\ oerr = FirstFailure(HeaderChecks)

FailedAtKey == /\ FirstFailure(HeaderChecks) = "none"
               /\ FirstFailure(KeyChecks) # "none" /\ oerr = FirstFailure(KeyChecks)

FailedAtSecret == /\ FirstFailure(HeaderChecks) = "none"
                  /\ FirstFailure(KeyChecks) = "none"
                  /\ oerr = "bad handshake" /\ Bad \in {env.hdr.eph, env.hdr.ct}

FailedAtFrames == /\ FirstFailure(HeaderChecks) = "none"
                  /\ FirstFailure(KeyChecks) = "none"
                  /\ FirstFailure(FrameChecks) # "none" /\ oerr = FirstFailure(FrameChecks)

FailedAtChunk == /\ FirstFailure(HeaderChecks) = "none"
                 /\ FirstFailure(KeyChecks) = "none"
                 /\ FirstFailure(FrameChecks) = "none"
                 /\ oerr = "chunk AEAD"
                 /\ idx + 1 \in 1..Len(env.body)
                 /\ \A i \in 1..idx : AltChunkOpens(env, bundle.rcpt, i)
                 /\ ~AltChunkOpens(env, bundle.rcpt, idx + 1)

FailedSomewhere == \/ FailedAtHeader \/ FailedAtKey \/ FailedAtSecret
                   \/ FailedAtFrames \/ FailedAtChunk

(* The chunks it has opened, and what they held.                           *)
OpenedChunks ==
  /\ \A i \in 1..idx : AltChunkOpens(env, bundle.rcpt, i)
  /\ Plaintexts(env, idx) \in Seq(Seq(Byte))
  /\ out = FlattenSeq(Plaintexts(env, idx))

ReaderVerdict ==
  /\ PassedStages
  /\ opc \in {"chunks", "done"} => OpenedChunks
  /\ IF opc = "failed" THEN FailedSomewhere /\ out = None ELSE oerr = None

AltVerdictInv ==
  /\ ReaderVerdict
  /\ alt # None => /\ opc \in {"done", "failed"}
                   /\ alt = AltStreamResult(env, bundle, oerr # "bad handshake")

StreamReadersInv == TypeOK /\ IInv /\ AltVerdictInv

(* The tables of the two readers are sequences of errors.                  *)
LEMMA StreamTables ==
  ASSUME NEW e, NEW k, NEW h, Len(e.body) \in Nat
  PROVE  /\ AltHeaderChecks(e) \in Seq(StreamErrors)
         /\ AltKeyChecks(e, k) \in Seq(StreamErrors)
         /\ << Check("bad handshake", h) >> \in Seq(StreamErrors)
         /\ AltFrameChecks(e) \in Seq(StreamErrors)
         /\ AltChunkChecks(e, k.rcpt) \in Seq(StreamErrors)
<1>1. AltHeaderChecks(e) \in Seq(StreamErrors)
  BY DEF Check, StreamErrors, AltHeaderChecks
<1>2. AltKeyChecks(e, k) \in Seq(StreamErrors)
  BY DEF Check, StreamErrors, AltKeyChecks
<1>3. << Check("bad handshake", h) >> \in Seq(StreamErrors)
  BY DEF Check, StreamErrors
<1>4. AltFrameChecks(e) \in Seq(StreamErrors)
  BY DEF Check, StreamErrors, AltFrameChecks
<1>5. AltChunkChecks(e, k.rcpt) \in Seq(StreamErrors)
  <2>1. \A i \in 1..Len(e.body) :
          Check("chunk AEAD", AltChunkOpens(e, k.rcpt, i)) \in StreamErrors
    BY DEF Check, StreamErrors
  <2>2. AltChunkChecks(e, k.rcpt) \in [1..Len(e.body) -> StreamErrors]
    BY <2>1 DEF AltChunkChecks
  <2>. QED  BY <2>2, SeqDef
<1>. QED  BY <1>1, <1>2, <1>3, <1>4, <1>5

(* Parsers one after the other refuse as the first of them that refuses.   *)
LEMMA FiveParsers ==
  ASSUME NEW S, NEW p1 \in Seq(S), NEW p2 \in Seq(S), NEW p3 \in Seq(S),
         NEW p4 \in Seq(S), NEW p5 \in Seq(S)
  PROVE  FirstFailure(p1 \o p2 \o p3 \o p4 \o p5)
           = IF FirstFailure(p1) # "none" THEN FirstFailure(p1)
             ELSE IF FirstFailure(p2) # "none" THEN FirstFailure(p2)
             ELSE IF FirstFailure(p3) # "none" THEN FirstFailure(p3)
             ELSE IF FirstFailure(p4) # "none" THEN FirstFailure(p4)
             ELSE FirstFailure(p5)
<1>1. /\ p1 \o p2 \in Seq(S) /\ (p1 \o p2) \o p3 \in Seq(S)
      /\ ((p1 \o p2) \o p3) \o p4 \in Seq(S)
  BY ConcatProperties
<1>2. FirstFailure(p1 \o p2)
        = IF FirstFailure(p1) = "none" THEN FirstFailure(p2) ELSE FirstFailure(p1)
  BY FirstFailureConcat
<1>3. FirstFailure((p1 \o p2) \o p3)
        = IF FirstFailure(p1 \o p2) = "none" THEN FirstFailure(p3)
          ELSE FirstFailure(p1 \o p2)
  BY <1>1, FirstFailureConcat
<1>4. FirstFailure(((p1 \o p2) \o p3) \o p4)
        = IF FirstFailure((p1 \o p2) \o p3) = "none" THEN FirstFailure(p4)
          ELSE FirstFailure((p1 \o p2) \o p3)
  BY <1>1, FirstFailureConcat
<1>5. FirstFailure((((p1 \o p2) \o p3) \o p4) \o p5)
        = IF FirstFailure(((p1 \o p2) \o p3) \o p4) = "none" THEN FirstFailure(p5)
          ELSE FirstFailure(((p1 \o p2) \o p3) \o p4)
  BY <1>1, FirstFailureConcat
<1>. QED  BY <1>2, <1>3, <1>4, <1>5

(* The verdict of altcodec's open_stream, stage by stage.                  *)
LEMMA AltStreamStages ==
  ASSUME NEW e, NEW k, NEW h, Len(e.body) \in Nat
  PROVE  AltFailure(e, k, h)
           = IF FirstFailure(AltHeaderChecks(e)) # "none"
             THEN FirstFailure(AltHeaderChecks(e))
             ELSE IF FirstFailure(AltKeyChecks(e, k)) # "none"
             THEN FirstFailure(AltKeyChecks(e, k))
             ELSE IF Check("bad handshake", h) # "none" THEN Check("bad handshake", h)
             ELSE IF FirstFailure(AltFrameChecks(e)) # "none"
             THEN FirstFailure(AltFrameChecks(e))
             ELSE FirstFailure(AltChunkChecks(e, k.rcpt))
<1>. DEFINE p1 == AltHeaderChecks(e)
            p2 == AltKeyChecks(e, k)
            p3 == << Check("bad handshake", h) >>
            p4 == AltFrameChecks(e)
            p5 == AltChunkChecks(e, k.rcpt)
<1>1. p1 \in Seq(StreamErrors)
  BY StreamTables
<1>2. p2 \in Seq(StreamErrors)
  BY StreamTables
<1>3. p3 \in Seq(StreamErrors)
  BY StreamTables
<1>4. p4 \in Seq(StreamErrors)
  BY StreamTables
<1>5. p5 \in Seq(StreamErrors)
  BY StreamTables
<1>6. AltFailure(e, k, h) = FirstFailure(p1 \o p2 \o p3 \o p4 \o p5)
  BY DEF AltFailure, AltChunkChecks
<1>7. FirstFailure(p3) = Check("bad handshake", h)
  BY SingleFailure
<1>. HIDE DEF p1, p2, p3, p4, p5
<1>8. FirstFailure(p1 \o p2 \o p3 \o p4 \o p5)
        = IF FirstFailure(p1) # "none" THEN FirstFailure(p1)
          ELSE IF FirstFailure(p2) # "none" THEN FirstFailure(p2)
          ELSE IF FirstFailure(p3) # "none" THEN FirstFailure(p3)
          ELSE IF FirstFailure(p4) # "none" THEN FirstFailure(p4)
          ELSE FirstFailure(p5)
  BY <1>1, <1>2, <1>3, <1>4, <1>5, FiveParsers
<1>. QED  BY <1>6, <1>7, <1>8 DEF p1, p2, p4, p5

(* On a suite in scope the tables of the two readers are the same.         *)
LEMMA SameStreamTables ==
  ASSUME env.hdr.suite # 3
  PROVE  /\ FirstFailure(AltHeaderChecks(env)) = FirstFailure(HeaderChecks)
         /\ FirstFailure(AltKeyChecks(env, bundle)) = FirstFailure(KeyChecks)
         /\ FirstFailure(AltFrameChecks(env)) = FirstFailure(FrameChecks)
<1>1. Check("unknown suite", env.hdr.suite \in AltSuites)
        = Check("unknown suite", env.hdr.suite \in SuiteIds)
  BY DEF Check, AltSuites, SuiteIds
<1>2. AltHeaderChecks(env) = HeaderChecks
  BY <1>1 DEF AltHeaderChecks, HeaderChecks, STREAM_MAGIC, VERSION
<1>3. Check("key-id mismatch", bundle.rcpt = env.hdr.kid)
        = Check("key-id mismatch", env.hdr.kid = bundle.rcpt)
  BY DEF Check
<1>4. AltKeyChecks(env, bundle) = KeyChecks
  BY <1>3 DEF AltKeyChecks, KeyChecks
<1>5. AltFrameChecks(env) = FrameChecks
  BY DEF AltFrameChecks, FrameChecks
<1>. QED  BY <1>2, <1>4, <1>5

(* A chunk opens for the one reader exactly when it does for the other.    *)
LEMMA SameOpens ==
  ASSUME NEW r, NEW i \in Nat, NEW n \in Nat, Len(env.body) = n,
         key = StreamKey(env.hdr, r),
         NEW final, final = Final(i, n)
  PROVE  AltChunkOpens(env, r, i + 1)
           <=> AeadOpens(key, ChunkNonce(env.hdr, i, final),
                         ChunkAad(env.hdr, i, final), env.body[i + 1])
<1>1. AltCtr(env, i + 1) = Ctr(i, final)
  <2>1. (i + 1) - 1 = i /\ (i + 1 = n <=> i = n - 1)
    OBVIOUS
  <2>. QED  BY <2>1 DEF AltCtr, Ctr, Final
<1>2. AltStreamKey(env.hdr, r) = key
  BY DEF AltStreamKey, StreamKey, DeriveKey, PreAuth
<1>. QED  BY Zenon, <1>1, <1>2 DEF AltChunkOpens, ChunkNonce, ChunkAad

(* What the loop over the frames may raise.                                *)
LEMMA FrameErrors ==
  FirstFailure(FrameChecks)
    \in {"none", "missing chunk length", "chunk runs past end", "empty stream"}
<1>. DEFINE t == FrameChecks
<1>0. Len(t) = 3
  BY DEF FrameChecks
<1>1. /\ t[1] \in {"none", "missing chunk length"}
      /\ t[2] \in {"none", "chunk runs past end"}
      /\ t[3] \in {"none", "empty stream"}
  BY DEF FrameChecks, Check
<1>. HIDE DEF t
<1>2. CASE FirstFailure(t) # "none"
  <2>1. Len(t) \in Nat
    BY <1>0
  <2>2. PICK i \in 1..Len(t) : FirstFailure(t) = t[i]
    BY <1>2, <2>1, FailsSomewhere
  <2>3. i = 1 \/ i = 2 \/ i = 3
    BY <1>0
  <2>. QED  BY <1>1, <2>2, <2>3 DEF t
<1>. QED  BY <1>2 DEF t

(* The chunks are refused at the first that does not open.                 *)
LEMMA ChunksRefused ==
  ASSUME NEW e, NEW r, Len(e.body) \in Nat, NEW n \in Nat, n + 1 \in 1..Len(e.body),
         \A i \in 1..n : AltChunkOpens(e, r, i), ~AltChunkOpens(e, r, n + 1)
  PROVE  FirstFailure(AltChunkChecks(e, r)) = "chunk AEAD"
<1>. DEFINE t == AltChunkChecks(e, r)
            m == n + 1
<1>1. Len(t) = Len(e.body)
  BY DEF AltChunkChecks
<1>2. /\ t[m] = "chunk AEAD" /\ t[m] # "none"
      /\ \A j \in 1..(m - 1) : t[j] = "none"
  <2>1. \A j \in 1..Len(e.body) :
          t[j] = IF AltChunkOpens(e, r, j) THEN "none" ELSE "chunk AEAD"
    BY DEF AltChunkChecks, Check
  <2>2. m \in 1..Len(e.body) /\ \A j \in 1..(m - 1) : j \in 1..n /\ j \in 1..Len(e.body)
    OBVIOUS
  <2>. HIDE DEF t
  <2>. QED  BY <2>1, <2>2
<1>3. Len(t) \in Nat /\ m \in 1..Len(t)
  BY <1>1
<1>. HIDE DEF t, m
<1>4. FirstFailure(t) = t[m]
  BY <1>2, <1>3, FirstFailureIs
<1>. QED  BY <1>2, <1>4 DEF t

(* When every chunk opens, no chunk is refused.                            *)
LEMMA ChunksPass ==
  ASSUME NEW e, NEW r, Len(e.body) \in Nat,
         \A i \in 1..Len(e.body) : AltChunkOpens(e, r, i)
  PROVE  FirstFailure(AltChunkChecks(e, r)) = "none"
<1>. DEFINE t == AltChunkChecks(e, r)
<1>1. Len(t) = Len(e.body)
  BY DEF AltChunkChecks
<1>2. \A i \in 1..Len(t) : t[i] = "none"
  BY <1>1 DEF AltChunkChecks, Check
<1>. HIDE DEF t
<1>3. FirstFailure(t) = "none"
  BY <1>2, NoneFails
<1>. QED  BY <1>3 DEF t

(* A call that has ended: the other reader's verdict is the same, and what *)
(* was returned is what the chunks held.                                   *)
LEMMA EndedStream ==
  ASSUME TypeOK, OpenTypeInv, OpeningInv, ReaderVerdict,
         opc \in {"done", "failed"}, env.hdr.suite # 3
  PROVE  /\ AltFailure(env, bundle, oerr # "bad handshake")
               = IF opc = "done" THEN "none" ELSE oerr
         /\ opc = "failed" => oerr # "none" /\ out = None
         /\ opc = "done" => out = FlattenSeq(Plaintexts(env, Len(env.body)))
<1>. DEFINE h == oerr # "bad handshake"
            H == FirstFailure(HeaderChecks)
            K == FirstFailure(KeyChecks)
            F == FirstFailure(FrameChecks)
            C == FirstFailure(AltChunkChecks(env, bundle.rcpt))
<1>1. Len(env.body) \in Nat
  BY DEF OpenTypeInv, StoredBytes
<1>2. AltFailure(env, bundle, h)
        = IF H # "none" THEN H
          ELSE IF K # "none" THEN K
          ELSE IF Check("bad handshake", h) # "none" THEN Check("bad handshake", h)
          ELSE IF F # "none" THEN F
          ELSE C
  <2>. HIDE DEF h
  <2>. QED  BY <1>1, AltStreamStages, SameStreamTables
<1>3. Check("bad handshake", h) = IF oerr = "bad handshake" THEN "bad handshake" ELSE "none"
  BY DEF Check
<1>4. CASE opc = "done"
  <2>1. /\ H = "none" /\ K = "none" /\ F = "none" /\ oerr = None
    BY <1>4 DEF ReaderVerdict, PassedStages
  <2>2. idx = Len(env.body) /\ OpenedChunks
    BY <1>4 DEF OpeningInv, ReaderVerdict
  <2>3. C = "none"
    BY <1>1, <2>2, ChunksPass DEF OpenedChunks
  <2>. HIDE DEF H, K, F, C
  <2>4. AltFailure(env, bundle, h) = "none"
    BY <1>2, <1>3, <2>1, <2>3, AltStreamAssumption
  <2>. QED  BY <1>4, <2>2, <2>4 DEF OpenedChunks
<1>5. CASE opc = "failed"
  <2>1. FailedSomewhere /\ out = None
    BY <1>5 DEF ReaderVerdict
  <2>2. AltFailure(env, bundle, h) = oerr /\ oerr # "none"
    <3>1. CASE FailedAtHeader
      BY <1>2, <3>1 DEF FailedAtHeader
    <3>2. CASE FailedAtKey
      BY <1>2, <3>2 DEF FailedAtKey
    <3>3. CASE FailedAtSecret
      BY <1>2, <1>3, <3>3 DEF FailedAtSecret
    <3>4. CASE FailedAtFrames
      BY <1>2, <1>3, <3>4, FrameErrors DEF FailedAtFrames
    <3>5. CASE FailedAtChunk
      <4>1. C = "chunk AEAD"
        <5>1. idx \in Nat
          BY DEF TypeOK
        <5>. QED  BY <1>1, <3>5, <5>1, ChunksRefused DEF FailedAtChunk
      <4>2. H = "none" /\ K = "none" /\ F = "none" /\ oerr = "chunk AEAD"
        BY <3>5 DEF FailedAtChunk
      <4>. HIDE DEF H, K, F, C
      <4>. QED  BY <1>2, <1>3, <4>1, <4>2
    <3>. QED  BY <2>1, <3>1, <3>2, <3>3, <3>4, <3>5 DEF FailedSomewhere
  <2>. QED  BY <1>5, <2>1, <2>2
<1>. QED  BY <1>4, <1>5

-----------------------------------------------------------------------------
(* The steps of open_stream.                                               *)

(* One more chunk: what it held is appended.                               *)
LEMMA OneMorePlaintext ==
  ASSUME NEW e, NEW n \in Nat, Plaintexts(e, n) \in Seq(Seq(Byte)),
         e.body[n + 1].plaintext \in Seq(Byte)
  PROVE  /\ Plaintexts(e, n + 1) \in Seq(Seq(Byte))
         /\ FlattenSeq(Plaintexts(e, n + 1))
              = FlattenSeq(Plaintexts(e, n)) \o e.body[n + 1].plaintext
<1>. DEFINE x == e.body[n + 1].plaintext
<1>1. Plaintexts(e, n + 1) = Append(Plaintexts(e, n), x)
  BY DEF Plaintexts
<1>. HIDE DEF x
<1>2. Append(Plaintexts(e, n), x) \in Seq(Seq(Byte))
  BY DEF x
<1>. QED  BY <1>1, <1>2, FlattenAppend DEF x

(* A piece of a plaintext is a sequence of its bytes.                      *)
LEMMA PieceType ==
  ASSUME NEW S, NEW m \in Seq(S), NEW k \in Nat, NEW i \in Nat \ {0}
  PROVE  Piece(m, k, i) \in Seq(S)
<1>. DEFINE p == (i - 1) * k
            q == IF i * k < Len(m) THEN i * k ELSE Len(m)
<1>1. p \in Nat /\ i * k \in Nat /\ Len(m) \in Nat
  OBVIOUS
<1>2. q \in 0..Len(m)
  BY <1>1
<1>3. Piece(m, k, i) = SubSeq(m, p + 1, q)
  BY DEF Piece
<1>. HIDE DEF p, q
<1>4. p + 1 \in Nat \ {0}
  BY <1>1
<1>. QED  BY <1>2, <1>3, <1>4, SliceType

(* One iteration of the opening loop.                                      *)
LEMMA OpenChunkVerdict ==
  ASSUME TypeOK, IInv, ReaderVerdict, OpenChunk
  PROVE  ReaderVerdict'
<1>. DEFINE final == Final(idx, Len(env.body))
            opens == AeadOpens(key, ChunkNonce(env.hdr, idx, final),
                               ChunkAad(env.hdr, idx, final), env.body[idx + 1])
<1>1. /\ opc = "chunks" /\ idx \in Nat /\ Len(env.body) \in Nat
      /\ idx < Len(env.body) /\ key = StreamKey(env.hdr, bundle.rcpt)
      /\ OpenedChunks /\ oerr = None
      /\ FirstFailure(HeaderChecks) = "none" /\ FirstFailure(KeyChecks) = "none"
      /\ FirstFailure(FrameChecks) = "none"
  BY DEF OpenChunk, TypeOK, IInv, OpenTypeInv, StoredBytes, OpeningInv, ReaderVerdict,
         PassedStages
<1>2. AltChunkOpens(env, bundle.rcpt, idx + 1) <=> opens
  BY <1>1, SameOpens
<1>3. UNCHANGED <<env, bundle>>
  BY DEF OpenChunk, BadChunk, Reject
<1>4. /\ FirstFailure(HeaderChecks)' = "none" /\ FirstFailure(KeyChecks)' = "none"
      /\ FirstFailure(FrameChecks)' = "none"
  BY <1>1, <1>3 DEF HeaderChecks, KeyChecks, FrameChecks
<1>5. CASE ~opens
  <2>1. opc' = "failed" /\ oerr' = "chunk AEAD" /\ out' = None /\ idx' = idx
    BY <1>5 DEF OpenChunk, BadChunk, Reject
  <2>2. FailedAtChunk'
    <3>1. idx' + 1 \in 1..Len(env'.body)
      <4>1. idx + 1 \in 1..Len(env.body)
        BY <1>1
      <4>. QED  BY <1>3, <2>1, <4>1
    <3>2. \A i \in 1..idx' : AltChunkOpens(env', bundle'.rcpt, i)
      BY <1>1, <1>3, <2>1 DEF OpenedChunks
    <3>3. ~AltChunkOpens(env', bundle'.rcpt, idx' + 1)
      BY <1>2, <1>3, <1>5, <2>1
    <3>. QED  BY <1>4, <2>1, <3>1, <3>2, <3>3 DEF FailedAtChunk
  <2>. QED  BY <2>1, <2>2 DEF ReaderVerdict, PassedStages, FailedSomewhere
<1>6. CASE opens
  <2>. DEFINE x == env.body[idx + 1].plaintext
  <2>1. /\ out' = out \o x /\ idx' = idx + 1 /\ oerr' = oerr
        /\ opc' \in {"chunks", "done"}
    BY <1>6 DEF OpenChunk, BadChunk, Reject
  <2>2. x \in Seq(Byte)
    <3>1. PICK s \in Finished : x = Piece(sent[s].pt, env.hdr.csize, idx + 1)
                                /\ env.hdr = sent[s].env.hdr
                                /\ idx * env.hdr.csize <= Len(sent[s].pt)
      BY <1>1, <1>6, OpenedFrame DEF IInv
    <3>2. sent[s].pt \in Seq(Byte) /\ env.hdr.csize \in Nat
      <4>0. s \in Finished
        BY <3>1
      <4>1. sent[s].pt \in Seq(Byte)
        BY <4>0, StreamAssumption DEF TypeOK
      <4>2. SentInv
        BY DEF IInv
      <4>3. sent[s].env.hdr.csize \in Nat
        BY <3>1, <4>0, <4>2 DEF SentInv
      <4>. QED  BY <3>1, <4>1, <4>3
    <3>3. idx + 1 \in Nat \ {0}
      BY <1>1
    <3>4. Piece(sent[s].pt, env.hdr.csize, idx + 1) \in Seq(Byte)
      BY <3>2, <3>3, PieceType
    <3>. QED  BY <3>1, <3>4
  <2>3. OpenedChunks'
    <3>1. \A i \in 1..idx' : AltChunkOpens(env', bundle'.rcpt, i)
      <4>1. \A i \in 1..idx + 1 : i \in 1..idx \/ i = idx + 1
        BY <1>1
      <4>. QED  BY <1>1, <1>2, <1>3, <1>6, <2>1, <4>1 DEF OpenedChunks
    <3>2. /\ Plaintexts(env, idx + 1) \in Seq(Seq(Byte))
          /\ FlattenSeq(Plaintexts(env, idx + 1)) = FlattenSeq(Plaintexts(env, idx)) \o x
      BY <1>1, <2>2, OneMorePlaintext DEF OpenedChunks
    <3>3. /\ Plaintexts(env', idx') \in Seq(Seq(Byte))
          /\ out' = FlattenSeq(Plaintexts(env', idx'))
      BY <1>1, <1>3, <2>1, <3>2 DEF OpenedChunks
    <3>. QED  BY <3>1, <3>3 DEF OpenedChunks
  <2>. QED  BY <1>1, <1>4, <2>1, <2>3 DEF ReaderVerdict, PassedStages
<1>. QED  BY <1>5, <1>6

(* The stages before the loop.                                             *)
LEMMA OpenStageVerdict ==
  ASSUME TypeOK, ReaderVerdict,
         OpenCall \/ OpenParse \/ OpenKey \/ OpenSecret \/ OpenFrames \/ OpenReturn
  PROVE  ReaderVerdict'
<1>. USE DEF ReaderVerdict, PassedStages
<1>1. CASE OpenCall
  BY <1>1 DEF OpenCall
<1>2. CASE OpenReturn
  BY <1>2 DEF OpenReturn
<1>3. CASE OpenParse \/ OpenKey \/ OpenSecret \/ OpenFrames
  <2>1. UNCHANGED <<env, bundle>>
    BY <1>3 DEF OpenParse, OpenKey, OpenSecret, OpenFrames, Reject
  <2>2. /\ FirstFailure(HeaderChecks)' = FirstFailure(HeaderChecks)
        /\ FirstFailure(KeyChecks)' = FirstFailure(KeyChecks)
        /\ FirstFailure(FrameChecks)' = FirstFailure(FrameChecks)
    BY <2>1 DEF HeaderChecks, KeyChecks, FrameChecks
  <2>3. CASE OpenParse
    BY <2>2, <2>3 DEF OpenParse, Reject, FailedSomewhere, FailedAtHeader
  <2>4. CASE OpenKey
    BY <2>2, <2>4 DEF OpenKey, Reject, FailedSomewhere, FailedAtKey
  <2>5. CASE OpenSecret
    BY <2>2, <2>5 DEF OpenSecret, Reject, FailedSomewhere, FailedAtSecret
  <2>6. CASE OpenFrames /\ opc' = "failed"
    BY <2>2, <2>6 DEF OpenFrames, Reject, FailedSomewhere, FailedAtFrames
  <2>7. CASE OpenFrames /\ opc' # "failed"
    <3>1. /\ opc' = "chunks" /\ idx' = 0 /\ out' = <<>> /\ oerr' = oerr
          /\ opc = "frames" /\ FirstFailure(FrameChecks) = "none"
      BY <2>7 DEF OpenFrames, Reject
    <3>2. Plaintexts(env', 0) = <<>>
      BY DEF Plaintexts
    <3>3. <<>> \in Seq(Seq(Byte))
      OBVIOUS
    <3>4. OpenedChunks'
      <4>1. \A i \in 1..idx' : AltChunkOpens(env', bundle'.rcpt, i)
        BY <3>1
      <4>2. Plaintexts(env', idx') = <<>>
        BY <3>1, <3>2
      <4>. QED  BY <3>1, <3>3, <4>1, <4>2, FlattenEmpty DEF OpenedChunks
    <3>. QED  BY <2>2, <3>1, <3>4
  <2>. QED  BY <1>3, <2>3, <2>4, <2>5, <2>6, <2>7
<1>. QED  BY <1>1, <1>2, <1>3

(* Whatever leaves open_stream alone leaves its verdict.                   *)
LEMMA VerdictKept == ReaderVerdict /\ UNCHANGED openVars => ReaderVerdict'
<1>. SUFFICES ASSUME ReaderVerdict, UNCHANGED openVars PROVE ReaderVerdict'
  OBVIOUS
<1>1. UNCHANGED <<opc, env, bundle, key, idx, out, oerr, used>>
  BY DEF openVars
<1>2. UNCHANGED <<HeaderChecks, KeyChecks, FrameChecks>>
  BY <1>1 DEF HeaderChecks, KeyChecks, FrameChecks
<1>3. PassedStages' = PassedStages
  BY <1>1, <1>2 DEF PassedStages
<1>4. OpenedChunks' = OpenedChunks
  BY <1>1 DEF OpenedChunks
<1>5. FailedSomewhere' = FailedSomewhere
  BY <1>1, <1>2 DEF FailedSomewhere, FailedAtHeader, FailedAtKey, FailedAtSecret,
                    FailedAtFrames, FailedAtChunk
<1>. QED  BY <1>1, <1>3, <1>4, <1>5 DEF ReaderVerdict

-----------------------------------------------------------------------------
(* Both readers beside each other.                                         *)

(* The actions of the writer and of storage.                               *)
LEMMA OthersLeaveReader ==
  SealCall \/ SealStep \/ StorageFault => UNCHANGED openVars
<1>1. SealCall => UNCHANGED openVars
  BY DEF SealCall, SealFail, SealEnd
<1>2. SealStep => UNCHANGED openVars
  BY DEF SealStep, SealSplit, SealCount, SealEmit, SealFail, SealEnd
<1>3. ASSUME StorageFault PROVE UNCHANGED openVars
  <2>1. PICK s, h, w, tail : Fault(s, h, w, tail)
    BY Zenon, <1>3 DEF StorageFault, LoseFrame, RepeatFrame, SwapFrames,
       CrossFrame, DamageFrame, Cut, Reframe, DamageHeader, CrossHeader,
       FrameFault, HeaderFault
  <2>. QED  BY <2>1 DEF Fault
<1>. QED  BY <1>1, <1>2, <1>3

(* A step of either reader keeps the invariant of both.                    *)
LEMMA StepReaders ==
  StreamReadersInv /\ [AltNext]_altVars => StreamReadersInv'
<1>. SUFFICES ASSUME TypeOK, IInv, AltVerdictInv, [AltNext]_altVars
              PROVE  (TypeOK /\ IInv /\ AltVerdictInv)'
  BY DEF StreamReadersInv
<1>1. (TypeOK /\ IInv)'
  <2>1. [Next]_vars
    BY DEF AltNext, AltOpenStream, BothReturn, Next, altVars
  <2>. QED  BY <2>1, StepIInv
<1>2. ReaderVerdict
  BY DEF AltVerdictInv
<1>3. CASE (SealCall \/ SealStep \/ StorageFault) /\ UNCHANGED alt
  <2>1. UNCHANGED openVars
    BY <1>3, OthersLeaveReader
  <2>2. ReaderVerdict'
    BY <1>2, <2>1, VerdictKept
  <2>3. UNCHANGED <<opc, env, bundle, oerr, alt>>
    BY <1>3, <2>1 DEF openVars
  <2>. QED  BY <1>1, <2>2, <2>3 DEF AltVerdictInv
<1>4. CASE (OpenCall \/ OpenStep) /\ UNCHANGED alt
  <2>1. ReaderVerdict'
    BY <1>2, <1>4, OpenChunkVerdict, OpenStageVerdict DEF OpenStep
  <2>2. opc \notin {"done", "failed"}
    BY <1>4 DEF OpenCall, OpenStep, OpenParse, OpenKey, OpenSecret, OpenFrames, OpenChunk
  <2>3. alt' = None
    BY <1>4, <2>2 DEF AltVerdictInv
  <2>. QED  BY <1>1, <2>1, <2>3 DEF AltVerdictInv
<1>5. CASE AltOpenStream
  <2>1. UNCHANGED <<opc, env, bundle, key, idx, out, oerr, used>>
    BY <1>5 DEF AltOpenStream, vars, openVars
  <2>2. ReaderVerdict'
    BY <1>2, <2>1, VerdictKept DEF openVars
  <2>3. opc \in {"done", "failed"}
        /\ alt' = AltStreamResult(env, bundle, oerr # "bad handshake")
    BY <1>5 DEF AltOpenStream, AltStreamResult, Plaintexts
  <2>. QED  BY <1>1, <2>1, <2>2, <2>3 DEF AltVerdictInv
<1>6. CASE BothReturn
  BY <1>1, <1>2, <1>6, OpenStageVerdict DEF BothReturn, AltVerdictInv
<1>7. CASE UNCHANGED altVars
  <2>1. UNCHANGED openVars /\ UNCHANGED alt
    BY <1>7 DEF altVars, vars
  <2>2. ReaderVerdict'
    BY <1>2, <2>1, VerdictKept
  <2>3. UNCHANGED <<opc, env, bundle, oerr, alt>>
    BY <2>1 DEF openVars
  <2>. QED  BY <1>1, <2>2, <2>3 DEF AltVerdictInv
<1>. QED  BY <1>3, <1>4, <1>5, <1>6, <1>7 DEF AltNext

(* The invariant of both readers.                                          *)
THEOREM ReadersInvariance == AltSpec => []StreamReadersInv
<1>1. AltInit => StreamReadersInv
  <2>. SUFFICES ASSUME AltInit PROVE StreamReadersInv
    OBVIOUS
  <2>1. TypeOK /\ IInv
    BY InitIInv DEF AltInit
  <2>2. AltVerdictInv
    BY DEF AltInit, Init, AltVerdictInv, ReaderVerdict, PassedStages
  <2>. QED  BY <2>1, <2>2 DEF StreamReadersInv
<1>. QED  BY <1>1, StepReaders, PTL DEF AltSpec

(* Two decoders, one verdict, on every stored stream in scope: the same    *)
(* plaintext, or a refusal for the same reason (altcodec.py:326-388        *)
(* against shield.py:610-658).                                             *)
THEOREM OneStreamVerdict == AltSpec => []SameStreamVerdict
<1>1. StreamReadersInv => SameStreamVerdict
  <2>. SUFFICES ASSUME StreamReadersInv, alt # None, env.hdr.suite # 3
                PROVE  /\ alt.out = out
                       /\ alt.err = IF opc = "done" THEN "none" ELSE oerr
    BY DEF SameStreamVerdict
  <2>1. /\ TypeOK /\ OpenTypeInv /\ OpeningInv /\ ReaderVerdict
        /\ opc \in {"done", "failed"}
        /\ alt = AltStreamResult(env, bundle, oerr # "bad handshake")
    BY DEF StreamReadersInv, IInv, AltVerdictInv
  <2>. DEFINE why == AltFailure(env, bundle, oerr # "bad handshake")
  <2>2. /\ why = IF opc = "done" THEN "none" ELSE oerr
        /\ opc = "failed" => oerr # "none" /\ out = None
        /\ opc = "done" => out = FlattenSeq(Plaintexts(env, Len(env.body)))
    BY <2>1, EndedStream
  <2>3. /\ alt.err = why
        /\ alt.out = IF why = "none" THEN FlattenSeq(Plaintexts(env, Len(env.body)))
                                     ELSE None
    BY <2>1 DEF AltStreamResult
  <2>. HIDE DEF why
  <2>. QED  BY <2>1, <2>2, <2>3
<1>. QED  BY <1>1, ReadersInvariance, PTL

-----------------------------------------------------------------------------
(* Refinement.  What StreamTransfer sees of a state.                       *)
SentView == [s \in Streams |-> IF s \in Finished THEN sent[s].pt ELSE None]

(* How each position of open_stream looks from outside.                    *)
LEMMA OutcomeOf ==
  /\ opc = "idle" => Outcome = Transfer!Phase("idle")
  /\ opc = "failed" => Outcome = Transfer!Phase("refused")
  /\ opc = "done" => Outcome = [phase |-> "delivered", from |-> env.hdr.ct, msg |-> out]
  /\ opc \in {"parse", "keys", "secret", "frames", "chunks"} =>
       Outcome = Transfer!Phase("pending")
BY DEF Outcome, Transfer!Phase

(* Initially nothing is sent and no call is open.                          *)
LEMMA InitRefines == Init => Transfer!Init
<1>. SUFFICES ASSUME Init PROVE Transfer!Init
  OBVIOUS
<1>1. Finished = {} /\ opc = "idle"
  BY DEF Init, Finished
<1>2. Outcome = Transfer!Phase("idle")
  BY <1>1, OutcomeOf
<1>. QED  BY <1>1, <1>2 DEF Transfer!Init

(* The end of the sealing loop is Send; until then nothing is seen.        *)
LEMMA SealRefines ==
  ASSUME TypeOK, CuttingInv, SealCall \/ SealStep
  PROVE  Transfer!Send \/ (SentView' = SentView /\ Outcome' = Outcome)
<1>1. Outcome' = Outcome
  <2>1. UNCHANGED openVars
    BY OthersLeaveReader
  <2>. QED  BY <2>1 DEF openVars, Outcome
<1>2. CASE sent' = sent
  BY <1>1, <1>2 DEF SentView, Finished
<1>3. CASE sent' # sent
  <2>1. EmitLast /\ spc = "emit"
    <3>1. SealEmit
      BY <1>3 DEF SealCall, SealStep, SealSplit, SealCount, SealFail
    <3>. QED  BY <1>3, <3>1, SealEmitCases DEF SealFail, EmitMore
  <2>. DEFINE stream == Stream(Header(cur, to, base, size), Emitted)
  <2>2. /\ cur \in Streams /\ cur \notin Finished
        /\ Finished' = Finished \union {cur}
        /\ \A s \in Finished : sent'[s] = sent[s]
        /\ sent'[cur] = [pt |-> pt, to |-> to, env |-> stream]
    <3>. HIDE DEF stream
    <3>1. stream = Stream(Header(cur, to, base, size), Emitted)
      BY DEF stream
    <3>. QED  BY <2>1, <3>1, EmitLastSent
  <2>3. pt \in Messages
    BY <2>1 DEF CuttingInv
  <2>4. SentView[cur] = None
    BY <2>2 DEF SentView
  <2>5. sent'[cur].pt = pt
    BY <2>2
  <2>6. SentView' = [SentView EXCEPT ![cur] = pt]
    <3>. HIDE DEF stream
    <3>1. \A s \in Streams : (IF s \in Finished' THEN sent'[s].pt ELSE None)
                              = IF s = cur THEN pt
                                ELSE IF s \in Finished THEN sent[s].pt ELSE None
      BY <2>2, <2>5
    <3>. QED  BY <3>1 DEF SentView
  <2>. QED  BY <1>1, <2>2, <2>3, <2>4, <2>6 DEF SentView, Transfer!Send
<1>. QED  BY <1>2, <1>3

(* The call of open_stream is Begin, its end Return.                       *)
LEMMA CallRefines == OpenCall => Transfer!Begin
<1>. SUFFICES ASSUME OpenCall PROVE Transfer!Begin
  OBVIOUS
<1>1. opc = "idle" /\ opc' = "parse" /\ sent' = sent
  BY DEF OpenCall
<1>2. Outcome = Transfer!Phase("idle")
  BY <1>1, OutcomeOf
<1>3. Outcome' = Transfer!Phase("pending")
  BY <1>1 DEF Outcome, Transfer!Phase
<1>4. SentView' = SentView
  BY <1>1 DEF SentView, Finished
<1>. QED  BY <1>2, <1>3, <1>4 DEF SentView, Transfer!Begin

(* The caller has the result: Return.                                      *)
LEMMA ReturnRefines == OpenReturn => Transfer!Return
<1>. SUFFICES ASSUME OpenReturn PROVE Transfer!Return
  OBVIOUS
<1>1. opc \in {"done", "failed"} /\ opc' = "idle" /\ sent' = sent
  BY DEF OpenReturn
<1>2. Outcome.phase \in {"delivered", "refused"}
  BY <1>1 DEF Outcome
<1>3. Outcome' = Transfer!Phase("idle")
  BY <1>1 DEF Outcome, Transfer!Phase
<1>4. SentView' = SentView
  BY <1>1 DEF SentView, Finished
<1>. QED  BY <1>2, <1>3, <1>4 DEF SentView, Transfer!Return

(* A stage or an iteration: nothing to see yet, a refusal, or a delivery   *)
(* of the whole message that was sent.                                     *)
LEMMA OpenStepRefines ==
  ASSUME (TypeOK /\ IInv)', WholeOrNothing', OpenStep
  PROVE  \/ SentView' = SentView /\ Outcome' = Outcome
         \/ Transfer!Refuse
         \/ Transfer!Deliver
<1>1. /\ sent' = sent
      /\ opc \in {"parse", "keys", "secret", "frames", "chunks"}
      /\ opc' \in {"keys", "secret", "frames", "chunks", "failed", "done"}
  BY DEF OpenStep, OpenParse, OpenKey, OpenSecret, OpenFrames, OpenChunk, BadChunk, Reject
<1>2. SentView' = SentView
  BY <1>1 DEF SentView, Finished
<1>3. Outcome = Transfer!Phase("pending")
  BY <1>1, OutcomeOf
<1>4. CASE opc' \in {"keys", "secret", "frames", "chunks"}
  <2>1. Outcome' = Transfer!Phase("pending")
    BY <1>4 DEF Outcome, Transfer!Phase
  <2>. QED  BY <1>2, <1>3, <2>1
<1>5. CASE opc' = "failed"
  <2>1. Outcome' = Transfer!Phase("refused")
    BY <1>5 DEF Outcome, Transfer!Phase
  <2>. QED  BY <1>2, <1>3, <2>1 DEF SentView, Transfer!Refuse
<1>6. CASE opc' = "done"
  <2>1. PICK s \in Finished : out' = sent[s].pt /\ env' = sent[s].env
    BY <1>1, <1>6 DEF WholeOrNothing, Finished
  <2>2. s \in Streams /\ sent[s].pt \in Messages /\ env'.hdr.ct = s
    <3>1. /\ Finished' \subseteq Streams
          /\ \A t \in Finished' : sent'[t].pt \in Messages
      BY DEF TypeOK
    <3>2. Finished' = Finished
      BY <1>1 DEF Finished
    <3>3. SentInv
      BY <1>1 DEF IInv, SentInv, Finished
    <3>4. sent[s].env.hdr.ct = s
      BY <2>1, <3>3, HeaderNames
    <3>. QED  BY <1>1, <2>1, <3>1, <3>2, <3>4
  <2>3. SentView[s] = sent[s].pt /\ SentView[s] # None
    BY <2>1, <2>2, StreamAssumption DEF SentView
  <2>4. Outcome' = [phase |-> "delivered", from |-> s, msg |-> SentView[s]]
    BY <1>6, <2>1, <2>2, <2>3 DEF Outcome
  <2>. QED  BY <1>2, <1>3, <2>2, <2>3, <2>4 DEF SentView, Transfer!Deliver
<1>. QED  BY <1>1, <1>4, <1>5, <1>6

(* Every step is one of the abstract ones or changes nothing there.        *)
LEMMA StepMaps ==
  TypeOK /\ IInv /\ (TypeOK /\ IInv)' /\ WholeOrNothing' /\ [Next]_vars =>
    Transfer!Next \/ (SentView' = SentView /\ Outcome' = Outcome)
<1>. SUFFICES ASSUME TypeOK, IInv, (TypeOK /\ IInv)', WholeOrNothing', [Next]_vars
              PROVE Transfer!Next \/ (SentView' = SentView /\ Outcome' = Outcome)
  OBVIOUS
<1>1. CASE StorageFault \/ UNCHANGED vars
  <2>1. UNCHANGED openVars /\ UNCHANGED sent
    <3>1. CASE UNCHANGED vars
      BY <3>1 DEF vars
    <3>2. CASE StorageFault
      <4>1. PICK s, h, w, tail : Fault(s, h, w, tail)
        BY Zenon, <3>2 DEF StorageFault, LoseFrame, RepeatFrame, SwapFrames,
           CrossFrame, DamageFrame, Cut, Reframe, DamageHeader, CrossHeader,
           FrameFault, HeaderFault
      <4>. QED  BY <4>1 DEF Fault
    <3>. QED  BY <1>1, <3>1, <3>2
  <2>. QED  BY <2>1 DEF openVars, SentView, Finished, Outcome
<1>2. CASE SealCall \/ SealStep
  BY <1>2, SealRefines DEF IInv, Transfer!Next
<1>3. CASE OpenCall
  BY <1>3, CallRefines DEF Transfer!Next
<1>4. CASE OpenStep
  BY <1>4, OpenStepRefines DEF Transfer!Next
<1>5. CASE OpenReturn
  BY <1>5, ReturnRefines DEF Transfer!Next
<1>. QED  BY <1>1, <1>2, <1>3, <1>4, <1>5 DEF Next

(* seal_stream and open_stream take the steps of StreamTransfer and no     *)
(* others: a send, a call, a delivery of one whole sent message, a         *)
(* refusal, a return, or nothing to be seen (shield.py:570-658).  That a   *)
(* call in progress delivers or refuses is left to the runs.               *)
THEOREM ImplementsTransferSteps ==
  Safety => Transfer!Init /\ [][Transfer!Next]_<<SentView, Outcome>>
<1>1. Init => Transfer!Init
  BY InitRefines
<1>2. TypeOK /\ IInv /\ (TypeOK /\ IInv)' /\ WholeOrNothing' /\ [Next]_vars =>
        [Transfer!Next]_<<SentView, Outcome>>
  BY StepMaps
<1>. QED  BY <1>1, <1>2, Invariance, Authentic, PTL DEF Safety

-----------------------------------------------------------------------------
(* Why a call of open_stream ends.                                         *)

(* What a call has still to do: its stages, and a turn for each blob.      *)
ToDo == CASE opc = "parse"  -> Len(env.body) + 4
          [] opc = "keys"   -> Len(env.body) + 3
          [] opc = "secret" -> Len(env.body) + 2
          [] opc = "frames" -> Len(env.body) + 1
          [] opc = "chunks" -> Len(env.body) - idx
          [] OTHER -> 0

InProgress == opc \notin {"idle", "done", "failed"}

(* It is a natural number, and not 0 while the call is under way.          *)
LEMMA ToDoType ==
  TypeOK /\ OpenTypeInv /\ OpeningInv => ToDo \in Nat /\ (InProgress => ToDo > 0)
<1>. SUFFICES ASSUME TypeOK, OpenTypeInv, OpeningInv
              PROVE  ToDo \in Nat /\ (InProgress => ToDo > 0)
  OBVIOUS
<1>1. opc # "idle" => Len(env.body) \in Nat
  BY DEF OpenTypeInv, StoredBytes
<1>2. opc = "chunks" => idx \in Nat /\ idx < Len(env.body)
  BY DEF TypeOK, OpeningInv
<1>3. opc \in {"idle", "parse", "keys", "secret", "frames", "chunks", "done", "failed"}
  BY DEF TypeOK
<1>4. CASE opc \in {"idle", "done", "failed"}
  BY <1>4 DEF ToDo, InProgress
<1>5. CASE opc \in {"parse", "keys", "secret", "frames"}
  BY <1>1, <1>5 DEF ToDo
<1>6. CASE opc = "chunks"
  BY <1>1, <1>2, <1>6 DEF ToDo
<1>. QED  BY <1>3, <1>4, <1>5, <1>6

(* Every turn does some of it.                                             *)
LEMMA OpenStepAdvances ==
  ASSUME TypeOK, OpenTypeInv, OpeningInv, OpenStep
  PROVE  ToDo' < ToDo
<1>1. opc # "idle" => Len(env.body) \in Nat
  BY DEF OpenTypeInv, StoredBytes
<1>2. opc = "chunks" => idx \in Nat /\ idx < Len(env.body)
  BY DEF TypeOK, OpeningInv
<1>3. CASE opc' = "failed"
  <2>1. InProgress
    BY DEF OpenStep, OpenParse, OpenKey, OpenSecret, OpenFrames, OpenChunk, InProgress
  <2>2. ToDo' = 0
    BY <1>3 DEF ToDo
  <2>. QED  BY <2>1, <2>2, ToDoType
<1>4. CASE opc' # "failed" /\ (OpenParse \/ OpenKey \/ OpenSecret)
  <2>1. /\ env' = env
        /\ \/ opc = "parse" /\ opc' = "keys"
           \/ opc = "keys" /\ opc' = "secret"
           \/ opc = "secret" /\ opc' = "frames"
    BY <1>4 DEF OpenParse, OpenKey, OpenSecret, Reject
  <2>. QED  BY <1>1, <2>1 DEF ToDo
<1>5. CASE opc' # "failed" /\ OpenFrames
  <2>1. env' = env /\ opc = "frames" /\ opc' = "chunks" /\ idx' = 0
    BY <1>5 DEF OpenFrames, Reject
  <2>. QED  BY <1>1, <2>1 DEF ToDo
<1>6. CASE opc' # "failed" /\ OpenChunk
  <2>1. /\ env' = env /\ opc = "chunks" /\ idx' = idx + 1
        /\ opc' = IF idx + 1 = Len(env.body) THEN "done" ELSE "chunks"
    BY <1>6 DEF OpenChunk, BadChunk, Reject
  <2>. QED  BY <1>1, <1>2, <2>1 DEF ToDo
<1>. QED  BY <1>3, <1>4, <1>5, <1>6 DEF OpenStep

(* While a call of open_stream is under way a step is one of its own, and  *)
(* then less is left to do, or leaves the call as it is: on any bytes that *)
(* storage can produce it takes no more steps than it has stages and blobs *)
(* (shield.py:637-658).                                                    *)
THEOREM OpeningAdvances ==
  Safety => [][InProgress => \/ OpenStep /\ ToDo' \in Nat /\ ToDo' < ToDo
                             \/ UNCHANGED openVars]_vars
<1>1. TypeOK /\ IInv /\ (TypeOK /\ IInv)' /\ [Next]_vars =>
        [InProgress => \/ OpenStep /\ ToDo' \in Nat /\ ToDo' < ToDo
                       \/ UNCHANGED openVars]_vars
  <2>. SUFFICES ASSUME TypeOK, IInv, (TypeOK /\ IInv)', Next, InProgress
                PROVE  \/ OpenStep /\ ToDo' \in Nat /\ ToDo' < ToDo
                       \/ UNCHANGED openVars
    OBVIOUS
  <2>1. CASE OpenStep
    <3>1. ToDo' < ToDo
      BY <2>1, OpenStepAdvances DEF IInv
    <3>2. /\ opc' # "idle" => Len(env'.body) \in Nat
          /\ opc' = "chunks" => idx' \in Nat /\ idx' < Len(env'.body)
      BY DEF IInv, TypeOK, OpenTypeInv, StoredBytes, OpeningInv
    <3>3. ToDo' \in Nat
      BY <3>2 DEF ToDo
    <3>. QED  BY <2>1, <3>1, <3>3
  <2>2. CASE SealCall \/ SealStep \/ StorageFault
    BY <2>2, OthersLeaveReader
  <2>3. CASE OpenCall \/ OpenReturn
    BY <2>3 DEF OpenCall, OpenReturn, InProgress
  <2>. QED  BY <2>1, <2>2, <2>3 DEF Next
<1>. QED  BY <1>1, Invariance, PTL DEF Safety

-----------------------------------------------------------------------------
(* The corpus.                                                             *)

(* Chunk j of stream d stands where the original has it, and ends the one  *)
(* stream when it ends the other.                                          *)
Placed(d, original, j) == /\ j <= ChunkCount /\ d.body[j] = original.body[j]
                          /\ j = Len(d.body) <=> j = ChunkCount

(* A vector made from an original ends in its category, for both readers.  *)
Proper(v, original) ==
  LET d == v.env
      header == FirstFailure(AltHeaderChecks(d))
      keys == FirstFailure(AltKeyChecks(d, v.bundle))
  IN  /\ d.hdr.suite # 3
      /\ v.expected \in {"truncation", "suite_mismatch", "wrong_recipient", "opens", "aead"}
      /\ header = IF v.expected = "truncation" THEN "truncated header" ELSE "none"
      /\ v.expected = "suite_mismatch" => keys = "suite mismatch"
      /\ v.expected = "wrong_recipient" => keys = "key-id mismatch"
      /\ v.expected \in {"opens", "aead"} =>
           /\ keys = "none" /\ FirstFailure(AltFrameChecks(d)) = "none"
           /\ Bad \notin {d.hdr.eph, d.hdr.ct}
           /\ \A j \in 1..Len(d.body) :
                AltChunkOpens(d, v.bundle.rcpt, j) <=> Placed(d, original, j)
           /\ v.expected = "opens" <=> \A j \in 1..Len(d.body) : Placed(d, original, j)

ReplayedInv ==
  vec # None => /\ opc # "idle" /\ env = vec.env /\ bundle = vec.bundle
                /\ vec.from \in Finished /\ Proper(vec, sent[vec.from].env)

PstvInv == StreamReadersInv /\ ReplayedInv

(* The checks of a header of a suite in scope.                             *)
LEMMA HeaderOutcome ==
  ASSUME NEW d, d.hdr.magic = STREAM_MAGIC, d.hdr.version = VERSION,
         d.hdr.suite \in AltSuites
  PROVE  FirstFailure(AltHeaderChecks(d)) = Check("truncated header", d.tail # "header")
<1>. DEFINE t == AltHeaderChecks(d)
            last == Check("truncated header", d.tail # "header")
<1>1. Len(t) = 4
  BY DEF AltHeaderChecks
<1>2. t[1] = "none" /\ t[2] = "none" /\ t[3] = "none" /\ t[4] = last
  BY DEF AltHeaderChecks, Check, STREAM_MAGIC, VERSION
<1>. HIDE DEF t, last
<1>3. Len(t) \in Nat /\ 4 \in 1..Len(t)
  BY <1>1
<1>4. \A j \in 1..(4 - 1) : t[j] = "none"
  BY <1>2
<1>5. ASSUME last # "none" PROVE FirstFailure(t) = last
  BY <1>2, <1>3, <1>4, <1>5, FirstFailureIs
<1>6. ASSUME last = "none" PROVE FirstFailure(t) = last
  <2>1. \A j \in 1..4 : t[j] = "none"
    BY <1>2, <1>6
  <2>. QED  BY <1>1, <1>6, <2>1, NoneFails
<1>. QED  BY <1>5, <1>6 DEF t, last

(* The checks of a private bundle against a header.                        *)
LEMMA KeyOutcome ==
  ASSUME NEW d, NEW k, k.role = "kem_priv"
  PROVE  LET suite == SuiteOf[k.rcpt] = d.hdr.suite
             kid == k.rcpt = d.hdr.kid
         IN  FirstFailure(AltKeyChecks(d, k))
               = IF suite THEN Check("key-id mismatch", kid) ELSE "suite mismatch"
<1>. DEFINE t == AltKeyChecks(d, k)
            suite == SuiteOf[k.rcpt] = d.hdr.suite
            kid == k.rcpt = d.hdr.kid
<1>1. Len(t) = 3
  BY DEF AltKeyChecks
<1>2. /\ t[1] = "none"
      /\ t[2] = Check("suite mismatch", suite)
      /\ t[3] = Check("key-id mismatch", kid)
  BY DEF AltKeyChecks, Check
<1>. HIDE DEF t, suite, kid
<1>3. Len(t) \in Nat /\ 2 \in 1..Len(t) /\ 3 \in 1..Len(t)
  BY <1>1
<1>4. /\ \A j \in 1..(2 - 1) : t[j] = "none"
      /\ t[2] = "none" => \A j \in 1..(3 - 1) : t[j] = "none"
  <2>1. t[1] = "none"
    BY <1>2
  <2>. QED  BY <2>1
<1>5. CASE ~suite
  <2>1. t[2] = "suite mismatch"
    BY <1>2, <1>5 DEF Check
  <2>2. FirstFailure(t) = t[2]
    BY <1>3, <1>4, <2>1, FirstFailureIs
  <2>. QED  BY <1>5, <2>1, <2>2 DEF t, suite
<1>6. CASE suite /\ ~kid
  <2>1. t[2] = "none" /\ t[3] = "key-id mismatch"
    BY <1>2, <1>6 DEF Check
  <2>2. FirstFailure(t) = t[3]
    BY <1>3, <1>4, <2>1, FirstFailureIs
  <2>. QED  BY <1>2, <1>6, <2>2 DEF t, suite, kid
<1>7. CASE suite /\ kid
  <2>1. t[2] = "none" /\ t[3] = "none"
    BY <1>2, <1>7 DEF Check
  <2>2. t[1] = "none"
    BY <1>2
  <2>3. \A j \in 1..3 : t[j] = "none"
    BY <2>1, <2>2
  <2>4. FirstFailure(t) = "none"
    BY <1>1, <2>3, NoneFails
  <2>. QED  BY <1>2, <1>7, <2>1, <2>4 DEF t, suite, kid
<1>. QED  BY <1>5, <1>6, <1>7

(* The checks of the frames of a whole stream.                             *)
LEMMA FrameOutcome ==
  ASSUME NEW d, d.tail = "whole", d.body # <<>>
  PROVE  FirstFailure(AltFrameChecks(d)) = "none"
<1>. DEFINE t == AltFrameChecks(d)
<1>1. Len(t) = 3
  BY DEF AltFrameChecks
<1>2. t[1] = "none" /\ t[2] = "none" /\ t[3] = "none"
  BY DEF AltFrameChecks, Check
<1>. HIDE DEF t
<1>3. \A j \in 1..Len(t) : t[j] = "none"
  BY <1>1, <1>2
<1>. QED  BY <1>3, NoneFails DEF t

(* The frames of an original, and damaged bytes.                           *)
FramesOf(original) == {Bad} \union {original.body[i] : i \in 1..ChunkCount}

(* Under the key of the original each frame opens at its own place only.   *)
LEMMA PlacedOpens ==
  ASSUME Damaged, TypeOK, SentInv, NEW s \in Finished,
         NEW e, e = sent[s].env, Len(e.body) = ChunkCount,
         NEW d, d.hdr = e.hdr, Len(d.body) \in Nat, NEW j \in 1..Len(d.body),
         d.body[j] \in FramesOf(e)
  PROVE  AltChunkOpens(d, sent[s].to, j) <=> Placed(d, e, j)
<1>. DEFINE h == e.hdr
            r == sent[s].to
            K == StreamKey(h, r)
            n == Len(d.body)
            c == AltCtr(d, j)
            F(i) == Final(i - 1, ChunkCount)
<1>1. ASSUME NEW i \in 1..ChunkCount
      PROVE  /\ e.body[i].key = K /\ e.body[i] # Bad
             /\ e.body[i].nonce = <<h.nonce, <<i - 1, F(i)>>>>
             /\ e.body[i].aad = <<h, <<i - 1, F(i)>>>>
  <2>1. e.body[i] = SealedFrame(h, r, sent[s].pt, ChunkCount, i)
    BY DEF SentInv
  <2>2. PICK p : e.body[i] = AeadSeal(K, <<h.nonce, <<i - 1, F(i)>>>>,
                                      <<h, <<i - 1, F(i)>>>>, p)
    BY <2>1 DEF SealedFrame, SealChunkAt, ChunkNonce, ChunkAad, Ctr
  <2>3. e.body[i] # Bad
    BY <2>2 DEF Damaged
  <2>. QED  BY <2>2, <2>3 DEF AeadSeal
<1>2. AltStreamKey(d.hdr, r) = K
  BY DEF AltStreamKey, StreamKey, DeriveKey, PreAuth
<1>3. AltChunkOpens(d, r, j) <=> /\ d.body[j] # Bad /\ d.body[j].key = K
                                 /\ d.body[j].nonce = <<h.nonce, c>>
                                 /\ d.body[j].aad = <<h, c>>
  BY <1>2 DEF AltChunkOpens, AeadOpens
<1>4. c = <<j - 1, IF j = n THEN 1 ELSE 0>>
  BY DEF AltCtr
<1>5. \A i \in 1..ChunkCount : F(i) = IF i = ChunkCount THEN 1 ELSE 0
  BY DEF Final, ChunkCount
<1>. HIDE DEF h, r, K, n, c, F
<1>6. CASE d.body[j] = Bad
  <2>1. ~Placed(d, e, j)
    <3>1. ASSUME j <= ChunkCount PROVE e.body[j] # Bad
      <4>1. j \in 1..ChunkCount
        BY <3>1 DEF ChunkCount
      <4>. QED  BY <1>1, <4>1
    <3>. QED  BY <1>6, <3>1 DEF Placed
  <2>. QED  BY <1>3, <1>6, <2>1 DEF r
<1>7. CASE d.body[j] # Bad
  <2>1. PICK i \in 1..ChunkCount : d.body[j] = e.body[i]
    BY <1>7 DEF FramesOf
  <2>2. AltChunkOpens(d, r, j) <=> <<i - 1, F(i)>> = c
    BY <1>1, <1>3, <2>1
  <2>3. <<i - 1, F(i)>> = c <=> i = j /\ (j = n <=> j = ChunkCount)
    <3>1. i \in Nat /\ j \in Nat
      BY DEF ChunkCount
    <3>2. i - 1 = j - 1 <=> i = j
      BY <3>1
    <3>3. <<i - 1, F(i)>> = c <=> i - 1 = j - 1 /\ F(i) = (IF j = n THEN 1 ELSE 0)
      BY <1>4
    <3>4. F(i) = (IF j = n THEN 1 ELSE 0) <=> (j = n <=> i = ChunkCount)
      BY <1>5
    <3>. QED  BY <3>2, <3>3, <3>4
  <2>4. ASSUME j <= ChunkCount
        PROVE  d.body[j] = e.body[j] <=> i = j
    <3>1. j \in 1..ChunkCount
      BY <2>4 DEF ChunkCount
    <3>2. /\ e.body[i].nonce = <<h.nonce, <<i - 1, F(i)>>>>
          /\ e.body[j].nonce = <<h.nonce, <<j - 1, F(j)>>>>
      BY <1>1, <3>1
    <3>3. e.body[i] = e.body[j] => i - 1 = j - 1
      BY <3>2
    <3>4. i - 1 = j - 1 => i = j
      BY <3>1 DEF ChunkCount
    <3>. QED  BY <2>1, <3>3, <3>4
  <2>5. i = j => j <= ChunkCount
    BY DEF ChunkCount
  <2>6. Placed(d, e, j) <=> i = j /\ (j = n <=> j = ChunkCount)
    BY <2>4, <2>5 DEF Placed, n
  <2>. QED  BY <2>2, <2>3, <2>6 DEF r
<1>. QED  BY <1>6, <1>7

(* The edits of the generator: how long what they make is, and what stands *)
(* where they change it.                                                   *)
LEMMA EditLength ==
  ASSUME NEW S, NEW q \in Seq(S), NEW i \in 1..Len(q), NEW x \in S,
         NEW j \in 1..Len(q), i # j, NEW y \in S
  PROVE  /\ Front(q) \in Seq(S) /\ Len(Front(q)) = Len(q) - 1
         /\ Len(RemoveAt(q, i)) = Len(q) - 1
         /\ Len(InsertAt(q, i, x)) = Len(q) + 1
         /\ LET w == [q EXCEPT ![i] = x] IN Len(w) = Len(q) /\ w[i] = x
         /\ LET w == [q EXCEPT ![i] = x, ![j] = y] IN Len(w) = Len(q) /\ w[i] = x
<1>. DEFINE n == Len(q)
<1>1. n \in Nat /\ i \in Nat /\ 1 <= i /\ i <= n /\ \A k \in 1..n : q[k] \in S
  OBVIOUS
<1>2. q \in Seq(S)
  OBVIOUS
<1>. HIDE DEF n
<1>3. ASSUME NEW a \in Nat \ {0}, NEW b \in Nat, a <= b + 1, b <= n
      PROVE  SubSeq(q, a, b) \in Seq(S) /\ Len(SubSeq(q, a, b)) = b - a + 1
  <2>1. \A k \in a..b : q[k] \in S
    BY <1>1, <1>3
  <2>2. Len(SubSeq(q, a, b)) = IF a <= b THEN b - a + 1 ELSE 0
    BY <2>1, SubSeqProperties
  <2>3. SubSeq(q, a, b) \in Seq(S)
    BY <2>1, SubSeqProperties
  <2>. QED  BY <1>3, <2>2, <2>3
<1>4. /\ SubSeq(q, 1, i - 1) \in Seq(S) /\ Len(SubSeq(q, 1, i - 1)) = i - 1
      /\ SubSeq(q, i + 1, n) \in Seq(S) /\ Len(SubSeq(q, i + 1, n)) = n - i
      /\ SubSeq(q, i, n) \in Seq(S) /\ Len(SubSeq(q, i, n)) = n - i + 1
      /\ SubSeq(q, 1, n - 1) \in Seq(S) /\ Len(SubSeq(q, 1, n - 1)) = n - 1
  <2>1. i - 1 \in Nat /\ n - 1 \in Nat
    BY <1>1
  <2>2. SubSeq(q, 1, i - 1) \in Seq(S) /\ Len(SubSeq(q, 1, i - 1)) = i - 1 - 1 + 1
    BY <1>1, <1>3, <2>1
  <2>3. SubSeq(q, i + 1, n) \in Seq(S) /\ Len(SubSeq(q, i + 1, n)) = n - (i + 1) + 1
    BY <1>1, <1>3, <2>1
  <2>4. SubSeq(q, i, n) \in Seq(S) /\ Len(SubSeq(q, i, n)) = n - i + 1
    BY <1>1, <1>3, <2>1
  <2>5. SubSeq(q, 1, n - 1) \in Seq(S) /\ Len(SubSeq(q, 1, n - 1)) = n - 1 - 1 + 1
    BY <1>1, <1>3, <2>1
  <2>. QED  BY <1>1, <2>2, <2>3, <2>4, <2>5
<1>5. Front(q) \in Seq(S) /\ Len(Front(q)) = n - 1
  BY <1>4 DEF Front, n
<1>6. Len(RemoveAt(q, i)) = n - 1
  <2>1. RemoveAt(q, i) = SubSeq(q, 1, i - 1) \o SubSeq(q, i + 1, n)
    BY DEF RemoveAt, n
  <2>2. Len(SubSeq(q, 1, i - 1) \o SubSeq(q, i + 1, n)) = (i - 1) + (n - i)
    BY <1>4, ConcatProperties
  <2>. QED  BY <1>1, <2>1, <2>2
<1>7. Len(InsertAt(q, i, x)) = n + 1
  <2>. DEFINE u == SubSeq(q, 1, i - 1) \o <<x>>
  <2>1. InsertAt(q, i, x) = u \o SubSeq(q, i, n)
    BY DEF InsertAt, n
  <2>2. u \in Seq(S) /\ Len(u) = (i - 1) + 1
    <3>1. <<x>> \in Seq(S) /\ Len(<<x>>) = 1
      OBVIOUS
    <3>. QED  BY <1>4, <3>1, ConcatProperties
  <2>. HIDE DEF u
  <2>3. Len(u \o SubSeq(q, i, n)) = (i - 1) + 1 + (n - i + 1)
    BY <1>4, <2>2, ConcatProperties
  <2>. QED  BY <1>1, <2>1, <2>3
<1>. DEFINE u == [q EXCEPT ![i] = x]
<1>8. u \in Seq(S) /\ Len(u) = n /\ u[i] = x
  BY ExceptSeq DEF n
<1>9. LET w == [q EXCEPT ![i] = x, ![j] = y] IN Len(w) = n /\ w[i] = x
  <2>1. [q EXCEPT ![i] = x, ![j] = y] = [u EXCEPT ![j] = y]
    OBVIOUS
  <2>2. j \in 1..Len(u) /\ i \in 1..Len(u)
    BY <1>8 DEF n
  <2>. HIDE DEF u
  <2>3. LET w == [u EXCEPT ![j] = y] IN Len(w) = Len(u) /\ w[i] = u[i]
    BY <1>8, <2>2, ExceptSeq
  <2>. QED  BY <1>8, <2>1, <2>3
<1>. QED  BY <1>5, <1>6, <1>7, <1>8, <1>9 DEF n

(* What a vector is made of.                                               *)
LEMMA VectorParts ==
  ASSUME NEW s, NEW tag, NEW d, NEW who, NEW category
  PROVE  LET v == Vector(s, tag, d, who, category) IN
         /\ v.from = s /\ v.env = d /\ v.expected = category
         /\ v.bundle = [rcpt |-> who, role |-> "kem_priv"]
         /\ v.bundle.rcpt = who /\ v.bundle.role = "kem_priv"
BY DEF Vector

(* The original of a vector.                                               *)
LEMMA OriginalParts ==
  ASSUME TypeOK, SentInv, NEW s \in Streams, Original(s), NEW e, e = sent[s].env
  PROVE  LET h == e.hdr IN
         /\ s \in Finished /\ sent[s].to \in Recipients
         /\ e = [hdr |-> h, body |-> e.body, tail |-> "whole"]
         /\ h.magic = STREAM_MAGIC /\ h.version = VERSION
         /\ h.suite = SuiteOf[sent[s].to] /\ h.suite \in AltSuites /\ h.kid = sent[s].to
         /\ h.eph = s /\ h.ct = s
         /\ h = Header(s, sent[s].to, h.nonce, h.csize)
         /\ e.body \in Seq(FramesOf(e)) /\ Len(e.body) = ChunkCount
         /\ FramesOf(e) \subseteq Genuine
<1>1. s \in Finished /\ Len(e.body) = ChunkCount /\ SuiteOf[sent[s].to] \in AltSuites
  BY DEF Original
<1>2. /\ e = Stream(Header(s, sent[s].to, e.hdr.nonce, e.hdr.csize), e.body)
      /\ e.body \in Seq(SealedFrames(e.hdr, sent[s].to, sent[s].pt, ChunkCount))
  BY <1>1 DEF SentInv
<1>3. /\ e = [hdr |-> e.hdr, body |-> e.body, tail |-> "whole"]
      /\ e.hdr = Header(s, sent[s].to, e.hdr.nonce, e.hdr.csize)
  BY <1>2 DEF Stream
<1>4. e.hdr.eph = s
  BY <1>1, <1>3, SentFields DEF EphPublic, HasClassicalLeg, AltSuites
<1>5. e.body \in Seq(FramesOf(e))
  <2>1. e.body \in Seq({e.body[i] : i \in 1..Len(e.body)})
    BY <1>2, SeqOfRange, RangeEquality
  <2>2. {e.body[i] : i \in 1..Len(e.body)} \subseteq FramesOf(e)
    BY <1>1 DEF FramesOf
  <2>. QED  BY <2>1, <2>2, SeqMonotonic
<1>6. FramesOf(e) \subseteq Genuine
  <2>1. {e.body[i] : i \in 1..ChunkCount} \subseteq Genuine
    BY <1>1 DEF Genuine
  <2>. QED  BY <2>1 DEF FramesOf, Genuine
<1>. QED  BY <1>1, <1>3, <1>4, <1>5, <1>6, SentFields

(* A rearrangement of the frames of an original.                           *)
LEMMA BodyVector ==
  ASSUME Damaged, TypeOK, SentInv, NEW s \in Streams, Original(s),
         NEW e, e = sent[s].env, NEW w \in Seq(FramesOf(e)), w # <<>>,
         NEW d, d = [e EXCEPT !.body = w], NEW tag, NEW category \in {"opens", "aead"},
         category = "opens" <=> \A j \in 1..Len(w) : Placed(d, e, j)
  PROVE  Proper(Vector(s, tag, d, sent[s].to, category), e) /\ StoredBytes(d)
<1>. DEFINE h == e.hdr
            v == Vector(s, tag, d, sent[s].to, category)
<1>1. /\ s \in Finished /\ sent[s].to \in Recipients
      /\ e = [hdr |-> h, body |-> e.body, tail |-> "whole"]
      /\ h.magic = STREAM_MAGIC /\ h.version = VERSION
      /\ h.suite = SuiteOf[sent[s].to] /\ h.suite \in AltSuites /\ h.kid = sent[s].to
      /\ h.eph = s /\ h.ct = s
      /\ Len(e.body) = ChunkCount /\ FramesOf(e) \subseteq Genuine
  BY OriginalParts
<1>2. d = [hdr |-> h, body |-> w, tail |-> "whole"]
  BY <1>1
<1>3. d.hdr = h /\ d.body = w /\ d.tail = "whole"
  BY <1>2
<1>4. StoredBytes(d)
  <2>1. w \in Seq(Genuine)
    BY <1>1, SeqMonotonic
  <2>. QED  BY <1>2, <1>3, <2>1 DEF StoredBytes, Tails
<1>5. /\ v.env = d /\ v.expected = category
      /\ v.bundle.rcpt = sent[s].to /\ v.bundle.role = "kem_priv"
  BY DEF Vector
<1>. HIDE DEF v
<1>6. d.hdr.suite # 3
  BY <1>1, <1>3 DEF AltSuites
<1>7. FirstFailure(AltHeaderChecks(d)) = "none"
  <2>1. FirstFailure(AltHeaderChecks(d)) = Check("truncated header", d.tail # "header")
    BY <1>1, <1>3, HeaderOutcome
  <2>. QED  BY <1>3, <2>1 DEF Check
<1>8. FirstFailure(AltKeyChecks(d, v.bundle)) = "none"
  <2>1. FirstFailure(AltKeyChecks(d, v.bundle))
          = IF SuiteOf[v.bundle.rcpt] = d.hdr.suite
            THEN Check("key-id mismatch", v.bundle.rcpt = d.hdr.kid)
            ELSE "suite mismatch"
    BY <1>5, KeyOutcome
  <2>. QED  BY <1>1, <1>3, <1>5, <2>1 DEF Check
<1>9. FirstFailure(AltFrameChecks(d)) = "none"
  BY <1>3, FrameOutcome
<1>10. Bad \notin {d.hdr.eph, d.hdr.ct}
  BY <1>1, <1>3 DEF Damaged
<1>11. ASSUME NEW j \in 1..Len(d.body)
       PROVE  AltChunkOpens(d, v.bundle.rcpt, j) <=> Placed(d, e, j)
  <2>1. d.body[j] \in FramesOf(e) /\ Len(d.body) \in Nat
    BY <1>3
  <2>. QED  BY <1>1, <1>3, <1>5, <2>1, PlacedOpens
<1>. HIDE DEF h
<1>12. category # "truncation" /\ category # "suite_mismatch" /\ category # "wrong_recipient"
  OBVIOUS
<1>13. Proper(v, e)
  BY <1>3, <1>5, <1>6, <1>7, <1>8, <1>9, <1>10, <1>11, <1>12 DEF Proper
<1>. QED  BY <1>4, <1>13 DEF v

(* A vector that changes the header, its length or the bundle.             *)
LEMMA StageVector ==
  ASSUME TypeOK, SentInv, NEW s \in Streams, Original(s), NEW e, e = sent[s].env,
         NEW v \in StreamVectors(s), v.expected \notin {"opens", "aead"}
  PROVE  Proper(v, e) /\ StoredBytes(v.env) /\ v.from = s /\ v.bundle \in Bundles
<1>. DEFINE h == e.hdr
            own == sent[s].to
            V(tag, d, category) == Vector(s, tag, d, own, category)
<1>1. /\ own \in Recipients
      /\ e = [hdr |-> h, body |-> e.body, tail |-> "whole"]
      /\ h.magic = STREAM_MAGIC /\ h.version = VERSION
      /\ h.suite = SuiteOf[own] /\ h.suite \in AltSuites /\ h.kid = own
      /\ e.body \in Seq(FramesOf(e)) /\ FramesOf(e) \subseteq Genuine
  BY OriginalParts
<1>2. h = Header(s, own, h.nonce, h.csize)
  BY OriginalParts
<1>3. e.body \in Seq(Genuine)
  BY <1>1, SeqMonotonic
<1>4. \/ v = V("stream_suite_mutated", [e EXCEPT !.hdr = [h EXCEPT !.suite = 3 - h.suite]],
               "suite_mismatch")
      \/ v = V("stream_header_truncated", [e EXCEPT !.body = <<>>, !.tail = "header"],
               "truncation")
      \/ \E r \in Recipients : r # own /\ SuiteOf[r] = h.suite
           /\ v = Vector(s, "stream_wrong_recipient", e, r, "wrong_recipient")
  <2>1. \A tag, d, category : Vector(s, tag, d, own, category).expected = category
    BY DEF Vector
  <2>. QED  BY <2>1 DEF StreamVectors
<1>. HIDE DEF h, own
<1>5. ASSUME NEW d, NEW r \in Recipients, NEW tag,
             NEW category \in {"suite_mismatch", "truncation", "wrong_recipient"},
             v = Vector(s, tag, d, r, category)
      PROVE  /\ v.from = s /\ v.env = d /\ v.expected = category
             /\ v.bundle.rcpt = r /\ v.bundle.role = "kem_priv" /\ v.bundle \in Bundles
  BY <1>5 DEF Vector, Bundles
<1>6. CASE v = V("stream_suite_mutated",
                 [e EXCEPT !.hdr = [h EXCEPT !.suite = 3 - h.suite]], "suite_mismatch")
  <2>. DEFINE k == [h EXCEPT !.suite = 3 - h.suite]
              d == [e EXCEPT !.hdr = k]
  <2>1. /\ d = [hdr |-> k, body |-> e.body, tail |-> "whole"]
        /\ d.hdr = k /\ d.body = e.body /\ d.tail = "whole"
    <3>. HIDE DEF k
    <3>. QED  BY <1>1
  <2>2. k.magic = h.magic /\ k.version = h.version /\ k.suite = 3 - h.suite
    <3>1. DOMAIN h = {"magic", "version", "suite", "flags", "kid", "eph", "ct", "nonce",
                      "csize"}
      BY <1>2 DEF Header
    <3>. QED  BY <3>1
  <2>3. 3 - h.suite \in AltSuites /\ 3 - h.suite # h.suite /\ 3 - h.suite # 3
    BY <1>1 DEF AltSuites
  <2>. HIDE DEF k, d
  <2>4. StoredBytes(d)
    BY <1>3, <2>1 DEF StoredBytes, Tails
  <2>5. /\ v.from = s /\ v.env = d /\ v.expected = "suite_mismatch"
        /\ v.bundle.rcpt = own /\ v.bundle.role = "kem_priv" /\ v.bundle \in Bundles
    BY <1>1, <1>5, <1>6 DEF d, k
  <2>6. FirstFailure(AltHeaderChecks(d)) = Check("truncated header", d.tail # "header")
    BY <1>1, <2>1, <2>2, <2>3, HeaderOutcome
  <2>7. FirstFailure(AltHeaderChecks(d)) = "none"
    BY <2>1, <2>6 DEF Check
  <2>8. FirstFailure(AltKeyChecks(d, v.bundle))
          = IF SuiteOf[v.bundle.rcpt] = d.hdr.suite
            THEN Check("key-id mismatch", v.bundle.rcpt = d.hdr.kid)
            ELSE "suite mismatch"
    BY <2>5, KeyOutcome
  <2>9. FirstFailure(AltKeyChecks(d, v.bundle)) = "suite mismatch"
    BY <1>1, <2>1, <2>2, <2>3, <2>5, <2>8
  <2>10. d.hdr.suite # 3
    BY <2>1, <2>2, <2>3
  <2>. QED  BY <2>4, <2>5, <2>7, <2>9, <2>10 DEF Proper
<1>7. CASE v = V("stream_header_truncated", [e EXCEPT !.body = <<>>, !.tail = "header"],
                 "truncation")
  <2>. DEFINE d == [e EXCEPT !.body = <<>>, !.tail = "header"]
  <2>1. /\ d = [hdr |-> h, body |-> <<>>, tail |-> "header"]
        /\ d.hdr = h /\ d.body = <<>> /\ d.tail = "header"
    <3>1. PICK b : e = [hdr |-> h, body |-> b, tail |-> "whole"]
      BY <1>1
    <3>2. [e EXCEPT !.body = <<>>] = [hdr |-> h, body |-> <<>>, tail |-> "whole"]
      BY <3>1
    <3>3. d = [[e EXCEPT !.body = <<>>] EXCEPT !.tail = "header"]
      OBVIOUS
    <3>. HIDE DEF d
    <3>. QED  BY <3>2, <3>3
  <2>. HIDE DEF d
  <2>2. StoredBytes(d)
    <3>1. <<>> \in Seq(Genuine)
      OBVIOUS
    <3>. QED  BY <2>1, <3>1 DEF StoredBytes, Tails
  <2>3. /\ v.from = s /\ v.env = d /\ v.expected = "truncation" /\ v.bundle \in Bundles
    BY <1>1, <1>5, <1>7 DEF d
  <2>4. FirstFailure(AltHeaderChecks(d)) = Check("truncated header", d.tail # "header")
    BY <1>1, <2>1, HeaderOutcome
  <2>5. FirstFailure(AltHeaderChecks(d)) = "truncated header"
    BY <2>1, <2>4 DEF Check
  <2>6. d.hdr.suite # 3
    BY <1>1, <2>1 DEF AltSuites
  <2>. QED  BY <2>2, <2>3, <2>5, <2>6 DEF Proper
<1>8. ASSUME NEW r \in Recipients, r # own, SuiteOf[r] = h.suite,
             v = Vector(s, "stream_wrong_recipient", e, r, "wrong_recipient")
      PROVE  Proper(v, e) /\ StoredBytes(v.env) /\ v.from = s /\ v.bundle \in Bundles
  <2>1. /\ v.from = s /\ v.env = e /\ v.expected = "wrong_recipient"
        /\ v.bundle.rcpt = r /\ v.bundle.role = "kem_priv" /\ v.bundle \in Bundles
    BY <1>5, <1>8
  <2>2. e.hdr = h /\ e.tail = "whole"
    BY <1>1
  <2>3. StoredBytes(e)
    BY <1>1, <1>3, <2>2 DEF StoredBytes, Tails
  <2>4. FirstFailure(AltHeaderChecks(e)) = Check("truncated header", e.tail # "header")
    BY <1>1, <2>2, HeaderOutcome
  <2>5. FirstFailure(AltHeaderChecks(e)) = "none"
    BY <2>2, <2>4 DEF Check
  <2>6. FirstFailure(AltKeyChecks(e, v.bundle))
          = IF SuiteOf[v.bundle.rcpt] = e.hdr.suite
            THEN Check("key-id mismatch", v.bundle.rcpt = e.hdr.kid)
            ELSE "suite mismatch"
    BY <2>1, KeyOutcome
  <2>7. FirstFailure(AltKeyChecks(e, v.bundle)) = "key-id mismatch"
    BY <1>1, <1>8, <2>1, <2>2, <2>6 DEF Check
  <2>8. e.hdr.suite # 3
    BY <1>1, <2>2 DEF AltSuites
  <2>. QED  BY <2>1, <2>3, <2>5, <2>7, <2>8 DEF Proper
<1>. QED  BY <1>4, <1>6, <1>7, <1>8

(* A vector that is the original, or has lost, repeated, exchanged or      *)
(* damaged a frame of it.                                                  *)
LEMMA FrameVector ==
  ASSUME Damaged, TypeOK, SentInv, NEW s \in Streams, Original(s),
         NEW e, e = sent[s].env, NEW v \in StreamVectors(s), v.expected \in {"opens", "aead"}
  PROVE  Proper(v, e) /\ StoredBytes(v.env) /\ v.from = s /\ v.bundle \in Bundles
<1>. DEFINE q == e.body
            own == sent[s].to
            B(tag, w) == Vector(s, tag, [e EXCEPT !.body = w], own, "aead")
            swapped == [q EXCEPT ![2] = q[ChunkCount - 1], ![ChunkCount - 1] = q[2]]
<1>1. /\ own \in Recipients /\ q \in Seq(FramesOf(e)) /\ Len(q) = ChunkCount
      /\ s \in Finished
      /\ e = [hdr |-> e.hdr, body |-> q, tail |-> "whole"]
  BY OriginalParts
<1>2. \/ v = Vector(s, "stream", e, own, "opens")
      \/ v = B("stream_chunk_bitflip", [q EXCEPT ![Middle] = Bad])
      \/ v = B("stream_final_dropped", Front(q))
      \/ v = B("stream_chunk_reordered", swapped)
      \/ v = B("stream_middle_dropped", RemoveAt(q, Middle))
      \/ v = B("stream_chunk_duplicated", InsertAt(q, Middle, q[Middle]))
  <2>1. \A tag, d, r, category : Vector(s, tag, d, r, category).expected = category
    BY DEF Vector
  <2>. QED  BY <2>1 DEF StreamVectors
<1>3. /\ Middle \in 1..Len(q) /\ 2 \in 1..Len(q) /\ ChunkCount - 1 \in 1..Len(q)
      /\ 2 # ChunkCount - 1 /\ ChunkCount \in Nat /\ ChunkCount > 2
      /\ ChunkCount \in 1..ChunkCount
  BY <1>1 DEF Middle, ChunkCount
<1>. HIDE DEF q, own, swapped
<1>4. Bad \in FramesOf(e) /\ q[2] \in FramesOf(e) /\ q[Middle] \in FramesOf(e)
      /\ q[ChunkCount - 1] \in FramesOf(e)
  BY <1>1, <1>3 DEF FramesOf
<1>5. /\ Front(q) \in Seq(FramesOf(e)) /\ Len(Front(q)) = ChunkCount - 1
      /\ Len(RemoveAt(q, Middle)) = ChunkCount - 1
      /\ Len(InsertAt(q, Middle, q[Middle])) = ChunkCount + 1
      /\ Len([q EXCEPT ![Middle] = Bad]) = ChunkCount
      /\ [q EXCEPT ![Middle] = Bad][Middle] = Bad
  <2>1. PICK j \in 1..Len(q) : Middle # j
    BY <1>3 DEF Middle, ChunkCount
  <2>2. /\ Front(q) \in Seq(FramesOf(e)) /\ Len(Front(q)) = Len(q) - 1
        /\ Len(RemoveAt(q, Middle)) = Len(q) - 1
        /\ Len(InsertAt(q, Middle, q[Middle])) = Len(q) + 1
    BY <1>1, <1>3, <1>4, <2>1, EditLength
  <2>3. /\ Len([q EXCEPT ![Middle] = Bad]) = Len(q)
        /\ [q EXCEPT ![Middle] = Bad][Middle] = Bad
    BY <1>1, <1>3, <1>4, <2>1, EditLength
  <2>. QED  BY <1>1, <2>2, <2>3
<1>6. Len(swapped) = ChunkCount /\ swapped[2] = q[ChunkCount - 1]
  BY <1>1, <1>3, <1>4, EditLength DEF swapped
<1>7. /\ [q EXCEPT ![Middle] = Bad] \in Seq(FramesOf(e))
      /\ swapped \in Seq(FramesOf(e))
      /\ RemoveAt(q, Middle) \in Seq(FramesOf(e))
      /\ InsertAt(q, Middle, q[Middle]) \in Seq(FramesOf(e))
  <2>1. /\ [q EXCEPT ![Middle] = Bad] \in Seq(FramesOf(e))
        /\ RemoveAt(q, Middle) \in Seq(FramesOf(e))
    BY <1>1, <1>3, <1>4, EditType
  <2>2. InsertAt(q, Middle, q[Middle]) \in Seq(FramesOf(e))
    BY <1>1, <1>3, <1>4, EditType
  <2>3. swapped \in Seq(FramesOf(e))
    BY <1>1, <1>3, <1>4, EditType DEF swapped
  <2>. QED  BY <2>1, <2>2, <2>3
<1>8. \A i \in 1..ChunkCount : /\ q[i] # Bad
                               /\ q[i].nonce = <<e.hdr.nonce, <<i - 1, Final(i - 1, ChunkCount)>>>>
  <2>. SUFFICES ASSUME NEW i \in 1..ChunkCount
                PROVE  /\ q[i] # Bad
                       /\ q[i].nonce = <<e.hdr.nonce, <<i - 1, Final(i - 1, ChunkCount)>>>>
    OBVIOUS
  <2>1. q[i] = SealedFrame(e.hdr, own, sent[s].pt, ChunkCount, i)
    BY <1>1 DEF SentInv, q, own
  <2>2. PICK k, a, p : q[i] = AeadSeal(k, <<e.hdr.nonce, <<i - 1, Final(i - 1, ChunkCount)>>>>,
                                       a, p)
    BY <2>1 DEF SealedFrame, SealChunkAt, ChunkNonce, Ctr
  <2>. QED  BY <2>2 DEF AeadSeal, Damaged
<1>9. ASSUME NEW w \in Seq(FramesOf(e)), NEW j \in 1..Len(w),
             ~Placed([e EXCEPT !.body = w], e, j), NEW tag, v = B(tag, w)
      PROVE  Proper(v, e) /\ StoredBytes(v.env) /\ v.from = s /\ v.bundle \in Bundles
  <2>1. w # <<>>
    OBVIOUS
  <2>2. Proper(v, e) /\ StoredBytes([e EXCEPT !.body = w])
    BY <1>9, <2>1, BodyVector DEF own
  <2>3. v.env = [e EXCEPT !.body = w] /\ v.from = s /\ v.bundle \in Bundles
    BY <1>1, <1>9 DEF Vector, Bundles
  <2>. QED  BY <2>2, <2>3
<1>10. \A w : [e EXCEPT !.body = w].body = w
  BY <1>1
<1>11. CASE v = Vector(s, "stream", e, own, "opens")
  <2>1. [e EXCEPT !.body = q] = e /\ q # <<>>
    BY <1>1, <1>3
  <2>2. \A j \in 1..Len(q) : Placed(e, e, j)
    BY <1>1 DEF Placed, q, ChunkCount
  <2>. DEFINE d == [e EXCEPT !.body = q]
              x == Vector(s, "stream", d, own, "opens")
  <2>. HIDE DEF d
  <2>3. Proper(x, e) /\ StoredBytes(d)
    <3>1. d = [e EXCEPT !.body = q] /\ \A j \in 1..Len(q) : Placed(d, e, j)
      BY <2>1, <2>2 DEF d
    <3>. QED  BY <1>1, <2>1, <3>1, BodyVector DEF own
  <2>5. d = e
    BY <2>1 DEF d
  <2>4. v.env = e /\ v.from = s /\ v.bundle \in Bundles
    BY <1>1, <1>11 DEF Vector, Bundles
  <2>. QED  BY <1>11, <2>3, <2>4, <2>5
<1>12. CASE v = B("stream_chunk_bitflip", [q EXCEPT ![Middle] = Bad])
  <2>1. ~Placed([e EXCEPT !.body = [q EXCEPT ![Middle] = Bad]], e, Middle)
    BY <1>1, <1>3, <1>5, <1>8, <1>10 DEF Placed, q
  <2>. QED  BY <1>1, <1>3, <1>5, <1>7, <1>9, <1>12, <2>1
<1>13. CASE v = B("stream_final_dropped", Front(q))
  <2>1. ~Placed([e EXCEPT !.body = Front(q)], e, ChunkCount - 1)
    BY <1>3, <1>5, <1>10 DEF Placed
  <2>2. ChunkCount - 1 \in 1..Len(Front(q))
    BY <1>3, <1>5
  <2>. QED  BY <1>5, <1>9, <1>13, <2>1, <2>2
<1>14. CASE v = B("stream_chunk_reordered", swapped)
  <2>1. q[2].nonce # q[ChunkCount - 1].nonce
    <3>1. 2 - 1 # (ChunkCount - 1) - 1
      BY DEF ChunkCount
    <3>2. /\ q[2].nonce = <<e.hdr.nonce, <<2 - 1, Final(2 - 1, ChunkCount)>>>>
          /\ q[ChunkCount - 1].nonce
               = <<e.hdr.nonce, <<(ChunkCount - 1) - 1,
                                  Final((ChunkCount - 1) - 1, ChunkCount)>>>>
      BY <1>1, <1>3, <1>8
    <3>. QED  BY <3>1, <3>2
  <2>2. ~Placed([e EXCEPT !.body = swapped], e, 2)
    BY <1>6, <1>10, <2>1 DEF Placed, q
  <2>. QED  BY <1>1, <1>3, <1>6, <1>7, <1>9, <1>14, <2>2
<1>15. CASE v = B("stream_middle_dropped", RemoveAt(q, Middle))
  <2>1. ~Placed([e EXCEPT !.body = RemoveAt(q, Middle)], e, ChunkCount - 1)
    BY <1>3, <1>5, <1>10 DEF Placed
  <2>2. ChunkCount - 1 \in 1..Len(RemoveAt(q, Middle))
    BY <1>3, <1>5
  <2>. QED  BY <1>7, <1>9, <1>15, <2>1, <2>2
<1>16. CASE v = B("stream_chunk_duplicated", InsertAt(q, Middle, q[Middle]))
  <2>1. ~Placed([e EXCEPT !.body = InsertAt(q, Middle, q[Middle])], e, ChunkCount + 1)
    BY <1>3, <1>5, <1>10 DEF Placed
  <2>2. ChunkCount + 1 \in 1..(ChunkCount + 1)
    BY <1>3
  <2>. QED  BY <1>5, <1>7, <1>9, <1>16, <2>1, <2>2
<1>. QED  BY <1>2, <1>11, <1>12, <1>13, <1>14, <1>15, <1>16

(* What a replay puts before the readers.                                  *)
LEMMA VectorProper ==
  ASSUME Damaged, TypeOK, SentInv, NEW s \in Streams, Original(s), NEW v \in StreamVectors(s)
  PROVE  /\ Proper(v, sent[s].env) /\ StoredBytes(v.env) /\ v.from = s
         /\ v.bundle \in Bundles
BY FrameVector, StageVector

(* A replay begins with genuine or damaged frames, and its vector.         *)
LEMMA ReplayPstvInv ==
  ASSUME Damaged, PstvInv, Replay
  PROVE  PstvInv'
<1>1. /\ TypeOK /\ IInv /\ ReaderVerdict
      /\ alt # None => opc \in {"done", "failed"}
  BY DEF PstvInv, StreamReadersInv, AltVerdictInv
<1>0. PICK s \in Streams :
        Original(s) /\ \E v \in StreamVectors(s) :
                         vec' = v /\ env' = v.env /\ bundle' = v.bundle
  BY DEF Replay
<1>2. PICK v \in StreamVectors(s) : vec' = v /\ env' = v.env /\ bundle' = v.bundle
  BY <1>0
<1>3. /\ opc = "idle" /\ opc' = "parse"
      /\ UNCHANGED <<sealVars, sent, storeVars, key, idx, out, oerr, used, alt>>
  BY DEF Replay
<1>4. SentInv
  BY <1>1 DEF IInv
<1>5. /\ Proper(v, sent[s].env) /\ StoredBytes(v.env) /\ v.from = s
      /\ v.bundle \in Bundles
  BY <1>0, <1>1, <1>2, <1>4, VectorProper
<1>6. Genuine' = Genuine /\ Finished' = Finished /\ Stored' = Stored
  BY <1>3 DEF Genuine, Finished, Stored, storeVars
<1>7. TypeOK'
  BY <1>1, <1>2, <1>3, <1>5, <1>6 DEF TypeOK, sealVars, storeVars
<1>8. OpenTypeInv'
  <2>1. StoredBytes(env)'
    BY <1>2, <1>5, <1>6 DEF StoredBytes
  <2>. QED  BY <1>2, <1>3, <1>5, <2>1 DEF OpenTypeInv
<1>9. OpeningInv'
  BY <1>3 DEF OpeningInv
<1>10. IInv'
  <2>1. UNCHANGED <<sealVars, sent, wire>>
    BY <1>3 DEF storeVars
  <2>. QED  BY <1>1, <1>8, <1>9, <2>1, SealUntouched, SentUntouched, WireUntouched DEF IInv
<1>11. AltVerdictInv'
  <2>1. alt' = None /\ oerr' = None
    BY <1>1, <1>3 DEF ReaderVerdict
  <2>2. PassedStages'
    BY <1>3 DEF PassedStages
  <2>. QED  BY <1>3, <2>1, <2>2 DEF AltVerdictInv, ReaderVerdict
<1>12. ReplayedInv'
  <2>1. s \in Finished' /\ sent'[s].env = sent[s].env
    BY <1>0, <1>3, <1>6 DEF Original
  <2>. QED  BY <1>2, <1>3, <1>5, <2>1 DEF ReplayedInv
<1>. QED  BY <1>7, <1>10, <1>11, <1>12 DEF PstvInv, StreamReadersInv

(* What is returned stays, whatever the writer and storage do.             *)
LEMMA OthersKeepSent ==
  ASSUME TypeOK, CuttingInv, SealCall \/ SealStep \/ StorageFault
  PROVE  Finished \subseteq Finished' /\ \A s \in Finished : sent'[s] = sent[s]
<1>1. CASE SealCall \/ SealSplit \/ SealCount
  <2>1. sent' = sent
    BY <1>1 DEF SealCall, SealSplit, SealCount, SealFail
  <2>. QED  BY <2>1 DEF Finished
<1>2. CASE SealEmit
  BY <1>2, SealEmitGrows
<1>3. CASE StorageFault
  <2>1. PICK s, h, w, tail : Fault(s, h, w, tail)
    BY Zenon, <1>3 DEF StorageFault, LoseFrame, RepeatFrame, SwapFrames,
       CrossFrame, DamageFrame, Cut, Reframe, DamageHeader, CrossHeader,
       FrameFault, HeaderFault
  <2>. QED  BY <2>1 DEF Fault, Finished
<1>. QED  BY <1>1, <1>2, <1>3 DEF SealStep

(* Every step keeps the invariant of the replay.                           *)
LEMMA StepPstvInv == Damaged /\ PstvInv /\ [PstvNext]_pstvVars => PstvInv'
<1>. SUFFICES ASSUME Damaged, PstvInv, [PstvNext]_pstvVars PROVE PstvInv'
  OBVIOUS
<1>1. CASE Replay
  BY <1>1, ReplayPstvInv
<1>2. ASSUME [AltNext]_altVars, vec' = vec,
             Finished \subseteq Finished', \A s \in Finished : sent'[s] = sent[s],
             vec # None => opc' # "idle" /\ env' = env /\ bundle' = bundle
      PROVE  PstvInv'
  <2>1. StreamReadersInv'
    BY <1>2, StepReaders DEF PstvInv
  <2>2. ReplayedInv'
    BY <1>2 DEF PstvInv, ReplayedInv
  <2>. QED  BY <2>1, <2>2 DEF PstvInv
<1>3. CASE (SealCall \/ SealStep \/ StorageFault) /\ UNCHANGED <<alt, vec>>
  <2>1. UNCHANGED <<opc, env, bundle>>
    BY <1>3, OthersLeaveReader DEF openVars
  <2>2. Finished \subseteq Finished' /\ \A s \in Finished : sent'[s] = sent[s]
    BY <1>3, OthersKeepSent DEF PstvInv, StreamReadersInv, IInv
  <2>3. AltNext
    BY <1>3 DEF AltNext
  <2>. QED  BY <1>2, <1>3, <2>1, <2>2, <2>3 DEF PstvInv, ReplayedInv
<1>4. CASE OpenCall /\ UNCHANGED <<alt, vec>>
  <2>1. opc = "idle" /\ sent' = sent
    BY <1>4 DEF OpenCall
  <2>2. vec = None
    BY <2>1 DEF PstvInv, ReplayedInv
  <2>3. AltNext
    BY <1>4 DEF AltNext
  <2>. QED  BY <1>2, <1>4, <2>1, <2>2, <2>3 DEF Finished
<1>5. CASE OpenStep /\ UNCHANGED <<alt, vec>>
  <2>1. UNCHANGED <<sent, env, bundle>> /\ opc' # "idle"
    BY <1>5 DEF OpenStep, OpenParse, OpenKey, OpenSecret, OpenFrames, OpenChunk,
                BadChunk, Reject
  <2>2. AltNext
    BY <1>5 DEF AltNext
  <2>. QED  BY <1>2, <1>5, <2>1, <2>2 DEF Finished
<1>6. CASE AltOpenStream /\ UNCHANGED vec
  <2>1. UNCHANGED <<sent, opc, env, bundle>>
    BY <1>6 DEF AltOpenStream, vars, openVars
  <2>2. AltNext
    BY <1>6 DEF AltNext
  <2>. QED  BY <1>2, <1>6, <2>1, <2>2 DEF Finished, PstvInv, ReplayedInv
<1>7. CASE BothReturn /\ vec' = None
  <2>1. AltNext
    BY <1>7 DEF AltNext
  <2>2. StreamReadersInv'
    BY <2>1, StepReaders DEF PstvInv
  <2>. QED  BY <1>7, <2>2 DEF PstvInv, ReplayedInv
<1>8. CASE UNCHANGED pstvVars
  <2>1. UNCHANGED altVars /\ vec' = vec
    BY <1>8 DEF pstvVars
  <2>2. UNCHANGED <<sent, opc, env, bundle>>
    BY <2>1 DEF altVars, vars, openVars
  <2>. QED  BY <1>2, <2>1, <2>2 DEF Finished, PstvInv, ReplayedInv
<1>. QED  BY <1>1, <1>3, <1>4, <1>5, <1>6, <1>7, <1>8 DEF PstvNext

(* Throughout a replay of the corpus of streams (gen_pstv_vectors.py:      *)
(* 509-604): the vector is what both readers are given, it ends in its     *)
(* category, and all that holds of both readers holds of them on it.       *)
THEOREM PstvInvariance == Damaged => (PstvSpec => []PstvInv)
<1>. SUFFICES ASSUME Damaged PROVE PstvSpec => []PstvInv
  OBVIOUS
<1>1. AltInit /\ vec = None => PstvInv
  <2>. SUFFICES ASSUME AltInit, vec = None PROVE PstvInv
    OBVIOUS
  <2>1. TypeOK /\ IInv
    BY InitIInv DEF AltInit
  <2>2. AltVerdictInv
    BY DEF AltInit, Init, AltVerdictInv, ReaderVerdict, PassedStages
  <2>. QED  BY <2>1, <2>2 DEF PstvInv, StreamReadersInv, ReplayedInv
<1>2. PstvInv /\ [PstvNext]_pstvVars => PstvInv'
  BY StepPstvInv
<1>. QED  BY <1>1, <1>2, PTL DEF PstvSpec

(* How a call on a vector ends: delivered, or refused by its category, and *)
(* then at the first chunk that is out of its place.                       *)
LEMMA EndedVector ==
  ASSUME PstvInv, vec # None, opc \in {"done", "failed"}
  PROVE  /\ vec.expected = "opens" => opc = "done"
         /\ vec.expected = "suite_mismatch" => opc = "failed" /\ oerr = "suite mismatch"
         /\ vec.expected = "wrong_recipient" => opc = "failed" /\ oerr = "key-id mismatch"
         /\ vec.expected = "truncation" => opc = "failed" /\ oerr = "truncated header"
         /\ vec.expected = "aead" => opc = "failed" /\ FailedAtChunk
<1>. DEFINE original == sent[vec.from].env
            H == FirstFailure(HeaderChecks)
            K == FirstFailure(KeyChecks)
            F == FirstFailure(FrameChecks)
<1>1. /\ env = vec.env /\ bundle = vec.bundle /\ Proper(vec, original)
      /\ ReaderVerdict /\ OpeningInv
  BY DEF PstvInv, ReplayedInv, StreamReadersInv, AltVerdictInv, IInv
<1>2. /\ env.hdr.suite # 3
      /\ FirstFailure(AltHeaderChecks(env))
           = IF vec.expected = "truncation" THEN "truncated header" ELSE "none"
      /\ vec.expected = "suite_mismatch" =>
           FirstFailure(AltKeyChecks(env, bundle)) = "suite mismatch"
      /\ vec.expected = "wrong_recipient" =>
           FirstFailure(AltKeyChecks(env, bundle)) = "key-id mismatch"
      /\ vec.expected \in {"opens", "aead"} =>
           /\ FirstFailure(AltKeyChecks(env, bundle)) = "none"
           /\ FirstFailure(AltFrameChecks(env)) = "none"
           /\ Bad \notin {env.hdr.eph, env.hdr.ct}
           /\ \A j \in 1..Len(env.body) :
                AltChunkOpens(env, bundle.rcpt, j) <=> Placed(env, original, j)
           /\ vec.expected = "opens"
                <=> \A j \in 1..Len(env.body) : Placed(env, original, j)
  BY <1>1 DEF Proper
<1>3. /\ FirstFailure(AltHeaderChecks(env)) = H
      /\ FirstFailure(AltKeyChecks(env, bundle)) = K
      /\ FirstFailure(AltFrameChecks(env)) = F
  BY <1>2, SameStreamTables
<1>4. opc = "done" => /\ H = "none" /\ K = "none"
                      /\ \A j \in 1..Len(env.body) : AltChunkOpens(env, bundle.rcpt, j)
  BY <1>1 DEF ReaderVerdict, PassedStages, OpenedChunks, OpeningInv
<1>5. opc = "failed" =>
        \/ H # "none" /\ oerr = H
        \/ H = "none" /\ K # "none" /\ oerr = K
        \/ H = "none" /\ K = "none" /\ Bad \in {env.hdr.eph, env.hdr.ct}
        \/ H = "none" /\ K = "none" /\ F # "none"
        \/ H = "none" /\ K = "none" /\ FailedAtChunk
  BY <1>1 DEF ReaderVerdict, FailedSomewhere, FailedAtHeader, FailedAtKey,
              FailedAtSecret, FailedAtFrames, FailedAtChunk
<1>6. FailedAtChunk => \E j \in 1..Len(env.body) : ~AltChunkOpens(env, bundle.rcpt, j)
  BY DEF FailedAtChunk
<1>. HIDE DEF original, H, K, F
<1>7. vec.expected = "truncation" => opc = "failed" /\ oerr = "truncated header"
  BY <1>2, <1>3, <1>4, <1>5
<1>8. vec.expected = "suite_mismatch" => opc = "failed" /\ oerr = "suite mismatch"
  BY <1>2, <1>3, <1>4, <1>5
<1>9. vec.expected = "wrong_recipient" => opc = "failed" /\ oerr = "key-id mismatch"
  BY <1>2, <1>3, <1>4, <1>5
<1>10. vec.expected = "opens" => opc = "done"
  BY <1>2, <1>3, <1>5, <1>6
<1>11. vec.expected = "aead" => opc = "failed" /\ FailedAtChunk
  BY <1>2, <1>3, <1>4, <1>5
<1>. QED  BY <1>7, <1>8, <1>9, <1>10, <1>11

(* Both decoders end every stream of the corpus in its category; no loss,  *)
(* exchange or repetition of chunks is mistaken for a framing error        *)
(* (gen_pstv_vectors.py:512-604, test_pstv.py:284-335).                    *)
THEOREM StreamCorpusVerdicts == Damaged => (PstvSpec => []ExpectedStreamCategory)
<1>1. PstvInv => ExpectedStreamCategory
  <2>. SUFFICES ASSUME PstvInv, alt # None, vec # None
                PROVE  IF vec.expected = "opens" THEN opc = "done" /\ alt.err = "none"
                       ELSE /\ opc = "failed" /\ CategoryOf(oerr) = vec.expected
                            /\ CategoryOf(alt.err) = vec.expected
    BY DEF ExpectedStreamCategory
  <2>1. /\ TypeOK /\ OpenTypeInv /\ OpeningInv /\ ReaderVerdict
        /\ opc \in {"done", "failed"}
        /\ alt = AltStreamResult(env, bundle, oerr # "bad handshake")
        /\ env = vec.env /\ Proper(vec, sent[vec.from].env)
    BY DEF PstvInv, StreamReadersInv, IInv, AltVerdictInv, ReplayedInv
  <2>2. /\ env.hdr.suite # 3
        /\ vec.expected \in {"truncation", "suite_mismatch", "wrong_recipient",
                             "opens", "aead"}
    BY <2>1 DEF Proper
  <2>3. alt.err = IF opc = "done" THEN "none" ELSE oerr
    BY <2>1, <2>2, EndedStream DEF AltStreamResult
  <2>4. /\ vec.expected = "opens" => opc = "done"
        /\ vec.expected = "suite_mismatch" => opc = "failed" /\ oerr = "suite mismatch"
        /\ vec.expected = "wrong_recipient" => opc = "failed" /\ oerr = "key-id mismatch"
        /\ vec.expected = "truncation" => opc = "failed" /\ oerr = "truncated header"
        /\ vec.expected = "aead" => opc = "failed" /\ oerr = "chunk AEAD"
    BY <2>1, EndedVector DEF FailedAtChunk
  <2>. QED  BY <2>2, <2>3, <2>4 DEF CategoryOf
<1>. QED  BY <1>1, PstvInvariance, PTL

(* A rearranged stream is refused at the first chunk out of its place: the *)
(* chunks before it did open, and none of them is returned                 *)
(* (shield.py:649-657).                                                    *)
THEOREM RefusedInPlace == Damaged => (PstvSpec => []RefusedAtFirstMisplaced)
<1>1. PstvInv => RefusedAtFirstMisplaced
  <2>. SUFFICES ASSUME PstvInv, opc \in {"done", "failed"}, vec # None,
                       vec.expected = "aead"
                PROVE  /\ out = None
                       /\ \A i \in 1..idx : InPlace(i)
                       /\ \/ ~InPlace(idx + 1)
                          \/ (idx + 1 = Len(env.body)) # (idx + 1 = ChunkCount)
    BY DEF RefusedAtFirstMisplaced
  <2>. DEFINE original == sent[vec.from].env
  <2>1. /\ opc = "failed" /\ FailedAtChunk
        /\ env = vec.env /\ bundle = vec.bundle /\ Proper(vec, original)
        /\ ReaderVerdict /\ idx \in Nat
    BY EndedVector DEF PstvInv, StreamReadersInv, AltVerdictInv, ReplayedInv, TypeOK
  <2>2. /\ out = None
        /\ idx + 1 \in 1..Len(env.body) /\ ~AltChunkOpens(env, bundle.rcpt, idx + 1)
        /\ \A i \in 1..idx : AltChunkOpens(env, bundle.rcpt, i)
    BY <2>1 DEF ReaderVerdict, FailedAtChunk
  <2>3. \A j \in 1..Len(env.body) :
          AltChunkOpens(env, bundle.rcpt, j) <=> Placed(env, original, j)
    BY <2>1 DEF Proper
  <2>4. \A i \in 1..idx : i \in 1..Len(env.body)
    BY <2>1, <2>2
  <2>5. /\ \A i \in 1..idx : Placed(env, original, i)
        /\ ~Placed(env, original, idx + 1)
    BY <2>2, <2>3, <2>4
  <2>. QED  BY <2>2, <2>5 DEF Placed, InPlace
<1>. QED  BY <1>1, PstvInvariance, PTL

-----------------------------------------------------------------------------
(* What is proved of the two functions holds where they run beside         *)
(* altcodec, and through a replay of the corpus.                           *)

(* altcodec reads what open_stream was given, and changes nothing of it.   *)
LEMMA AltIsSafe == AltSpec => Safety
<1>1. [AltNext]_altVars => [Next]_vars
  BY DEF AltNext, AltOpenStream, BothReturn, Next, altVars
<1>2. AltInit => Init
  BY DEF AltInit
<1>. QED  BY <1>1, <1>2, PTL DEF AltSpec, Safety

(* Beside altcodec's reader, under any faults of storage: what open_stream *)
(* returns is one sealed plaintext, whole, and no key and nonce seal twice *)
(* (shield.py:585, 598-601, 650-657).                                      *)
THEOREM SafeBesideAlt == AltSpec => [](StreamInv /\ WholeOrNothing /\ NonceUnique)
BY AltIsSafe, TypedInvariance, Authentic, NoncesUnique, PTL

(* A step of the replay is a step of the functions, or a vector is put     *)
(* before open_stream.                                                     *)
LEMMA PstvStep == [PstvNext]_pstvVars => [Next]_vars \/ Replay
BY DEF PstvNext, AltOpenStream, BothReturn, Next, pstvVars, altVars

(* The bytes of a vector name its original.                                *)
LEMMA VectorNames ==
  ASSUME TypeOK, SentInv, NEW s \in Streams, Original(s), NEW v \in StreamVectors(s)
  PROVE  Names(v.env)
<1>. DEFINE e == sent[s].env
            h == e.hdr
            other == [h EXCEPT !.suite = 3 - h.suite]
<1>1. e = [hdr |-> h, body |-> e.body, tail |-> "whole"] /\ s \in Finished
  BY OriginalParts
<1>2. h = Header(s, sent[s].to, h.nonce, h.csize) /\ h.ct = s
  BY OriginalParts
<1>3. "ct" \in DOMAIN h /\ "ct" \in DOMAIN other /\ other.ct = s
  <2>1. DOMAIN h = {"magic", "version", "suite", "flags", "kid", "eph", "ct", "nonce",
                    "csize"}
    BY <1>2 DEF Header
  <2>. QED  BY <1>2, <2>1
<1>4. v.env.hdr \in {h, other}
  <2>1. \A tag, d, who, category : Vector(s, tag, d, who, category).env = d
    BY DEF Vector
  <2>2. \A w : [e EXCEPT !.body = w].hdr = h
    BY <1>1
  <2>3. [e EXCEPT !.body = <<>>, !.tail = "header"].hdr = h
    BY <1>1
  <2>4. [e EXCEPT !.hdr = other].hdr = other
    BY <1>1
  <2>5. \/ \E w, tag, category :
             v = Vector(s, tag, [e EXCEPT !.body = w], sent[s].to, category)
        \/ \E who, tag, category : v = Vector(s, tag, e, who, category)
        \/ \E tag, category :
             v = Vector(s, tag, [e EXCEPT !.hdr = other], sent[s].to, category)
        \/ \E tag, category :
             v = Vector(s, tag, [e EXCEPT !.body = <<>>, !.tail = "header"], sent[s].to,
                        category)
    BY DEF StreamVectors
  <2>. HIDE DEF e, h, other
  <2>6. CASE \E w, tag, category :
               v = Vector(s, tag, [e EXCEPT !.body = w], sent[s].to, category)
    <3>1. PICK w, tag, category :
            v = Vector(s, tag, [e EXCEPT !.body = w], sent[s].to, category)
      BY <2>6
    <3>2. v.env = [e EXCEPT !.body = w]
      BY <3>1, <2>1
    <3>. QED  BY <3>2, <2>2
  <2>7. CASE \E who, tag, category : v = Vector(s, tag, e, who, category)
    BY <2>1, <2>7 DEF h
  <2>8. CASE \E tag, category :
               v = Vector(s, tag, [e EXCEPT !.hdr = other], sent[s].to, category)
    <3>1. PICK tag, category :
            v = Vector(s, tag, [e EXCEPT !.hdr = other], sent[s].to, category)
      BY <2>8
    <3>2. v.env = [e EXCEPT !.hdr = other]
      BY <3>1, <2>1
    <3>. QED  BY <3>2, <2>4
  <2>9. CASE \E tag, category :
               v = Vector(s, tag, [e EXCEPT !.body = <<>>, !.tail = "header"], sent[s].to,
                          category)
    <3>1. PICK tag, category :
            v = Vector(s, tag, [e EXCEPT !.body = <<>>, !.tail = "header"], sent[s].to,
                       category)
      BY <2>9
    <3>2. v.env = [e EXCEPT !.body = <<>>, !.tail = "header"]
      BY <3>1, <2>1
    <3>. QED  BY <3>2, <2>3
  <2>. QED  BY <2>5, <2>6, <2>7, <2>8, <2>9
<1>. QED  BY <1>1, <1>2, <1>3, <1>4 DEF Names

(* A vector put before open_stream leaves the verdicts to come.            *)
LEMMA ReplayRefusal ==
  ASSUME PstvInv, RefusalInv, Replay
  PROVE  RefusalInv'
<1>1. PICK s \in Streams : Original(s) /\ \E v \in StreamVectors(s) : env' = v.env
  BY DEF Replay
<1>2. Names(env')
  BY <1>1, VectorNames DEF PstvInv, StreamReadersInv, IInv
<1>3. opc = "idle" /\ opc' = "parse" /\ UNCHANGED <<sent, wire, used>>
  BY DEF Replay, storeVars
<1>. QED  BY <1>2, <1>3 DEF RefusalInv, NamesInv, Names, VerdictSoFar, Finished, Stored

(* Through the corpus too, an unchanged stream is refused only for the key *)
(* bundle: its vector for another recipient is refused before the private  *)
(* key is used (gen_pstv_vectors.py:509-604, shield.py:626-630).           *)
THEOREM CorpusRefusedForKey == Damaged => (PstvSpec => []RefusedOnlyForKey)
<1>. SUFFICES ASSUME Damaged PROVE PstvSpec => []RefusedOnlyForKey
  OBVIOUS
<1>1. AltInit => RefusalInv
  BY InitRefusal DEF AltInit
<1>2. PstvInv /\ RefusalInv /\ [PstvNext]_pstvVars => RefusalInv'
  BY PstvStep, StepRefusal, ReplayRefusal DEF PstvInv, StreamReadersInv
<1>3. RefusalInv => RefusedOnlyForKey
  BY DEF RefusalInv, VerdictSoFar, Refusal, Intended, RefusedOnlyForKey
<1>. QED  BY <1>1, <1>2, <1>3, PstvInvariance, PTL DEF PstvSpec

(* And seal_stream fails only on a message that does not fit the format.   *)
THEOREM CorpusSealFailure == Damaged => (PstvSpec => SealFailsOnlyOversize)
<1>. SUFFICES ASSUME Damaged PROVE PstvSpec => SealFailsOnlyOversize
  OBVIOUS
<1>1. AltInit => LastInside
  BY DEF AltInit, Init, LastInside
<1>2. Replay => UNCHANGED <<spc, chunks, size, pt>>
  BY DEF Replay, sealVars
<1>3. PstvInv /\ LastInside /\ [PstvNext]_pstvVars => LastInside'
  <2>1. LastInside /\ Replay => LastInside'
    BY <1>2 DEF LastInside
  <2>. QED  BY <2>1, PstvStep, StepLastInside DEF PstvInv, StreamReadersInv
<1>4. PstvInv /\ LastInside /\ [PstvNext]_pstvVars => [FailsOversize]_vars
  <2>1. Replay => FailsOversize
    BY <1>2 DEF FailsOversize
  <2>. QED  BY <2>1, PstvStep, StepFailsOversize DEF PstvInv, StreamReadersInv
<1>. QED  BY <1>1, <1>3, <1>4, PstvInvariance, PTL
          DEF PstvSpec, SealFailsOnlyOversize, FailsOversize

(* And the two functions take the steps of StreamTransfer: a vector that   *)
(* opens delivers the whole message its original was sealed from.          *)
THEOREM CorpusTransferSteps ==
  Damaged => (PstvSpec => Transfer!Init /\ [][Transfer!Next]_<<SentView, Outcome>>)
<1>. SUFFICES ASSUME Damaged
              PROVE  PstvSpec => Transfer!Init /\ [][Transfer!Next]_<<SentView, Outcome>>
  OBVIOUS
<1>1. AltInit => Transfer!Init
  BY InitRefines DEF AltInit
<1>2. ASSUME Replay PROVE Transfer!Begin
  <2>1. opc = "idle" /\ opc' = "parse" /\ sent' = sent
    BY <1>2 DEF Replay
  <2>2. Outcome = Transfer!Phase("idle")
    BY <2>1, OutcomeOf
  <2>3. Outcome' = Transfer!Phase("pending")
    BY <2>1 DEF Outcome, Transfer!Phase
  <2>4. SentView' = SentView
    BY <2>1 DEF SentView, Finished
  <2>. QED  BY <2>2, <2>3, <2>4 DEF SentView, Transfer!Begin
<1>3. PstvInv => TypeOK /\ IInv /\ WholeOrNothing
  BY WholeFromIInv DEF PstvInv, StreamReadersInv
<1>4. PstvInv /\ TypeOK /\ IInv /\ (TypeOK /\ IInv)' /\ WholeOrNothing'
        /\ [PstvNext]_pstvVars => [Transfer!Next]_<<SentView, Outcome>>
  BY PstvStep, StepMaps, <1>2 DEF Transfer!Next
<1>. QED  BY <1>1, <1>3, <1>4, PstvInvariance, PTL DEF PstvSpec
=============================================================================
