------------------------ MODULE HighAssurance_proofs ------------------------
(***************************************************************************)
(* What an accepted signature says, for every set of keys, contexts and    *)
(* messages and any number of signing calls.                               *)
(***************************************************************************)
EXTENDS HighAssurance, SequenceTheorems, TLAPS

-----------------------------------------------------------------------------
(* Framing.                                                                *)

(* Two sequences that are equal up to the same place are equal after it.   *)
LEMMA SplitAt ==
  ASSUME NEW c \in Seq(Nat), NEW d \in Seq(Nat), NEW m \in Seq(Nat), NEW n \in Seq(Nat),
         Len(c) = Len(d), c \o m = d \o n
  PROVE  c = d /\ m = n
<1>1. /\ Len(c) \in Nat /\ Len(m) \in Nat /\ Len(n) \in Nat
      /\ Len(c \o m) = Len(c) + Len(m) /\ Len(d \o n) = Len(d) + Len(n)
  BY LenProperties, ConcatProperties
<1>2. \A i \in 1 .. Len(c) : c[i] = d[i]
  <2>. TAKE i \in 1 .. Len(c)
  <2>1. (c \o m)[i] = c[i]
    BY <1>1, ConcatProperties
  <2>2. (d \o n)[i] = d[i]
    BY <1>1, ConcatProperties
  <2>. QED  BY <2>1, <2>2
<1>3. Len(m) = Len(n)
  BY <1>1
<1>4. \A i \in 1 .. Len(m) : m[i] = n[i]
  <2>1. \A j \in 1 .. Len(c) + Len(m) : j > Len(c) =>
          (c \o m)[j] = m[j - Len(c)] /\ (d \o n)[j] = n[j - Len(c)]
    <3>. TAKE j \in 1 .. Len(c) + Len(m)
    <3>. HAVE j > Len(c)
    <3>1. ~(j <= Len(c)) /\ j \in 1 .. Len(d) + Len(n) /\ ~(j <= Len(d))
      BY <1>1, <1>3
    <3>2. (c \o m)[j] = m[j - Len(c)]
      BY <3>1, ConcatProperties
    <3>3. (d \o n)[j] = n[j - Len(d)]
      BY <3>1, ConcatProperties
    <3>. QED  BY <3>2, <3>3
  <2>. TAKE i \in 1 .. Len(m)
  <2>. DEFINE j == Len(c) + i
  <2>2. j \in 1 .. Len(c) + Len(m) /\ j > Len(c) /\ j - Len(c) = i
    BY <1>1
  <2>. HIDE DEF j
  <2>. QED  BY <2>1, <2>2
<1>5. c = d
  BY <1>2, SeqEqual
<1>6. m = n
  BY <1>3, <1>4, SeqEqual
<1>. QED  BY <1>5, <1>6

(* Concatenation is associative.                                           *)
LEMMA Associative ==
  ASSUME NEW c \in Seq(Nat), NEW d \in Seq(Nat), NEW m \in Seq(Nat)
  PROVE  (c \o d) \o m = c \o (d \o m)
BY ConcatAssociative

(* The length in front tells where the context ends: no two pairs of       *)
(* context and message frame alike.                                        *)
LEMMA FramedInjective ==
  ASSUME NEW c \in Seq(Nat), NEW d \in Seq(Nat), NEW m \in Seq(Nat), NEW n \in Seq(Nat),
         Framed(c, m) = Framed(d, n)
  PROVE  c = d /\ m = n
<1>1. Len(c) \in Nat /\ Len(d) \in Nat
  BY LenProperties
<1>. DEFINE x == <<Len(c)>>
            y == <<Len(d)>>
            u == c \o m
            v == d \o n
<1>2. /\ x \in Seq(Nat) /\ y \in Seq(Nat) /\ Len(x) = Len(y)
      /\ x = y => Len(c) = Len(d)
  BY <1>1
<1>3. u \in Seq(Nat) /\ v \in Seq(Nat)
  BY ConcatProperties
<1>4. x \o u = y \o v
  <2>0. x \in Seq(Nat) /\ y \in Seq(Nat)
    BY <1>2
  <2>. HIDE DEF x, y
  <2>1. (x \o c) \o m = x \o (c \o m)
    BY <2>0, Associative, Zenon
  <2>2. (y \o d) \o n = y \o (d \o n)
    BY <2>0, Associative, Zenon
  <2>. QED  BY <2>1, <2>2 DEF Framed, x, y
<1>5. x = y /\ u = v
  <2>. HIDE DEF x, y, u, v
  <2>. QED  BY <1>2, <1>3, <1>4, SplitAt
<1>6. Len(c) = Len(d) /\ c \o m = d \o n
  BY <1>2, <1>5
<1>. QED  BY <1>6, SplitAt

-----------------------------------------------------------------------------
(* Reading a blob.                                                         *)

(* A field that ends within the bytes is what the writer makes of the leg. *)
LEMMA FieldRead ==
  ASSUME NEW b \in Seq(Nat), NEW off \in Nat, off + 1 <= Len(b),
         off + 1 + b[off + 1] <= Len(b)
  PROVE  LET end == off + 1 + b[off + 1]
             leg == Slice(b, off + 2, end)
         IN  /\ leg \in Seq(Nat)
             /\ Field(leg) = SubSeq(b, off + 1, end)
<1>. DEFINE end == off + 1 + b[off + 1]
            leg == SubSeq(b, off + 2, end)
<1>1. Len(b) \in Nat /\ off + 1 \in 1 .. Len(b) /\ b[off + 1] \in Nat
  BY LenProperties, ElementOfSeq
<1>2. end \in off + 1 .. Len(b)
  BY <1>1
<1>3. Slice(b, off + 2, end) = leg
  <2>1. ~(end > Len(b))
    BY <1>1, <1>2
  <2>. HIDE DEF end
  <2>. QED  BY <2>1 DEF Slice
<1>. HIDE DEF leg
<1>4. \A i \in off + 2 .. end : b[i] \in Nat
  BY <1>1, <1>2, ElementOfSeq
<1>5. leg \in Seq(Nat) /\ Len(leg) = b[off + 1]
  <2>1. off + 2 \in Int /\ end \in Int
    BY <1>1, <1>2
  <2>2. leg \in Seq(Nat) /\ Len(leg) = IF off + 2 <= end THEN end - (off + 2) + 1 ELSE 0
    <3>. HIDE DEF end
    <3>. QED  BY <2>1, <1>4, SubSeqProperties DEF leg
  <2>. QED  BY <2>2, <1>1
<1>6. SubSeq(b, off + 1, off + 1) = <<b[off + 1]>>
  <2>. DEFINE o == off + 1
              s == SubSeq(b, o, o)
              t == <<b[o]>>
  <2>1. o \in Int /\ \A i \in o .. o : b[i] \in Nat
    BY <1>1
  <2>. HIDE DEF o
  <2>2. s \in Seq(Nat) /\ Len(s) = 1 /\ s[1] = b[o]
    BY <2>1, SubSeqProperties
  <2>3. t \in Seq(Nat) /\ Len(t) = 1 /\ t[1] = b[o]
    BY <2>1
  <2>. HIDE DEF s, t
  <2>4. s = t
    BY <2>2, <2>3, SeqEqual
  <2>. QED  BY <2>4 DEF s, t, o
<1>7. SubSeq(b, off + 1, off + 1) \o SubSeq(b, off + 2, end) = SubSeq(b, off + 1, end)
  <2>1. /\ off + 1 \in 1 .. Len(b) + 1 /\ off + 1 \in (off + 1) - 1 .. Len(b)
        /\ end \in off + 1 .. Len(b) /\ off + 2 = (off + 1) + 1
    BY <1>1, <1>2
  <2>. HIDE DEF end
  <2>. QED  BY <2>1, ConcatAdjacentSubSeq
<1>. QED  BY <1>3, <1>5, <1>6, <1>7 DEF Field, leg

Readings == [ok : BOOLEAN, off : Nat, legs : Seq(Seq(Nat))]
End(b, st) == st.off + 1 + b[st.off + 1]

(* A reading that succeeds has gone on from one that did.                  *)
LEMMA ReadOn ==
  ASSUME NEW b \in Seq(Nat), NEW st \in Readings
  PROVE  /\ ReadField(b, st) \in Readings
         /\ ReadField(b, st).ok =>
              /\ st.ok /\ st.off + 1 <= Len(b)
              /\ ReadField(b, st).off = End(b, st)
              /\ ReadField(b, st).legs = Append(st.legs, Slice(b, st.off + 2, End(b, st)))
<1>1. Len(b) \in Nat /\ st.off \in Nat /\ st.ok \in BOOLEAN /\ st.legs \in Seq(Seq(Nat))
  BY LenProperties DEF Readings
<1>2. CASE ~st.ok \/ st.off + 1 > Len(b)
  <2>1. ReadField(b, st) = [st EXCEPT !.ok = FALSE]
    BY <1>2 DEF ReadField
  <2>. QED  BY <2>1, <1>1 DEF Readings
<1>3. CASE ~(~st.ok \/ st.off + 1 > Len(b))
  <2>1. st.off + 1 \in 1 .. Len(b) /\ st.ok
    BY <1>1, <1>3
  <2>2. b[st.off + 1] \in Nat
    BY <2>1, ElementOfSeq
  <2>3. End(b, st) \in Nat
    BY <1>1, <2>2 DEF End
  <2>4. Slice(b, st.off + 2, End(b, st)) \in Seq(Nat)
    <3>. DEFINE i == st.off + 2
                j == IF End(b, st) > Len(b) THEN Len(b) ELSE End(b, st)
    <3>1. i \in Int /\ j \in Int /\ i >= 1 /\ j <= Len(b)
      BY <1>1, <2>3
    <3>2. \A k \in i .. j : b[k] \in Nat
      <4>. TAKE k \in i .. j
      <4>. HIDE DEF i, j
      <4>1. k \in 1 .. Len(b)
        BY <1>1, <3>1
      <4>. QED  BY <4>1, ElementOfSeq
    <3>. HIDE DEF i, j
    <3>3. SubSeq(b, i, j) \in Seq(Nat)
      BY <3>1, <3>2, SubSeqProperties
    <3>. QED  BY <3>3 DEF Slice, i, j
  <2>. DEFINE leg == Slice(b, st.off + 2, End(b, st))
  <2>5. ReadField(b, st) = [ok |-> TRUE, off |-> End(b, st), legs |-> Append(st.legs, leg)]
    BY <1>3 DEF ReadField, End
  <2>6. Append(st.legs, leg) \in Seq(Seq(Nat))
    <3>. HIDE DEF leg
    <3>. QED  BY <1>1, <2>4, AppendProperties DEF leg
  <2>. HIDE DEF leg
  <2>. QED  BY <2>1, <2>3, <2>5, <2>6 DEF Readings, leg
<1>. QED  BY <1>2, <1>3

(* What has been read within the bytes, the writer wrote: a reading goes   *)
(* on from where the last one ended, and its leg makes the bytes between.  *)
LEMMA ReadWithin ==
  ASSUME NEW b \in Seq(Nat), NEW st \in Readings,
         ReadField(b, st).ok, ReadField(b, st).off <= Len(b)
  PROVE  LET leg == Slice(b, st.off + 2, End(b, st))
         IN  /\ leg \in Seq(Nat) /\ st.off < ReadField(b, st).off
             /\ ReadField(b, st).legs = Append(st.legs, leg)
             /\ Field(leg) = SubSeq(b, st.off + 1, ReadField(b, st).off)
<1>1. /\ st.off \in Nat /\ st.off + 1 <= Len(b) /\ Len(b) \in Nat
      /\ ReadField(b, st).off = st.off + 1 + b[st.off + 1]
      /\ ReadField(b, st).legs = Append(st.legs, Slice(b, st.off + 2, End(b, st)))
  BY ReadOn, LenProperties DEF End, Readings
<1>2. st.off + 1 + b[st.off + 1] <= Len(b)
  BY <1>1
<1>3. b[st.off + 1] \in Nat
  BY <1>1, ElementOfSeq
<1>4. st.off < ReadField(b, st).off
  BY <1>1, <1>3
<1>5. LET leg == Slice(b, st.off + 2, End(b, st))
      IN  leg \in Seq(Nat) /\ Field(leg) = SubSeq(b, st.off + 1, End(b, st))
  <2>. DEFINE off == st.off
  <2>1. off \in Nat /\ off + 1 <= Len(b) /\ off + 1 + b[off + 1] <= Len(b)
    BY <1>1, <1>2
  <2>. HIDE DEF off
  <2>2. LET end == off + 1 + b[off + 1]
            leg == Slice(b, off + 2, end)
        IN  leg \in Seq(Nat) /\ Field(leg) = SubSeq(b, off + 1, end)
    BY <2>1, FieldRead
  <2>. QED  BY <2>2 DEF End, off
<1>. QED  BY <1>1, <1>4, <1>5 DEF End

(* The bytes up to i and those from there to j are the bytes up to j.      *)
LEMMA Cut ==
  ASSUME NEW b \in Seq(Nat), NEW i \in Nat, NEW j \in Nat, i < j, j <= Len(b)
  PROVE  SubSeq(b, 1, i) \o SubSeq(b, i + 1, j) = SubSeq(b, 1, j)
<1>1. Len(b) \in Nat
  BY LenProperties
<1>2. 1 \in 1 .. Len(b) + 1 /\ i \in 1 - 1 .. Len(b) /\ j \in i .. Len(b)
  BY <1>1
<1>. QED  BY <1>2, ConcatAdjacentSubSeq

(* A reader starts with no leg, at the first byte.                         *)
LEMMA StartReading == Start \in Readings
<1>1. <<>> \in Seq(Seq(Nat))
  BY EmptySeq
<1>. QED  BY <1>1 DEF Start, Readings

(* A leg is added at the end, and the earlier ones stay.                   *)
LEMMA Appended ==
  ASSUME NEW s \in Seq(Seq(Nat)), NEW k \in Seq(Nat)
  PROVE  /\ Len(Append(s, k)) = Len(s) + 1 /\ Append(s, k)[Len(s) + 1] = k
         /\ \A i \in 1 .. Len(s) : Append(s, k)[i] = s[i]
BY AppendProperties, LenProperties

(* The first two legs, and the bytes they take.                            *)
LEMMA DualRead ==
  ASSUME NEW b \in Seq(Nat), ReadDual(b).ok, ReadDual(b).off <= Len(b)
  PROVE  LET st == ReadDual(b)
         IN  /\ st \in Readings
             /\ Len(st.legs) = 2 /\ st.legs[1] \in Seq(Nat) /\ st.legs[2] \in Seq(Nat)
             /\ SubSeq(b, 1, st.off) = DualBody(st.legs[1], st.legs[2])
<1>. DEFINE st1 == ReadField(b, Start)
            st2 == ReadField(b, st1)
            l == Slice(b, Start.off + 2, End(b, Start))
            k == Slice(b, st1.off + 2, End(b, st1))
<1>0. Start \in Readings
  BY StartReading
<1>1. st1 \in Readings /\ ReadDual(b) = st2
  BY <1>0, ReadOn DEF ReadDual
<1>2. st2 \in Readings /\ st2.ok /\ st2.off <= Len(b) /\ Len(b) \in Nat
  <2>. HIDE DEF st1
  <2>. QED  BY <1>1, ReadOn, LenProperties
<1>3. st1.ok
  <2>. HIDE DEF st1
  <2>. QED  BY <1>1, <1>2, ReadOn
<1>4. /\ k \in Seq(Nat) /\ st1.off < st2.off /\ st2.legs = Append(st1.legs, k)
      /\ Field(k) = SubSeq(b, st1.off + 1, st2.off)
  <2>. HIDE DEF st1
  <2>. QED  BY <1>1, <1>2, ReadWithin
<1>5. st1.off \in Nat /\ st2.off \in Nat /\ st1.off <= Len(b)
  BY <1>1, <1>2, <1>4 DEF Readings
<1>6. /\ l \in Seq(Nat) /\ st1.legs = Append(Start.legs, l)
      /\ Field(l) = SubSeq(b, Start.off + 1, st1.off)
  <2>1. ReadField(b, Start).ok /\ ReadField(b, Start).off <= Len(b)
    BY <1>3, <1>5
  <2>. QED  BY <2>1, <1>0, ReadWithin
<1>. HIDE DEF st2, l, k
<1>7. /\ Len(st2.legs) = 2 /\ st2.legs[1] = l /\ st2.legs[2] = k
      /\ Field(l) = SubSeq(b, 1, st1.off)
  <2>1. Start.off = 0 /\ Start.legs = <<>> /\ Start.legs \in Seq(Seq(Nat))
        /\ st1.legs \in Seq(Seq(Nat))
    <3>. HIDE DEF st1
    <3>. QED  BY <1>0, <1>1 DEF Start, Readings
  <2>. HIDE DEF st1
  <2>2. Len(st1.legs) = 1 /\ st1.legs[1] = l
    <3>1. Len(Start.legs) = 0
      BY <2>1
    <3>. QED  BY <2>1, <3>1, <1>6, Appended
  <2>3. Len(st2.legs) = 2 /\ st2.legs[2] = k /\ st2.legs[1] = st1.legs[1]
    <3>. DEFINE s == st1.legs
    <3>1. s \in Seq(Seq(Nat)) /\ Len(s) = 1 /\ k \in Seq(Nat) /\ st2.legs = Append(s, k)
      BY <2>1, <2>2, <1>4
    <3>. DEFINE a == Append(s, k)
    <3>. HIDE DEF s
    <3>2. /\ Len(a) = Len(s) + 1 /\ a[Len(s) + 1] = k
          /\ \A i \in 1 .. Len(s) : a[i] = s[i]
      BY <3>1, Appended
    <3>. HIDE DEF a
    <3>3. Len(a) = 2 /\ a[2] = k /\ a[1] = s[1]
      BY <3>1, <3>2
    <3>. QED  BY <3>1, <3>3 DEF s, a
  <2>. QED  BY <2>1, <2>2, <2>3, <1>6
<1>. HIDE DEF st1
<1>8. SubSeq(b, 1, st2.off) = DualBody(l, k)
  <2>1. SubSeq(b, 1, st1.off) \o SubSeq(b, st1.off + 1, st2.off) = SubSeq(b, 1, st2.off)
    BY <1>2, <1>4, <1>5, Cut
  <2>. QED  BY <2>1, <1>4, <1>7 DEF DualBody
<1>. QED  BY <1>1, <1>2, <1>4, <1>6, <1>7, <1>8

(* All the bytes of a blob are the blob.                                   *)
LEMMA FullBytes ==
  ASSUME NEW b \in Seq(Nat)
  PROVE  SubSeq(b, 1, Len(b)) = b
BY SubSeqFull

(* A blob read whole is what the writer makes of its legs.                 *)
LEMMA DualWhole ==
  ASSUME NEW b \in Seq(Nat), Whole(b, ReadDual(b))
  PROVE  LET l == ReadDual(b).legs IN b = DualBody(l[1], l[2])
<1>1. ReadDual(b).ok /\ ReadDual(b).off = Len(b) /\ Len(b) \in Nat
  BY LenProperties DEF Whole
<1>2. ReadDual(b).off <= Len(b)
  BY <1>1
<1>. QED  BY <1>1, <1>2, DualRead, FullBytes

(* So is a triple blob that is read whole.                                 *)
LEMMA TripleWhole ==
  ASSUME NEW b \in Seq(Nat), Whole(b, ReadTriple(b))
  PROVE  LET l == ReadTriple(b).legs IN b = TripleBody(l[1], l[2], l[3])
<1>. DEFINE st2 == ReadDual(b)
            st3 == ReadField(b, st2)
            n == Slice(b, st2.off + 2, End(b, st2))
<1>0. ReadTriple(b) = st3 /\ Len(b) \in Nat
  BY LenProperties DEF ReadTriple
<1>1. st3.ok /\ st3.off = Len(b) /\ st3.off <= Len(b)
  <2>. HIDE DEF st3
  <2>. QED  BY <1>0 DEF Whole
<1>2. st2 \in Readings
  <2>1. ReadField(b, Start) \in Readings
    BY StartReading, ReadOn
  <2>. QED  BY <2>1, ReadOn DEF ReadDual
<1>3. st2.ok
  <2>. HIDE DEF st2
  <2>. QED  BY <1>1, <1>2, ReadOn
<1>4. /\ n \in Seq(Nat) /\ st2.off < st3.off /\ st3.legs = Append(st2.legs, n)
      /\ Field(n) = SubSeq(b, st2.off + 1, st3.off)
  <2>. HIDE DEF st2
  <2>. QED  BY <1>1, <1>2, ReadWithin
<1>5. st2.off \in Nat /\ st3.off \in Nat /\ st2.off <= Len(b) /\ st2.legs \in Seq(Seq(Nat))
  <2>1. st2.off \in Nat /\ st2.legs \in Seq(Seq(Nat))
    <3>. HIDE DEF st2
    <3>. QED  BY <1>2 DEF Readings
  <2>. HIDE DEF st2, st3
  <2>. QED  BY <2>1, <1>0, <1>1, <1>4
<1>6. /\ Len(st2.legs) = 2
      /\ SubSeq(b, 1, st2.off) = DualBody(st2.legs[1], st2.legs[2])
  BY <1>3, <1>5, DualRead
<1>. HIDE DEF st2, st3, n
<1>7. st3.legs[3] = n /\ st3.legs[1] = st2.legs[1] /\ st3.legs[2] = st2.legs[2]
  <2>. DEFINE s == st2.legs
              a == Append(s, n)
  <2>1. s \in Seq(Seq(Nat)) /\ Len(s) = 2 /\ n \in Seq(Nat) /\ st3.legs = a
    BY <1>4, <1>5, <1>6
  <2>. HIDE DEF s
  <2>2. a[Len(s) + 1] = n /\ \A i \in 1 .. Len(s) : a[i] = s[i]
    BY <2>1, Appended
  <2>. HIDE DEF a
  <2>3. a[3] = n /\ a[1] = s[1] /\ a[2] = s[2]
    BY <2>1, <2>2
  <2>. QED  BY <2>1, <2>3 DEF s
<1>8. SubSeq(b, 1, st3.off) = TripleBody(st3.legs[1], st3.legs[2], st3.legs[3])
  <2>1. SubSeq(b, 1, st2.off) \o SubSeq(b, st2.off + 1, st3.off) = SubSeq(b, 1, st3.off)
    BY <1>1, <1>4, <1>5, Cut
  <2>. QED  BY <2>1, <1>4, <1>6, <1>7 DEF DualBody, TripleBody
<1>. QED  BY <1>0, <1>1, <1>8, FullBytes

-----------------------------------------------------------------------------
(* The inductive invariant: what is logged and returned is well formed.    *)

LegOK(r) == /\ r.ctx \in Contexts /\ r.msg \in Messages /\ Len(r.ctx) <= MaxCtx
            /\ r.data = Framed(r.ctx, r.msg) /\ r.sig \in Seq(Nat)
BlobOK(e) ==
  /\ e.blob.body \in Seq(Nat)
  /\ e.op # "leg" => 1 \in DOMAIN e.rs /\ 2 \in DOMAIN e.rs
  /\ e.op = "triple" => 3 \in DOMAIN e.rs
  /\ \A i \in DOMAIN e.rs : e.rs[i].sig \in Seq(Nat)

LogInv == \A r \in log : LegOK(r)
BlobsInv == \A e \in blobs : BlobOK(e)
Verdicts == SignedInContext /\ EveryLegSigned /\ CanonicalBlob
IInv == LogInv /\ BlobsInv /\ Verdicts

(* What a leg signs is framed in its context, and a row of numbers.        *)
LEMMA SignedOK ==
  ASSUME NEW s \in Schemes, NEW b \in Bundles, NEW c \in Contexts, NEW m \in Messages,
         Len(c) <= MaxCtx
  PROVE  LegOK(Signed(s, b, c, m)) /\ Signed(s, b, c, m).sig \in Seq(Nat)
<1>1. SignatureOf(s, KeyOf(b), Framed(c, m)) \in Seq(Nat)
  BY SignatureAssumption
<1>. QED  BY <1>1 DEF LegOK, Signed

(* A length and a signature are a row of numbers.                          *)
LEMMA FieldIsBytes ==
  ASSUME NEW sig \in Seq(Nat)
  PROVE  Field(sig) \in Seq(Nat)
<1>1. <<Len(sig)>> \in Seq(Nat)
  BY LenProperties
<1>. HIDE DEF Field
<1>. QED  BY <1>1, ConcatProperties DEF Field

(* So are the fields of a blob, one after another.                         *)
LEMMA BodiesAreBytes ==
  ASSUME NEW l \in Seq(Nat), NEW k \in Seq(Nat)
  PROVE  /\ DualBody(l, k) \in Seq(Nat)
         /\ \A n \in Seq(Nat) : TripleBody(l, k, n) \in Seq(Nat)
<1>1. Field(l) \in Seq(Nat) /\ Field(k) \in Seq(Nat) /\ \A n \in Seq(Nat) : Field(n) \in Seq(Nat)
  BY FieldIsBytes
<1>2. Field(l) \o Field(k) \in Seq(Nat)
  <2>. DEFINE x == Field(l)
              y == Field(k)
  <2>1. x \in Seq(Nat) /\ y \in Seq(Nat)
    BY <1>1
  <2>. HIDE DEF x, y
  <2>2. x \o y \in Seq(Nat)
    BY <2>1, ConcatProperties
  <2>. QED  BY <2>2 DEF x, y
<1>3. ASSUME NEW n \in Seq(Nat) PROVE TripleBody(l, k, n) \in Seq(Nat)
  <2>. DEFINE x == Field(l) \o Field(k)
              y == Field(n)
  <2>1. x \in Seq(Nat) /\ y \in Seq(Nat)
    BY <1>1, <1>2
  <2>. HIDE DEF x, y
  <2>2. x \o y \in Seq(Nat)
    BY <2>1, ConcatProperties
  <2>. QED  BY <2>2 DEF x, y, TripleBody
<1>. QED  BY <1>2, <1>3 DEF DualBody

(* However it was damaged or put together, what is given for verification  *)
(* is a row of numbers.                                                    *)
LEMMA DamagedIsBytes ==
  ASSUME NEW blob, blob.body \in Seq(Nat), NEW d \in Damaged(blob)
  PROVE  d.body \in Seq(Nat)
<1>. DEFINE b == blob.body
<1>0. b \in Seq(Nat) /\ Len(b) \in Nat
  BY LenProperties
<1>1. \/ d.body = b
      \/ \E i \in DOMAIN b, v \in 0 .. Len(b) : d.body = [b EXCEPT ![i] = v]
      \/ \E n \in 0 .. Len(b) : d.body = SubSeq(b, 1, n)
      \/ \E v \in 0 .. 1 : d.body = b \o <<v>>
  <2>. DEFINE changed == {[b EXCEPT ![i] = v] : i \in DOMAIN b, v \in 0 .. Len(b)}
              cut == {SubSeq(b, 1, n) : n \in 0 .. Len(b)}
              ran == {b \o <<v>> : v \in 0 .. 1}
              bodies == {b} \union changed \union cut \union ran
  <2>1. d \in [magic : {blob.magic}, body : bodies] \union [magic : {"PLDU", "PLTR"}, body : {b}]
    BY DEF Damaged
  <2>. HIDE DEF bodies
  <2>2. d.body \in bodies \/ d.body = b
    BY <2>1
  <2>. HIDE DEF changed, cut, ran
  <2>3. d.body = b \/ d.body \in changed \/ d.body \in cut \/ d.body \in ran
    BY <2>2 DEF bodies
  <2>. DEFINE x == d.body
  <2>. HIDE DEF x, b
  <2>4. x \in changed => \E i \in DOMAIN b, v \in 0 .. Len(b) : x = [b EXCEPT ![i] = v]
    BY DEF changed
  <2>5. x \in cut => \E n \in 0 .. Len(b) : x = SubSeq(b, 1, n)
    BY DEF cut
  <2>6. x \in ran => \E v \in 0 .. 1 : x = b \o <<v>>
    BY DEF ran
  <2>. QED  BY <2>3, <2>4, <2>5, <2>6 DEF x
<1>. HIDE DEF b
<1>2. ASSUME NEW i \in DOMAIN b, NEW v \in 0 .. Len(b) PROVE [b EXCEPT ![i] = v] \in Seq(Nat)
  <2>1. v \in Nat /\ i \in 1 .. Len(b)
    BY <1>0, LenProperties
  <2>. QED  BY <1>0, <2>1, ExceptSeq
<1>3. ASSUME NEW n \in 0 .. Len(b) PROVE SubSeq(b, 1, n) \in Seq(Nat)
  <2>1. n \in Int /\ \A k \in 1 .. n : b[k] \in Nat
    BY <1>0, ElementOfSeq
  <2>. QED  BY <2>1, SubSeqProperties
<1>4. ASSUME NEW v \in 0 .. 1 PROVE b \o <<v>> \in Seq(Nat)
  <2>1. <<v>> \in Seq(Nat)
    OBVIOUS
  <2>. QED  BY <1>0, <2>1, ConcatProperties
<1>. QED  BY <1>0, <1>1, <1>2, <1>3, <1>4

(* So is a blob put together from the legs of others.                      *)
LEMMA ReassembledIsBytes ==
  ASSUME LogInv, NEW e, BlobOK(e), e.op # "leg", NEW d \in Reassembled(e)
  PROVE  d.body \in Seq(Nat)
<1>. DEFINE own == [i \in DOMAIN e.rs |-> e.rs[i].sig]
            legs == {own} \union {[own EXCEPT ![i] = r.sig] : i \in DOMAIN own, r \in log}
            dual == {[magic |-> "PLDU", body |-> DualBody(l[1], l[2])] : l \in legs}
            triple == {[magic |-> "PLTR", body |-> TripleBody(l[1], l[2], l[3])] : l \in legs}
<1>1. ASSUME NEW l \in legs, NEW i \in DOMAIN e.rs PROVE l[i] \in Seq(Nat)
  <2>1. own[i] \in Seq(Nat)
    BY DEF BlobOK
  <2>2. ASSUME NEW j \in DOMAIN own, NEW r \in log, l = [own EXCEPT ![j] = r.sig]
        PROVE  l[i] \in Seq(Nat)
    <3>1. r.sig \in Seq(Nat)
      BY DEF LogInv, LegOK
    <3>2. l[i] = IF i = j THEN r.sig ELSE own[i]
      BY <2>2
    <3>. QED  BY <2>1, <3>1, <3>2
  <2>3. l = own \/ \E j \in DOMAIN own, r \in log : l = [own EXCEPT ![j] = r.sig]
    <3>. HIDE DEF own
    <3>. QED  OBVIOUS
  <2>. HIDE DEF own
  <2>. QED  BY <2>1, <2>2, <2>3
<1>2. 1 \in DOMAIN e.rs /\ 2 \in DOMAIN e.rs /\ (e.op = "triple" => 3 \in DOMAIN e.rs)
  BY DEF BlobOK
<1>3. d \in dual \/ (e.op = "triple" /\ d \in triple)
  <2>1. d \in dual \union IF e.op = "triple" THEN triple ELSE {}
    BY DEF Reassembled
  <2>. HIDE DEF dual, triple
  <2>. QED  BY <2>1
<1>. HIDE DEF legs
<1>4. CASE d \in dual
  <2>1. PICK l \in legs : d = [magic |-> "PLDU", body |-> DualBody(l[1], l[2])]
    BY <1>4
  <2>. QED  BY <2>1, <1>1, <1>2, BodiesAreBytes
<1>5. CASE e.op = "triple" /\ d \in triple
  <2>1. PICK l \in legs : d = [magic |-> "PLTR", body |-> TripleBody(l[1], l[2], l[3])]
    BY <1>5
  <2>2. l[1] \in Seq(Nat) /\ l[2] \in Seq(Nat) /\ l[3] \in Seq(Nat)
    BY <1>1, <1>2, <1>5
  <2>. QED  BY <2>1, <2>2, BodiesAreBytes
<1>. QED  BY <1>3, <1>4, <1>5

(* Whatever a verifier is given is a row of numbers.                       *)
LEMMA GivenIsBytes ==
  ASSUME LogInv, NEW e, BlobOK(e), e.op # "leg", NEW g \in Given(e)
  PROVE  g.blob.body \in Seq(Nat)
<1>1. g.blob \in Damaged(e.blob) \/ g.blob \in Reassembled(e)
  BY DEF Given
<1>2. e.blob.body \in Seq(Nat)
  BY DEF BlobOK
<1>. QED  BY <1>1, <1>2, DamagedIsBytes, ReassembledIsBytes

(* What a leg accepts, its key signed, in this context.                    *)
LEMMA AcceptedIsSigned ==
  ASSUME LogInv, NEW s, NEW b, NEW c \in Contexts, NEW m \in Messages, NEW sig,
         Accepts(s, b, c, m, sig)
  PROVE  SigOf(s, b, c, m, sig) /\ SignedBy(s, b, c, m) /\ Len(c) <= MaxCtx /\ Usable(s, b, TRUE)
<1>1. PICK r \in log : /\ r.scheme = s /\ r.key = KeyOf(b) /\ r.data = Framed(c, m)
                       /\ r.sig = sig
  BY DEF Accepts
<1>2. r.ctx \in Contexts /\ r.msg \in Messages /\ Framed(r.ctx, r.msg) = Framed(c, m)
  BY <1>1 DEF LogInv, LegOK
<1>3. r.ctx = c /\ r.msg = m
  <2>. DEFINE d == r.ctx
              n == r.msg
  <2>1. d \in Seq(Nat) /\ n \in Seq(Nat) /\ c \in Seq(Nat) /\ m \in Seq(Nat)
        /\ Framed(d, n) = Framed(c, m)
    BY <1>2, HighAssuranceAssumption
  <2>. HIDE DEF d, n
  <2>2. d = c /\ n = m
    BY <2>1, FramedInjective
  <2>. QED  BY <2>2 DEF d, n
<1>4. Len(c) <= MaxCtx /\ Usable(s, b, TRUE)
  BY <1>1, <1>3 DEF LogInv, LegOK, Accepts
<1>. QED  BY <1>1, <1>3, <1>4 DEF SignedBy, SigOf

(* What a key signed in a context, it accepts there.                       *)
LEMMA SignedIsAccepted ==
  ASSUME LogInv, NEW s, NEW b, NEW c \in Contexts, NEW m, NEW sig,
         Usable(s, b, TRUE), Len(c) <= MaxCtx, SigOf(s, b, c, m, sig)
  PROVE  Accepts(s, b, c, m, sig)
<1>1. PICK r \in log : /\ r.scheme = s /\ r.key = KeyOf(b) /\ r.ctx = c /\ r.msg = m
                       /\ r.sig = sig
  BY DEF SigOf
<1>2. r.data = Framed(c, m)
  BY <1>1 DEF LogInv, LegOK
<1>3. ~CtxTooLong(c)
  <2>1. Len(c) \in Nat /\ MaxCtx \in Nat
    BY HighAssuranceAssumption, LenProperties
  <2>. QED  BY <2>1 DEF CtxTooLong
<1>. QED  BY <1>1, <1>2, <1>3 DEF Accepts

-----------------------------------------------------------------------------
(* The steps.                                                              *)

(* Where no verification has ended, the three properties hold.             *)
LEMMA NoVerdict == Idle => Verdicts
<1>. SUFFICES ASSUME Idle PROVE Verdicts
  OBVIOUS
<1>1. call.op \notin {"leg", "dual", "triple", "raised"}
  BY DEF Idle
<1>. QED  BY <1>1 DEF Verdicts, SignedInContext, EveryLegSigned, CanonicalBlob, Accepted

(* Returning well-formed legs keeps the invariant.                         *)
LEMMA PublishInv ==
  ASSUME IInv, Idle, NEW op, NEW rs, NEW privs, NEW blob, Publish(op, rs, privs, blob),
         op \in {"leg", "dual", "triple"}, blob.body \in Seq(Nat),
         op # "leg" => 1 \in DOMAIN rs /\ 2 \in DOMAIN rs,
         op = "triple" => 3 \in DOMAIN rs,
         \A i \in DOMAIN rs : LegOK(rs[i])
  PROVE  IInv'
<1>1. log' = log \union {rs[i] : i \in DOMAIN rs} /\ call' = call
  BY DEF Publish
<1>2. LogInv'
  BY <1>1 DEF IInv, LogInv, LegOK
<1>3. BlobsInv'
  <2>1. PICK pubs : blobs' = blobs \union {[op |-> op, blob |-> blob, rs |-> rs, pubs |-> pubs]}
    BY DEF Publish
  <2>2. BlobOK([op |-> op, blob |-> blob, rs |-> rs, pubs |-> pubs])
    BY DEF BlobOK, LegOK
  <2>. QED  BY <2>1, <2>2 DEF IInv, BlobsInv, BlobOK
<1>4. Verdicts'
  <2>1. Idle'
    BY <1>1 DEF Idle
  <2>2. call'.op \notin {"leg", "dual", "triple", "raised"}
    BY <2>1 DEF Idle
  <2>. QED  BY <2>2 DEF Verdicts, SignedInContext, EveryLegSigned, CanonicalBlob, Accepted
<1>. QED  BY <1>2, <1>3, <1>4 DEF IInv

(* The two contexts of the module are among those a caller may name.       *)
LEMMA ContextsOK ==
  /\ SIG_CTX \in Contexts /\ HA_CTX \in Contexts
  /\ Len(SIG_CTX) <= MaxCtx /\ Len(HA_CTX) <= MaxCtx
BY HighAssuranceAssumption

(* One signature keeps the invariant.                                      *)
LEMMA SignStep == ASSUME IInv, Sign PROVE IInv'
<1>1. PICK s \in Schemes, b \in Bundles, c \in Contexts, m \in Messages :
        /\ ~CtxTooLong(c)
        /\ Publish("leg", <<Signed(s, b, c, m)>>, <<b>>,
                   [magic |-> s, body |-> Signed(s, b, c, m).sig])
  BY DEF Sign, Signs
<1>. DEFINE r == Signed(s, b, c, m)
<1>2. LegOK(r) /\ r.sig \in Seq(Nat)
  <2>1. Len(c) \in Nat /\ MaxCtx \in Nat
    BY HighAssuranceAssumption, LenProperties
  <2>2. Len(c) <= MaxCtx
    BY <1>1, <2>1 DEF CtxTooLong
  <2>. QED  BY <2>2, SignedOK
<1>3. Idle
  BY DEF Sign, MaySign
<1>. HIDE DEF r
<1>4. \A i \in DOMAIN <<r>> : LegOK(<<r>>[i])
  BY <1>2
<1>5. [magic |-> s, body |-> r.sig].body \in Seq(Nat)
  BY <1>2
<1>. QED  BY <1>1, <1>3, <1>4, <1>5, PublishInv DEF r

(* Two legs keep it.                                                       *)
LEMMA DualStep == ASSUME IInv, DualSign PROVE IInv'
<1>1. PICK mb \in Bundles, hb \in Bundles, m \in Messages :
        LET ml == Signed("ML-DSA", mb, SIG_CTX, m)
            ha == Signed("SLH-DSA", hb, HA_CTX, m)
        IN  Publish("dual", <<ml, ha>>, <<mb, hb>>,
                    [magic |-> "PLDU", body |-> DualBody(ml.sig, ha.sig)])
  BY DEF DualSign
<1>. DEFINE ml == Signed("ML-DSA", mb, SIG_CTX, m)
            ha == Signed("SLH-DSA", hb, HA_CTX, m)
            body == DualBody(ml.sig, ha.sig)
<1>2. LegOK(ml) /\ LegOK(ha) /\ ml.sig \in Seq(Nat) /\ ha.sig \in Seq(Nat)
  BY SignedOK, ContextsOK DEF Schemes
<1>3. Idle
  BY DEF DualSign, MaySign
<1>. HIDE DEF ml, ha
<1>4. body \in Seq(Nat)
  BY <1>2, BodiesAreBytes
<1>. HIDE DEF body
<1>5. /\ \A i \in DOMAIN <<ml, ha>> : LegOK(<<ml, ha>>[i])
      /\ 1 \in DOMAIN <<ml, ha>> /\ 2 \in DOMAIN <<ml, ha>>
  BY <1>2
<1>6. [magic |-> "PLDU", body |-> body].body \in Seq(Nat)
  BY <1>4
<1>7. Publish("dual", <<ml, ha>>, <<mb, hb>>, [magic |-> "PLDU", body |-> body])
  BY <1>1 DEF ml, ha, body
<1>. QED  BY <1>3, <1>5, <1>6, <1>7, PublishInv

(* Three legs keep it.                                                     *)
LEMMA TripleStep == ASSUME IInv, TripleSign PROVE IInv'
<1>1. PICK mb \in Bundles, hb \in Bundles, eb \in Bundles, m \in Messages :
        LET ml == Signed("ML-DSA", mb, SIG_CTX, m)
            ha == Signed("SLH-DSA", hb, HA_CTX, m)
            ec == Signed("EdDSA", eb, HA_CTX, m)
        IN  Publish("triple", <<ml, ha, ec>>, <<mb, hb, eb>>,
                    [magic |-> "PLTR", body |-> TripleBody(ml.sig, ha.sig, ec.sig)])
  BY DEF TripleSign
<1>. DEFINE ml == Signed("ML-DSA", mb, SIG_CTX, m)
            ha == Signed("SLH-DSA", hb, HA_CTX, m)
            ec == Signed("EdDSA", eb, HA_CTX, m)
            body == TripleBody(ml.sig, ha.sig, ec.sig)
<1>2. /\ LegOK(ml) /\ LegOK(ha) /\ LegOK(ec)
      /\ ml.sig \in Seq(Nat) /\ ha.sig \in Seq(Nat) /\ ec.sig \in Seq(Nat)
  BY SignedOK, ContextsOK DEF Schemes
<1>3. Idle
  BY DEF TripleSign, MaySign
<1>. HIDE DEF ml, ha, ec
<1>4. body \in Seq(Nat)
  BY <1>2, BodiesAreBytes
<1>. HIDE DEF body
<1>5. /\ \A i \in DOMAIN <<ml, ha, ec>> : LegOK(<<ml, ha, ec>>[i])
      /\ 1 \in DOMAIN <<ml, ha, ec>> /\ 2 \in DOMAIN <<ml, ha, ec>>
      /\ 3 \in DOMAIN <<ml, ha, ec>>
  BY <1>2
<1>6. [magic |-> "PLTR", body |-> body].body \in Seq(Nat)
  BY <1>4
<1>7. Publish("triple", <<ml, ha, ec>>, <<mb, hb, eb>>, [magic |-> "PLTR", body |-> body])
  BY <1>1 DEF ml, ha, ec, body
<1>. QED  BY <1>3, <1>5, <1>6, <1>7, PublishInv

(* A verification leaves what was signed and returned alone.               *)
LEMMA VerifiedCall ==
  ASSUME NEW op, NEW s, NEW g, NEW c, NEW m, NEW verdict, Verified(op, s, g, c, m, verdict)
  PROVE  /\ log' = log /\ blobs' = blobs
         /\ call'.op = op /\ call'.scheme = s /\ call'.pubs = g.pubs /\ call'.ctx = c
         /\ call'.msg = m /\ call'.blob = g.blob
         /\ call'.verdict = verdict
<1>1. call' = [op |-> op, scheme |-> s, pubs |-> g.pubs, ctx |-> c, msg |-> m, blob |-> g.blob,
               verdict |-> verdict]
  BY DEF Verified
<1>2. call'.verdict = verdict
  BY <1>1
<1>3. /\ call'.op = op /\ call'.scheme = s /\ call'.pubs = g.pubs /\ call'.ctx = c
      /\ call'.msg = m /\ call'.blob = g.blob
  BY <1>1
<1>4. log' = log /\ blobs' = blobs
  BY DEF Verified
<1>. QED  BY <1>2, <1>3, <1>4

(* What is logged and returned stays well formed where it stays.           *)
LEMMA Unchanged ==
  ASSUME LogInv, BlobsInv, log' = log, blobs' = blobs
  PROVE  LogInv' /\ BlobsInv'
BY DEF LogInv, BlobsInv, LegOK, BlobOK

(* Verifying one signature keeps the invariant.                            *)
LEMMA VerifyStep == ASSUME IInv, Verify PROVE IInv'
<1>0. PICK e \in blobs, s \in Schemes, c \in Contexts, m \in Messages :
        \E ps \in Held(e) : Verified("leg", s, [blob |-> e.blob, pubs |-> ps], c, m,
                                     Accepts(s, ps[1], c, m, e.blob.body))
  BY DEF Verify
<1>1. PICK ps \in Held(e) : Verified("leg", s, [blob |-> e.blob, pubs |-> ps], c, m,
                                     Accepts(s, ps[1], c, m, e.blob.body))
  BY <1>0
<1>. DEFINE g == [blob |-> e.blob, pubs |-> ps]
<1>2. /\ log' = log /\ blobs' = blobs /\ call'.op = "leg" /\ call'.scheme = s
      /\ call'.pubs = g.pubs /\ call'.ctx = c /\ call'.msg = m
      /\ call'.verdict = Accepts(s, ps[1], c, m, e.blob.body)
      /\ call'.blob = e.blob
  <2>. HIDE DEF g
  <2>1. Verified("leg", s, g, c, m, Accepts(s, ps[1], c, m, e.blob.body))
    BY <1>1 DEF g
  <2>2. g.blob = e.blob
    BY DEF g
  <2>. QED  BY <2>1, <2>2, VerifiedCall
<1>3. LogInv' /\ BlobsInv'
  BY <1>2, Unchanged DEF IInv
<1>4. call'.verdict <=> /\ Usable(s, ps[1], TRUE) /\ Len(c) <= MaxCtx
                        /\ SigOf(s, ps[1], c, m, e.blob.body)
  <2>1. Accepts(s, ps[1], c, m, e.blob.body) =>
          /\ Usable(s, ps[1], TRUE) /\ Len(c) <= MaxCtx
          /\ SigOf(s, ps[1], c, m, e.blob.body)
    BY AcceptedIsSigned DEF IInv
  <2>2. /\ Usable(s, ps[1], TRUE) /\ Len(c) <= MaxCtx /\ SigOf(s, ps[1], c, m, e.blob.body)
        => Accepts(s, ps[1], c, m, e.blob.body)
    BY SignedIsAccepted DEF IInv
  <2>. QED  BY <1>2, <2>1, <2>2, Zenon
<1>5. SignedInContext'
  <2>1. call'.pubs[1] = ps[1]
    BY <1>2
  <2>2. \A x, y, z, u, v : SigOf(x, y, z, u, v)' <=> SigOf(x, y, z, u, v)
    BY <1>2, Zenon DEF SigOf
  <2>. QED  BY <1>2, <1>4, <2>1, <2>2 DEF SignedInContext, Accepted
<1>6. EveryLegSigned' /\ CanonicalBlob'
  BY <1>2 DEF EveryLegSigned, CanonicalBlob, Accepted
<1>. QED  BY <1>3, <1>5, <1>6 DEF IInv, Verdicts

(* A signing call that raises was given a key of another kind, or too long *)
(* a context.                                                              *)
LEMMA RaiseStep == ASSUME IInv, SignRaises PROVE IInv'
<1>1. PICK s \in Schemes, b \in Bundles, c \in Contexts :
        /\ ~Signs(s, b, c)
        /\ call' = [op |-> "raised", scheme |-> s, priv |-> b, ctx |-> c]
        /\ log' = log /\ blobs' = blobs
  BY DEF SignRaises
<1>2. LogInv' /\ BlobsInv'
  BY <1>1, Unchanged DEF IInv
<1>3. SignedInContext'
  BY <1>1 DEF SignedInContext, Signs, CtxTooLong
<1>4. EveryLegSigned' /\ CanonicalBlob'
  BY <1>1 DEF EveryLegSigned, CanonicalBlob, Accepted
<1>. QED  BY <1>2, <1>3, <1>4 DEF IInv, Verdicts

(* It says yes to two legs only when both have signed.                     *)
LEMMA DualVerifyStep == ASSUME IInv, DualVerify PROVE IInv'
<1>0. PICK e \in blobs, m \in Messages :
        /\ e.op # "leg"
        /\ \E g \in Given(e) :
             Verified("dual", "none", g, HA_CTX, m, DualAccepts(g.pubs, m, g.blob))
  BY DEF DualVerify
<1>1. PICK g \in Given(e) : Verified("dual", "none", g, HA_CTX, m, DualAccepts(g.pubs, m, g.blob))
  BY <1>0
<1>2. /\ log' = log /\ blobs' = blobs /\ call'.op = "dual" /\ call'.pubs = g.pubs
      /\ call'.msg = m /\ call'.blob = g.blob
      /\ call'.verdict => DualAccepts(g.pubs, m, g.blob)
  BY <1>1, VerifiedCall
<1>3. LogInv' /\ BlobsInv'
  BY <1>2, Unchanged DEF IInv
<1>4. g.blob.body \in Seq(Nat)
  BY <1>0, <1>1, GivenIsBytes DEF IInv, BlobsInv
<1>5. ASSUME call'.verdict
      PROVE  /\ SignedBy("ML-DSA", g.pubs[1], SIG_CTX, m)
             /\ SignedBy("SLH-DSA", g.pubs[2], HA_CTX, m)
             /\ LET l == ReadDual(g.blob.body).legs IN g.blob.body = DualBody(l[1], l[2])
  <2>1. PICK x, y : /\ Whole(g.blob.body, ReadDual(g.blob.body))
                    /\ Accepts("ML-DSA", g.pubs[1], SIG_CTX, m, x)
                    /\ Accepts("SLH-DSA", g.pubs[2], HA_CTX, m, y)
    BY <1>2, <1>5 DEF DualAccepts
  <2>2. SignedBy("ML-DSA", g.pubs[1], SIG_CTX, m) /\ SignedBy("SLH-DSA", g.pubs[2], HA_CTX, m)
    BY <2>1, AcceptedIsSigned, ContextsOK DEF IInv
  <2>3. LET l == ReadDual(g.blob.body).legs IN g.blob.body = DualBody(l[1], l[2])
    BY <1>4, <2>1, DualWhole
  <2>. QED  BY <2>2, <2>3
<1>6. EveryLegSigned'
  BY <1>2, <1>5 DEF EveryLegSigned, Accepted, SignedBy
<1>7. CanonicalBlob'
  <2>1. call'.verdict => LET l == ReadDual(call'.blob.body).legs
                         IN  call'.blob.body = DualBody(l[1], l[2])
    BY <1>2, <1>5
  <2>. QED  BY <1>2, <2>1 DEF CanonicalBlob, Accepted
<1>8. SignedInContext'
  BY <1>2 DEF SignedInContext, Accepted
<1>. QED  BY <1>3, <1>6, <1>7, <1>8 DEF IInv, Verdicts

(* It says yes to three legs only when all have signed.                    *)
LEMMA TripleVerifyStep == ASSUME IInv, TripleVerify PROVE IInv'
<1>0. PICK e \in blobs, m \in Messages :
        /\ e.op = "triple"
        /\ \E g \in Given(e) :
             Verified("triple", "none", g, HA_CTX, m, TripleAccepts(g.pubs, m, g.blob))
  BY DEF TripleVerify
<1>1. PICK g \in Given(e) :
        Verified("triple", "none", g, HA_CTX, m, TripleAccepts(g.pubs, m, g.blob))
  BY <1>0
<1>2. /\ log' = log /\ blobs' = blobs /\ call'.op = "triple" /\ call'.pubs = g.pubs
      /\ call'.msg = m /\ call'.blob = g.blob
      /\ call'.verdict => TripleAccepts(g.pubs, m, g.blob)
  BY <1>1, VerifiedCall
<1>3. LogInv' /\ BlobsInv'
  BY <1>2, Unchanged DEF IInv
<1>4. g.blob.body \in Seq(Nat)
  BY <1>0, <1>1, GivenIsBytes DEF IInv, BlobsInv
<1>5. ASSUME call'.verdict
      PROVE  /\ SignedBy("ML-DSA", g.pubs[1], SIG_CTX, m)
             /\ SignedBy("SLH-DSA", g.pubs[2], HA_CTX, m)
             /\ SignedBy("EdDSA", g.pubs[3], HA_CTX, m)
             /\ LET l == ReadTriple(g.blob.body).legs
                IN  g.blob.body = TripleBody(l[1], l[2], l[3])
  <2>1. PICK x, y, z : /\ Whole(g.blob.body, ReadTriple(g.blob.body))
                       /\ Accepts("ML-DSA", g.pubs[1], SIG_CTX, m, x)
                       /\ Accepts("SLH-DSA", g.pubs[2], HA_CTX, m, y)
                       /\ Accepts("EdDSA", g.pubs[3], HA_CTX, m, z)
    BY <1>2, <1>5 DEF TripleAccepts
  <2>2. /\ SignedBy("ML-DSA", g.pubs[1], SIG_CTX, m) /\ SignedBy("SLH-DSA", g.pubs[2], HA_CTX, m)
        /\ SignedBy("EdDSA", g.pubs[3], HA_CTX, m)
    BY <2>1, AcceptedIsSigned, ContextsOK DEF IInv
  <2>3. LET l == ReadTriple(g.blob.body).legs IN g.blob.body = TripleBody(l[1], l[2], l[3])
    BY <1>4, <2>1, TripleWhole
  <2>. QED  BY <2>2, <2>3
<1>6. EveryLegSigned'
  BY <1>2, <1>5 DEF EveryLegSigned, Accepted, SignedBy
<1>7. CanonicalBlob'
  <2>1. call'.verdict => LET l == ReadTriple(call'.blob.body).legs
                         IN  call'.blob.body = TripleBody(l[1], l[2], l[3])
    BY <1>2, <1>5
  <2>. QED  BY <1>2, <2>1 DEF CanonicalBlob, Accepted
<1>8. SignedInContext'
  BY <1>2 DEF SignedInContext, Accepted
<1>. QED  BY <1>3, <1>6, <1>7, <1>8 DEF IInv, Verdicts

-----------------------------------------------------------------------------
(* The theorems.                                                           *)

(* The invariant holds initially.                                          *)
LEMMA Initial == Init => IInv
<1>. SUFFICES ASSUME Init PROVE IInv
  OBVIOUS
<1>1. Idle /\ log = {} /\ blobs = {}
  BY DEF Init, Idle
<1>. QED  BY <1>1, NoVerdict DEF IInv, LogInv, BlobsInv

(* Every call preserves it.                                                *)
LEMMA Inductive == IInv /\ [Next]_vars => IInv'
<1>. SUFFICES ASSUME IInv, [Next]_vars PROVE IInv'
  OBVIOUS
<1>1. CASE Return
  <2>1. log' = log /\ blobs' = blobs /\ call' = [op |-> "none"]
    BY <1>1 DEF Return
  <2>2. LogInv' /\ BlobsInv'
    BY <2>1, Unchanged DEF IInv
  <2>3. call'.op \notin {"leg", "dual", "triple", "raised"}
    BY <2>1
  <2>4. Verdicts'
    BY <2>3 DEF Verdicts, SignedInContext, EveryLegSigned, CanonicalBlob, Accepted
  <2>. QED  BY <2>2, <2>4 DEF IInv
<1>2. CASE UNCHANGED vars
  <2>1. log' = log /\ blobs' = blobs /\ call' = call
    BY <1>2 DEF vars
  <2>2. LogInv' /\ BlobsInv'
    BY <2>1, Unchanged DEF IInv
  <2>3. Verdicts'
    BY <2>1 DEF IInv, Verdicts, SignedInContext, EveryLegSigned, CanonicalBlob, Accepted,
                SignedBy, SigOf
  <2>. QED  BY <2>2, <2>3 DEF IInv
<1>. QED
  BY <1>1, <1>2, SignStep, RaiseStep, DualStep, TripleStep, VerifyStep, DualVerifyStep,
     TripleVerifyStep
     DEF Next

(* It holds throughout.                                                    *)
LEMMA Invariance == Spec => []IInv
BY Initial, Inductive, PTL DEF Spec

(* A signature is accepted exactly if that key made it for that context    *)
(* and that message, whatever their bytes: the length in front of the      *)
(* context keeps two pairs from framing alike; and signing with a usable   *)
(* key raises only past the limit of a context (highassurance.py:69-79).   *)
THEOREM ContextBinding == Spec => []SignedInContext
<1>1. IInv => SignedInContext
  BY DEF IInv, Verdicts
<1>. QED  BY <1>1, Invariance, PTL

(* Every leg of an accepted dual or triple signature is its own key's      *)
(* signature of this message, however the blob was put together or damaged *)
(* (highassurance.py:107-123, 204-231).                                    *)
THEOREM StrongestLeg == Spec => []EveryLegSigned
<1>1. IInv => EveryLegSigned
  BY DEF IInv, Verdicts
<1>. QED  BY <1>1, Invariance, PTL

(* An accepted blob is what the writer makes of the legs read from it: no  *)
(* second encoding of a signature is accepted, for bodies of any length    *)
(* (highassurance.py:113-119, 218-226).                                    *)
THEOREM OneEncoding == Spec => []CanonicalBlob
<1>1. IInv => CanonicalBlob
  BY DEF IInv, Verdicts
<1>. QED  BY <1>1, Invariance, PTL
=============================================================================
