-------------------------- MODULE KeyBundle_proofs --------------------------
(***************************************************************************)
(* Theorems about KeyBundle, for every base, every key material and every  *)
(* damage to the bytes.                                                    *)
(***************************************************************************)
EXTENDS KeyBundle, Parsing_proofs

FieldLists == Seq(Seq(Byte))

(* The parts of the inductive invariant.  What has been written: two or    *)
(* three fields that fit, their bytes, and the key-id of the public parts. *)
WrittenWell(e) ==
  /\ e.kind \in {"key", "block"}
  /\ e.fields \in FieldLists /\ Len(e.fields) \in {2, 3}
  /\ \A i \in 1..Len(e.fields) : ~TooLong(e.fields[i])
  /\ e.bytes = Tlvs(e.fields)
  /\ e.head.suite \in SuiteNames /\ e.head.role \in Roles
  /\ e.head = FixedHead(e.head.suite, e.head.role)
  /\ e.kind = "block" => Len(e.fields) = 3
  /\ e.kind = "key" /\ e.head.role = SigPub => Len(e.fields) = 2
  /\ e.kind = "key" /\ e.head.role \in PublicRoles =>
       e.fields[1] = Shake(e.head.role, e.head.suite, FlattenSeq(Tail(e.fields)))

WriteInv == /\ \A e \in made : WrittenWell(e)
            /\ \A fs \in refused : Len(Tlvs(fs)) > MaxLen

(* What has been read: the bytes up to the offset are the fields so far.   *)
ReadInv ==
  /\ fields \in Seq([at : Nat, val : Seq(Byte)])
  /\ off \in 0..Len(buf)
  /\ SubSeq(buf, 1, off) = Tlvs(Values)

(* Where the parser is, and what it has made sure of by then.              *)
StageInv ==
  /\ pc = "head" => off = 0 /\ fields = <<>>
  /\ pc \in {"field", "check", "accepted"} /\ orig.kind = "key" =>
       head.magic = "VRSK" /\ head.version = 2
  /\ pc = "field" => IF orig.kind = "key" THEN fields = <<>> \/ off < Len(buf)
                     ELSE Len(fields) < 3
  /\ pc \in {"check", "accepted"} =>
       IF orig.kind = "key" THEN off = Len(buf) /\ Len(fields) > 0
       ELSE Len(fields) = 3
  /\ pc = "accepted" => IF orig.kind = "key" THEN KidHolds ELSE UsedUp

(* The bytes as they were written, asked for what they are.                *)
Faithful == /\ buf = orig.bytes /\ head = orig.head
            /\ orig.kind = "key" => expect = head.role

(* They are read back field by field and not refused.                      *)
FaithfulInv ==
  /\ pc # "failed"
  /\ Len(fields) <= Len(orig.fields)
  /\ \A i \in 1..Len(fields) : fields[i].val = orig.fields[i]
  /\ pc \in {"check", "accepted"} => Len(fields) = Len(orig.fields)

(* A head, damaged or not, has the four parts.                             *)
HeadWell(h) ==
  /\ h = [magic |-> h.magic, version |-> h.version, suite |-> h.suite, role |-> h.role]
  /\ h.suite \in SuiteNames

ParseInv ==
  pc # "idle" =>
    /\ pc \in {"head", "field", "check", "accepted", "failed"}
    /\ orig \in made
    /\ HeadWell(head)
    /\ buf \in Seq(Byte)
    /\ ReadInv /\ StageInv
    /\ Faithful => FaithfulInv

BundleInv == WriteInv /\ ParseInv

-----------------------------------------------------------------------------
(* A length and its two digits.                                            *)

(* Quotient and remainder.                                                 *)
LEMMA DivParts ==
  ASSUME NEW B \in Nat \ {0}, NEW n \in Nat
  PROVE  /\ n \div B \in Nat /\ n % B \in 0..B-1
         /\ n = B * (n \div B) + (n % B)
OBVIOUS

(* Two digits are those of the number they make.                           *)
LEMMA DivUnique ==
  ASSUME NEW B \in Nat \ {0}, NEW a \in Nat, NEW b \in 0..B-1
  PROVE  (a * B + b) \div B = a /\ (a * B + b) % B = b
<1>. DEFINE n == a * B + b
            q == n \div B
            r == n % B
<1>1. n \in Nat /\ q \in Nat /\ r \in 0..B-1 /\ n = B * q + r
  BY DivParts
<1>2. n = a * B + b
  OBVIOUS
<1>. HIDE DEF n, q, r
<1>3. CASE q > a
  <2>1. q = a + 1 + (q - a - 1) /\ q - a - 1 \in Nat
    BY <1>1, <1>3
  <2>2. B * q = B * a + B + B * (q - a - 1) /\ B * (q - a - 1) >= 0
    BY <2>1
  <2>. QED  BY <1>1, <1>2, <2>2
<1>4. CASE q < a
  <2>1. a = q + 1 + (a - q - 1) /\ a - q - 1 \in Nat
    BY <1>1, <1>4
  <2>2. B * a = B * q + B + B * (a - q - 1) /\ B * (a - q - 1) >= 0
    BY <1>1, <2>1
  <2>. QED  BY <1>1, <1>2, <2>2
<1>5. q = a /\ r = b
  BY <1>1, <1>2, <1>3, <1>4
<1>. QED  BY <1>5 DEF n, q, r

(* A length that fits has two digits that are byte values.                 *)
LEMMA TwoDigits ==
  ASSUME NEW n \in Nat, n <= MaxLen
  PROVE  n \div Base \in Byte /\ n % Base \in Byte
<1>. DEFINE q == n \div Base
            r == n % Base
<1>1. Base \in Nat \ {0} /\ n <= Base * Base - 1
  BY KeyBundleAssumption DEF MaxLen
<1>2. q \in Nat /\ r \in 0..Base-1 /\ n = Base * q + r
  BY <1>1, DivParts
<1>. HIDE DEF q, r
<1>3. CASE q >= Base
  <2>1. q = Base + (q - Base) /\ q - Base \in Nat
    BY <1>1, <1>2, <1>3
  <2>2. Base * q = Base * Base + Base * (q - Base) /\ Base * (q - Base) >= 0
    BY <1>1, <2>1
  <2>. QED  BY <1>1, <1>2, <2>2
<1>4. q < Base
  BY <1>1, <1>2, <1>3
<1>5. q \in 0..Base-1 /\ r \in 0..Base-1
  BY <1>1, <1>2, <1>4
<1>. QED  BY <1>5 DEF q, r, Byte

-----------------------------------------------------------------------------
(* One field, and a row of fields, in bytes.                               *)

(* The bytes of one field: two digits, and the value.                      *)
LEMMA TlvShape ==
  ASSUME NEW b \in Seq(Byte)
  PROVE  /\ Tlv(b) \in Seq(Nat) /\ Len(Tlv(b)) = Len(b) + 2
         /\ Tlv(b)[1] = Len(b) \div Base /\ Tlv(b)[2] = Len(b) % Base
         /\ \A i \in 1..Len(b) : Tlv(b)[i + 2] = b[i]
         /\ ~TooLong(b) => Tlv(b) \in Seq(Byte)
<1>. DEFINE d == <<Len(b) \div Base, Len(b) % Base>>
<1>1. Len(b) \in Nat /\ Len(b) \div Base \in Nat /\ Len(b) % Base \in Nat
  <2>. DEFINE n == Len(b)
  <2>1. n \in Nat /\ Base \in Nat \ {0}
    BY KeyBundleAssumption
  <2>2. n % Base \in 0..Base-1 => n % Base \in Nat
    BY <2>1
  <2>. HIDE DEF n
  <2>3. n \div Base \in Nat /\ n % Base \in 0..Base-1
    BY <2>1, DivParts
  <2>. QED  BY <2>1, <2>2, <2>3 DEF n
<1>2. d \in Seq(Nat) /\ Len(d) = 2 /\ d[1] = Len(b) \div Base /\ d[2] = Len(b) % Base
  BY <1>1
<1>3. b \in Seq(Nat)
  <2>1. Byte \subseteq Nat
    BY DEF Byte
  <2>. QED  BY <2>1, SeqMonotonic
<1>4. Tlv(b) = d \o b
  BY DEF Tlv
<1>5. ~TooLong(b) => d \in Seq(Byte)
  <2>. SUFFICES ASSUME ~TooLong(b) PROVE d \in Seq(Byte)
    OBVIOUS
  <2>1. Len(b) <= MaxLen
    <3>1. MaxLen \in Int
      BY KeyBundleAssumption DEF MaxLen
    <3>. QED  BY <1>1, <3>1 DEF TooLong
  <2>2. Len(b) \div Base \in Byte /\ Len(b) % Base \in Byte
    BY <1>1, <2>1, TwoDigits
  <2>. QED  BY <2>2
<1>. HIDE DEF d
<1>6. /\ d \o b \in Seq(Nat) /\ Len(d \o b) = 2 + Len(b)
      /\ \A i \in 1..2 : (d \o b)[i] = d[i]
      /\ \A i \in 1..Len(b) : (d \o b)[2 + i] = b[i]
  <2>1. /\ d \o b \in Seq(Nat) /\ Len(d \o b) = Len(d) + Len(b)
        /\ \A i \in 1..Len(d) : (d \o b)[i] = d[i]
        /\ \A i \in 1..Len(b) : (d \o b)[Len(d) + i] = b[i]
    <3>1. d \in Seq(Nat)
      BY <1>2
    <3>. QED  BY <1>3, <3>1, ConcatProperties
  <2>. QED  BY <1>2, <2>1
<1>7. ~TooLong(b) => d \o b \in Seq(Byte)
  BY <1>5, ConcatProperties
<1>8. \A i \in 1..Len(b) : 2 + i = i + 2
  BY <1>1
<1>. QED  BY <1>1, <1>2, <1>4, <1>6, <1>7, <1>8

(* No fields, no bytes.                                                    *)
LEMMA TlvsEmpty == Tlvs(<<>>) = <<>>
<1>1. [i \in DOMAIN <<>> |-> Tlv(<<>>[i])] = <<>>
  OBVIOUS
<1>. QED  BY <1>1, FlattenEmpty DEF Tlvs

(* One field more adds its bytes.                                          *)
LEMMA TlvsAppend ==
  ASSUME NEW fs \in FieldLists, NEW b \in Seq(Byte)
  PROVE  Tlvs(Append(fs, b)) = Tlvs(fs) \o Tlv(b)
<1>. DEFINE p == [i \in DOMAIN fs |-> Tlv(fs[i])]
            q == [i \in DOMAIN Append(fs, b) |-> Tlv(Append(fs, b)[i])]
<1>1. \A i \in 1..Len(fs) : Tlv(fs[i]) \in Seq(Nat)
  BY TlvShape DEF FieldLists
<1>2. p \in Seq(Seq(Nat))
  <2>1. DOMAIN fs = 1..Len(fs) /\ Len(fs) \in Nat
    BY DEF FieldLists
  <2>2. p \in [1..Len(fs) -> Seq(Nat)]
    BY <1>1, <2>1
  <2>. HIDE DEF p
  <2>. QED  BY <2>1, <2>2, SeqDef
<1>3. q = Append(p, Tlv(b))
  BY DEF FieldLists
<1>4. Tlv(b) \in Seq(Nat)
  BY TlvShape
<1>. HIDE DEF p, q
<1>5. FlattenSeq(q) = FlattenSeq(p) \o Tlv(b)
  BY <1>2, <1>3, <1>4, FlattenAppend
<1>. QED  BY <1>5 DEF p, q, Tlvs

(* Fields that fit make bytes.                                             *)
LEMMA TlvsType ==
  ASSUME NEW fs \in FieldLists
  PROVE  /\ Tlvs(fs) \in Seq(Nat)
         /\ (\A i \in 1..Len(fs) : ~TooLong(fs[i])) => Tlvs(fs) \in Seq(Byte)
<1>. DEFINE p == [i \in DOMAIN fs |-> Tlv(fs[i])]
<1>1. \A i \in 1..Len(fs) :
        Tlv(fs[i]) \in Seq(Nat) /\ (~TooLong(fs[i]) => Tlv(fs[i]) \in Seq(Byte))
  BY TlvShape DEF FieldLists
<1>2. /\ p \in Seq(Seq(Nat))
      /\ (\A i \in 1..Len(fs) : ~TooLong(fs[i])) => p \in Seq(Seq(Byte))
  <2>1. DOMAIN fs = 1..Len(fs) /\ Len(fs) \in Nat
    BY DEF FieldLists
  <2>2. p \in [1..Len(fs) -> Seq(Nat)]
    BY <1>1, <2>1
  <2>3. (\A i \in 1..Len(fs) : ~TooLong(fs[i])) => p \in [1..Len(fs) -> Seq(Byte)]
    BY <1>1, <2>1
  <2>. HIDE DEF p
  <2>4. p \in Seq(Seq(Nat))
    BY <2>1, <2>2, SeqDef
  <2>5. p \in [1..Len(fs) -> Seq(Byte)] => p \in Seq(Seq(Byte))
    BY <2>1, SeqDef
  <2>. QED  BY <2>3, <2>4, <2>5
<1>. HIDE DEF p
<1>4. FlattenSeq(p) \in Seq(Nat)
  BY <1>2, FlattenType
<1>5. p \in Seq(Seq(Byte)) => FlattenSeq(p) \in Seq(Byte)
  BY FlattenType
<1>. QED  BY <1>2, <1>4, <1>5 DEF p, Tlvs

(* A window of a sequence.                                                 *)
LEMMA Window ==
  ASSUME NEW S, NEW q \in Seq(S), NEW o \in Nat, NEW n \in Nat, o + n <= Len(q)
  PROVE  /\ SubSeq(q, o + 1, o + n) \in Seq(S)
         /\ Len(SubSeq(q, o + 1, o + n)) = n
         /\ \A i \in 1..n : SubSeq(q, o + 1, o + n)[i] = q[o + i]
<1>. DEFINE w == SubSeq(q, o + 1, o + n)
<1>1. Len(q) \in Nat
  OBVIOUS
<1>2. Len(w) = n
  BY <1>1
<1>3. \A i \in 1..n : w[i] = q[o + i]
  BY <1>1
<1>4. w \in Seq(S)
  BY <1>1
<1>. QED  BY <1>2, <1>3, <1>4

(* The field after the first n of them, somewhere in the bytes of all.     *)
LEMMA TlvsFrom ==
  ASSUME NEW fs \in FieldLists, NEW n \in Nat, n < Len(fs)
  PROVE  \E r \in Seq(Nat) :
           Tlvs(fs) = (Tlvs(SubSeq(fs, 1, n)) \o Tlv(fs[n + 1])) \o r
<1>. DEFINE N == Len(fs)
            A(m) == Tlvs(SubSeq(fs, 1, m))
            T == {m \in (n + 1)..N : ~\E r \in Seq(Nat) : A(m) = A(n + 1) \o r}
<1>1. N \in Nat /\ n + 1 \in 1..N /\ N \in (n + 1)..N
  BY DEF FieldLists
<1>2. ASSUME NEW m \in Nat, m < N PROVE A(m + 1) = A(m) \o Tlv(fs[m + 1])
  <2>. DEFINE p == SubSeq(fs, 1, m)
  <2>1. p \in FieldLists /\ fs[m + 1] \in Seq(Byte)
        /\ SubSeq(fs, 1, m + 1) = Append(p, fs[m + 1])
    BY <1>2 DEF FieldLists
  <2>. HIDE DEF p
  <2>2. Tlvs(Append(p, fs[m + 1])) = Tlvs(p) \o Tlv(fs[m + 1])
    BY <2>1, TlvsAppend
  <2>. QED  BY <2>1, <2>2 DEF p
<1>3. \A m \in 0..N : A(m) \in Seq(Nat)
  <2>. SUFFICES ASSUME NEW m \in 0..N PROVE A(m) \in Seq(Nat)
    OBVIOUS
  <2>1. SubSeq(fs, 1, m) \in FieldLists
    BY <1>1 DEF FieldLists
  <2>. QED  BY <2>1, TlvsType
<1>4. \A m \in 1..N : Tlv(fs[m]) \in Seq(Nat)
  <2>1. \A m \in 1..N : fs[m] \in Seq(Byte)
    BY DEF FieldLists
  <2>. HIDE DEF N
  <2>. QED  BY <2>1, TlvShape
<1>5. A(N) = Tlvs(fs)
  <2>1. SubSeq(fs, 1, N) = fs
    BY DEF FieldLists
  <2>. QED  BY <2>1
<1>6. T = {}
  <2>. SUFFICES ASSUME T # {} PROVE FALSE
    OBVIOUS
  <2>1. T \subseteq Nat
    BY <1>1
  <2>2. PICK m \in T : \A k \in T : m <= k
    <3>. HIDE DEF T
    <3>. QED  BY <2>1, Least
  <2>3. m \in (n + 1)..N /\ m \in Nat /\ ~\E r \in Seq(Nat) : A(m) = A(n + 1) \o r
    <3>. HIDE DEF A, N
    <3>1. m \in (n + 1)..N /\ ~\E r \in Seq(Nat) : A(m) = A(n + 1) \o r
      BY <2>2
    <3>2. (n + 1)..N \subseteq Nat
      BY <1>1
    <3>. QED  BY <3>1, <3>2, Zenon
  <2>4. m # n + 1
    <3>1. A(n + 1) \in Seq(Nat)
      <4>. HIDE DEF A
      <4>. QED  BY <1>1, <1>3
    <3>. DEFINE a == A(n + 1)
    <3>2. a \o <<>> = a
      <4>. HIDE DEF a
      <4>. QED  BY <3>1 DEF a
    <3>3. <<>> \in Seq(Nat)
      OBVIOUS
    <3>. HIDE DEF A
    <3>. QED  BY <2>3, <3>2, <3>3
  <2>5. m - 1 \in (n + 1)..N /\ m - 1 \notin T /\ m - 1 \in Nat /\ m - 1 < N
        /\ (m - 1) + 1 = m
    <3>1. m - 1 \in (n + 1)..N /\ ~(m <= m - 1) /\ m - 1 \in Nat /\ m - 1 < N
          /\ (m - 1) + 1 = m
      BY <1>1, <2>3, <2>4
    <3>. HIDE DEF T
    <3>. QED  BY <2>2, <3>1
  <2>6. PICK r \in Seq(Nat) : A(m - 1) = A(n + 1) \o r
    <3>. HIDE DEF A
    <3>. QED  BY <2>5
  <2>. DEFINE x == Tlv(fs[m])
              a == A(n + 1)
  <2>7. A(m) = A(m - 1) \o x
    <3>. DEFINE k == m - 1
    <3>1. k \in Nat /\ k < N /\ k + 1 = m
      BY <2>5
    <3>. HIDE DEF k, A
    <3>2. A(k + 1) = A(k) \o Tlv(fs[k + 1])
      BY <1>2, <3>1
    <3>. QED  BY <3>1, <3>2 DEF k
  <2>8. x \in Seq(Nat) /\ a \in Seq(Nat)
    <3>1. m \in 1..N /\ n + 1 \in 0..N
      BY <1>1, <2>3
    <3>. HIDE DEF A
    <3>. QED  BY <1>3, <1>4, <3>1
  <2>. HIDE DEF x, a
  <2>9. (a \o r) \o x = a \o (r \o x) /\ r \o x \in Seq(Nat)
    <3>1. r \o x \in Seq(Nat)
      BY <2>8, ConcatProperties
    <3>2. (a \o r) \o x = a \o (r \o x)
      <4>1. a \in Seq(Nat) /\ r \in Seq(Nat) /\ x \in Seq(Nat)
        BY <2>6, <2>8
      <4>. QED  BY <4>1, ConcatAssociative
    <3>. QED  BY <3>1, <3>2
  <2>10. A(m) = a \o (r \o x)
    <3>. HIDE DEF A
    <3>. QED  BY <2>6, <2>7, <2>9 DEF a
  <2>. HIDE DEF A
  <2>. QED  BY <2>3, <2>9, <2>10 DEF a
<1>7. PICK r \in Seq(Nat) : A(N) = A(n + 1) \o r
  <2>. HIDE DEF A
  <2>. QED  BY <1>1, <1>6
<1>8. A(n + 1) = A(n) \o Tlv(fs[n + 1])
  <2>. HIDE DEF A
  <2>. QED  BY <1>1, <1>2
<1>. QED  BY <1>5, <1>7, <1>8

(* A parser that stands at o finds v there, whole.                         *)
FoundAt(q, o, v) ==
  /\ o \in Nat /\ Len(q) \in Nat
  /\ o + 2 + Len(v) <= Len(q) /\ Len(v) \in Nat
  /\ q[o + 1] * Base + q[o + 2] = Len(v)
  /\ SubSeq(q, o + 3, o + 2 + Len(v)) = v

(* Where a parser stands after the first n fields, it finds the next one.  *)
LEMMA NextField ==
  ASSUME NEW fs \in FieldLists, NEW n \in Nat, n < Len(fs),
         NEW o, o = Len(Tlvs(SubSeq(fs, 1, n))),
         NEW q, q = Tlvs(fs), NEW v, v = fs[n + 1]
  PROVE  FoundAt(q, o, v)
<1>1. v \in Seq(Byte) /\ SubSeq(fs, 1, n) \in FieldLists
  BY DEF FieldLists
<1>. DEFINE p == Tlvs(SubSeq(fs, 1, n))
            x == Tlv(v)
<1>2. PICK r \in Seq(Nat) : q = (p \o x) \o r
  BY TlvsFrom
<1>3. p \in Seq(Nat) /\ Len(p) = o
  BY <1>1, TlvsType
<1>4. /\ x \in Seq(Nat) /\ Len(x) = Len(v) + 2
      /\ x[1] = Len(v) \div Base /\ x[2] = Len(v) % Base
      /\ \A i \in 1..Len(v) : x[i + 2] = v[i]
  BY <1>1, TlvShape
<1>5. Len(v) \in Nat
  BY <1>1
<1>. HIDE DEF p, x
<1>6. /\ q \in Seq(Nat) /\ Len(q) = Len(p) + Len(x) + Len(r)
      /\ \A i \in 1..Len(x) : q[Len(p) + i] = x[i]
      /\ Len(p) \in Nat /\ Len(x) \in Nat /\ Len(r) \in Nat
  <2>. DEFINE y == p \o x
  <2>1. /\ y \in Seq(Nat) /\ Len(y) = Len(p) + Len(x)
        /\ \A i \in 1..Len(p) + Len(x) : y[i] = IF i <= Len(p) THEN p[i] ELSE x[i - Len(p)]
    BY <1>3, <1>4, ConcatProperties
  <2>2. Len(p) \in Nat /\ Len(x) \in Nat /\ Len(r) \in Nat
    BY <1>3, <1>4
  <2>. HIDE DEF y
  <2>3. /\ y \o r \in Seq(Nat) /\ Len(y \o r) = Len(y) + Len(r)
        /\ \A i \in 1..Len(y) + Len(r) :
              (y \o r)[i] = IF i <= Len(y) THEN y[i] ELSE r[i - Len(y)]
    <3>1. y \in Seq(Nat)
      BY <2>1
    <3>. QED  BY <3>1, ConcatProperties
  <2>4. ASSUME NEW i \in 1..Len(x) PROVE (y \o r)[Len(p) + i] = x[i]
    <3>1. /\ Len(p) + i \in 1..Len(y) + Len(r) /\ Len(p) + i <= Len(y)
          /\ Len(p) + i \in 1..Len(p) + Len(x) /\ ~(Len(p) + i <= Len(p))
          /\ (Len(p) + i) - Len(p) = i
      BY <2>1, <2>2
    <3>. QED  BY <2>1, <2>3, <3>1
  <2>. QED  BY <1>2, <2>1, <2>2, <2>3, <2>4 DEF y
<1>7. q[o + 1] = Len(v) \div Base /\ q[o + 2] = Len(v) % Base
  <2>1. 1 \in 1..Len(x) /\ 2 \in 1..Len(x)
    BY <1>4, <1>5
  <2>. QED  BY <1>3, <1>4, <1>6, <2>1
<1>8. q[o + 1] * Base + q[o + 2] = Len(v)
  <2>. DEFINE m == Len(v)
  <2>1. m \in Nat /\ Base \in Nat \ {0}
    BY <1>5, KeyBundleAssumption
  <2>. HIDE DEF m
  <2>2. /\ m \div Base \in Nat /\ m % Base \in 0..Base-1
        /\ m = Base * (m \div Base) + (m % Base)
    BY <2>1, DivParts
  <2>3. Base * (m \div Base) = (m \div Base) * Base
    BY <2>1, <2>2
  <2>. QED  BY <1>7, <2>2, <2>3 DEF m
<1>9. /\ o \in Nat /\ Len(q) \in Nat /\ o + 2 \in Nat
      /\ o + 2 + Len(v) <= Len(q) /\ Len(x) = Len(v) + 2
  <2>1. /\ Len(q) = Len(p) + Len(x) + Len(r) /\ Len(p) = o /\ Len(x) = Len(v) + 2
        /\ Len(p) \in Nat /\ Len(x) \in Nat /\ Len(r) \in Nat
    BY <1>3, <1>4, <1>6
  <2>2. o \in Nat /\ o + 2 \in Nat
    BY <2>1
  <2>3. Len(q) = o + (Len(v) + 2) + Len(r)
    BY <2>1
  <2>4. Len(q) \in Nat /\ o + 2 + Len(v) <= Len(q)
    <3>. DEFINE a == Len(q)
                b == Len(v)
                c == Len(r)
    <3>1. a = o + (b + 2) + c /\ o \in Nat /\ b \in Nat /\ c \in Nat
      BY <1>5, <2>1, <2>2, <2>3
    <3>. HIDE DEF a, b, c
    <3>2. a \in Nat /\ o + 2 + b <= a
      BY <3>1
    <3>. QED  BY <3>2 DEF a, b
  <2>. QED  BY <2>1, <2>2, <2>4
<1>10. SubSeq(q, o + 3, o + 2 + Len(v)) = v
  <2>. DEFINE m == Len(v)
              k == o + 2
              w == SubSeq(q, k + 1, k + m)
  <2>1. q \in Seq(Nat) /\ m \in Nat /\ k \in Nat /\ k + m <= Len(q)
    BY <1>5, <1>6, <1>9
  <2>2. k + 1 = o + 3 /\ k + m = o + 2 + Len(v)
    BY <1>9
  <2>. HIDE DEF m, k
  <2>3. w \in Seq(Nat) /\ Len(w) = m /\ \A i \in 1..m : w[i] = q[k + i]
    BY <2>1, Window
  <2>4. ASSUME NEW i \in 1..m PROVE w[i] = v[i]
    <3>1. i + 2 \in 1..Len(x) /\ o + (i + 2) = k + i
      BY <1>9, <2>1 DEF m, k
    <3>2. q[Len(p) + (i + 2)] = x[i + 2] /\ Len(p) = o
      BY <1>3, <1>6, <3>1
    <3>3. x[i + 2] = v[i]
      BY <1>4 DEF m
    <3>4. w[i] = q[k + i]
      <4>. HIDE DEF w
      <4>. QED  BY <2>3
    <3>. HIDE DEF w
    <3>. QED  BY <3>1, <3>2, <3>3, <3>4
  <2>5. v \in Seq(Nat) /\ Len(v) = m
    <3>1. Byte \subseteq Nat
      BY DEF Byte
    <3>. QED  BY <1>1, <3>1, SeqMonotonic DEF m
  <2>. HIDE DEF w
  <2>6. \A i \in 1..Len(w) : w[i] = v[i]
    BY <2>3, <2>4
  <2>7. w = v
    <3>1. w \in Seq(Nat) /\ Len(w) = Len(v)
      BY <2>3, <2>5
    <3>2. v \in Seq(Nat)
      BY <2>5
    <3>. QED  BY <2>6, <3>1, <3>2, SeqEqual
  <2>. QED  BY <2>2, <2>7 DEF w
<1>. QED  BY <1>5, <1>8, <1>9, <1>10 DEF FoundAt

(* The length that two digits say.                                         *)
LEMMA LengthNat ==
  ASSUME NEW q \in Seq(Byte), NEW o \in Nat, o + 2 <= Len(q)
  PROVE  /\ q[o + 1] \in Nat /\ q[o + 2] \in 0..Base-1
         /\ q[o + 1] * Base + q[o + 2] \in Nat
<1>1. Len(q) \in Nat /\ o + 1 \in 1..Len(q) /\ o + 2 \in 1..Len(q)
  OBVIOUS
<1>2. q[o + 1] \in Nat /\ q[o + 2] \in 0..Base-1 /\ Base \in Nat \ {0}
  <2>1. q[o + 1] \in Byte /\ q[o + 2] \in Byte
    BY <1>1
  <2>. QED  BY <2>1, KeyBundleAssumption DEF Byte
<1>. DEFINE a == q[o + 1]
            b == q[o + 2]
<1>3. a \in Nat /\ b \in Nat /\ Base \in Nat
  BY <1>2
<1>. HIDE DEF a, b
<1>4. a * Base + b \in Nat
  <2>1. a * Base \in Nat
    BY <1>3
  <2>. QED  BY <1>3, <2>1
<1>. QED  BY <1>2, <1>4 DEF a, b

(* The bytes of a field, and those of its value.                           *)
LEMMA FieldWindows ==
  ASSUME NEW q \in Seq(Byte), NEW o \in Nat, NEW n \in Nat, o + 2 + n <= Len(q)
  PROVE  /\ SubSeq(q, o + 3, o + 2 + n) \in Seq(Byte)
         /\ Len(SubSeq(q, o + 3, o + 2 + n)) = n
         /\ \A i \in 1..n : SubSeq(q, o + 3, o + 2 + n)[i] = q[o + 2 + i]
         /\ SubSeq(q, o + 1, o + 2 + n) \in Seq(Byte)
         /\ Len(SubSeq(q, o + 1, o + 2 + n)) = n + 2
         /\ \A i \in 1..(n + 2) : SubSeq(q, o + 1, o + 2 + n)[i] = q[o + i]
<1>. DEFINE k == o + 2
            m == n + 2
<1>1. /\ k \in Nat /\ k + n <= Len(q) /\ k + 1 = o + 3 /\ k + n = o + 2 + n
      /\ m \in Nat /\ o + m <= Len(q) /\ o + m = o + 2 + n
  OBVIOUS
<1>. HIDE DEF k, m
<1>2. /\ SubSeq(q, k + 1, k + n) \in Seq(Byte) /\ Len(SubSeq(q, k + 1, k + n)) = n
      /\ \A i \in 1..n : SubSeq(q, k + 1, k + n)[i] = q[k + i]
  BY <1>1, Window
<1>3. /\ SubSeq(q, o + 1, o + m) \in Seq(Byte) /\ Len(SubSeq(q, o + 1, o + m)) = m
      /\ \A i \in 1..m : SubSeq(q, o + 1, o + m)[i] = q[o + i]
  BY <1>1, Window
<1>4. /\ SubSeq(q, o + 3, o + 2 + n) \in Seq(Byte)
      /\ Len(SubSeq(q, o + 3, o + 2 + n)) = n
      /\ \A i \in 1..n : SubSeq(q, o + 3, o + 2 + n)[i] = q[k + i]
  BY <1>1, <1>2
<1>5. /\ SubSeq(q, o + 1, o + 2 + n) \in Seq(Byte)
      /\ Len(SubSeq(q, o + 1, o + 2 + n)) = m
      /\ \A i \in 1..m : SubSeq(q, o + 1, o + 2 + n)[i] = q[o + i]
  BY <1>1, <1>3
<1>. QED  BY <1>4, <1>5 DEF k, m

(* The two digits at o say n, and the n bytes after them are v.            *)
TakenAt(q, o, n, v) ==
  /\ o + 2 <= Len(q) /\ o + 2 + n <= Len(q)
  /\ n = q[o + 1] * Base + q[o + 2]
  /\ v = SubSeq(q, o + 3, o + 2 + n)

(* What the parser takes for a field is what would be written for it.      *)
LEMMA FieldRead ==
  ASSUME NEW q \in Seq(Byte), NEW o \in Nat, NEW n \in Nat, NEW v, TakenAt(q, o, n, v)
  PROVE  v \in Seq(Byte) /\ SubSeq(q, o + 1, o + 2 + n) = Tlv(v)
<1>0. /\ o + 2 <= Len(q) /\ o + 2 + n <= Len(q)
      /\ n = q[o + 1] * Base + q[o + 2]
      /\ v = SubSeq(q, o + 3, o + 2 + n)
  BY DEF TakenAt
<1>1. Len(q) \in Nat
  OBVIOUS
<1>2. q[o + 1] \in Nat /\ q[o + 2] \in 0..Base-1 /\ Base \in Nat \ {0}
  BY <1>0, LengthNat, KeyBundleAssumption
<1>4. v \in Seq(Byte) /\ Len(v) = n /\ \A i \in 1..n : v[i] = q[o + 2 + i]
  BY <1>0, FieldWindows
<1>5. n \div Base = q[o + 1] /\ n % Base = q[o + 2]
  <2>. DEFINE a == q[o + 1]
              b == q[o + 2]
  <2>1. a \in Nat /\ b \in 0..Base-1 /\ Base \in Nat \ {0} /\ n = a * Base + b
    BY <1>0, <1>2
  <2>. HIDE DEF a, b
  <2>2. n \div Base = a /\ n % Base = b
    BY <2>1, DivUnique
  <2>. QED  BY <2>2 DEF a, b
<1>6. /\ Tlv(v) \in Seq(Nat) /\ Len(Tlv(v)) = n + 2
      /\ Tlv(v)[1] = q[o + 1] /\ Tlv(v)[2] = q[o + 2]
      /\ \A i \in 1..n : Tlv(v)[i + 2] = v[i]
  BY <1>4, <1>5, TlvShape
<1>. DEFINE w == SubSeq(q, o + 1, o + 2 + n)
            t == Tlv(v)
<1>7. w \in Seq(Byte) /\ Len(w) = n + 2 /\ \A i \in 1..(n + 2) : w[i] = q[o + i]
  BY <1>0, FieldWindows
<1>8. w \in Seq(Nat)
  <2>1. Byte \subseteq Nat
    BY DEF Byte
  <2>. HIDE DEF w
  <2>. QED  BY <1>7, <2>1, SeqMonotonic
<1>9. /\ t \in Seq(Nat) /\ Len(t) = n + 2 /\ t[1] = q[o + 1] /\ t[2] = q[o + 2]
      /\ \A i \in 1..n : t[i + 2] = v[i]
  BY <1>6
<1>. HIDE DEF w, t
<1>10. ASSUME NEW i \in 1..Len(w) PROVE w[i] = t[i]
  <2>1. i = 1 \/ i = 2 \/ (i - 2 \in 1..n /\ (i - 2) + 2 = i /\ o + 2 + (i - 2) = o + i)
    BY <1>7
  <2>2. w[i] = q[o + i]
    BY <1>7
  <2>3. CASE i = 1 \/ i = 2
    BY <1>9, <2>2, <2>3
  <2>4. CASE i - 2 \in 1..n
    <3>1. t[(i - 2) + 2] = v[i - 2] /\ v[i - 2] = q[o + 2 + (i - 2)]
      BY <1>4, <1>9, <2>4
    <3>. QED  BY <2>1, <2>2, <2>4, <3>1
  <2>. QED  BY <2>1, <2>3, <2>4
<1>11. w = t
  <2>1. t \in Seq(Nat) /\ Len(w) = Len(t)
    BY <1>7, <1>9
  <2>. QED  BY <1>8, <1>10, <2>1, SeqEqual
<1>. QED  BY <1>4, <1>11 DEF w, t

(* The bytes up to where the next field ends are the fields and that one.  *)
LEMMA RowGrows ==
  ASSUME NEW q \in Seq(Byte), NEW vs \in FieldLists, NEW o \in Nat, NEW e \in Nat,
         o <= e, e <= Len(q), SubSeq(q, 1, o) = Tlvs(vs),
         NEW v \in Seq(Byte), SubSeq(q, o + 1, e) = Tlv(v)
  PROVE  /\ Append(vs, v) \in FieldLists
         /\ SubSeq(q, 1, e) = Tlvs(Append(vs, v))
<1>1. SubSeq(q, 1, o) \o SubSeq(q, o + 1, e) = SubSeq(q, 1, e)
  <2>1. Len(q) \in Nat
    OBVIOUS
  <2>2. 1 \in 1..Len(q) + 1 /\ o \in 0..Len(q) /\ e \in o..Len(q)
    BY <2>1
  <2>3. 1 \in 1..Len(q) + 1 /\ o \in (1 - 1)..Len(q) /\ e \in o..Len(q)
    BY <2>2
  <2>. QED  BY <2>3, ConcatAdjacentSubSeq
<1>2. Tlvs(Append(vs, v)) = Tlvs(vs) \o Tlv(v)
  BY TlvsAppend
<1>3. Append(vs, v) \in FieldLists
  BY DEF FieldLists
<1>. QED  BY <1>1, <1>2, <1>3

(* A field too long makes the row too long.                                *)
LEMMA LongField ==
  ASSUME NEW fs \in FieldLists, NEW i \in 1..Len(fs), TooLong(fs[i])
  PROVE  Len(Tlvs(fs)) > MaxLen
<1>. DEFINE n == i - 1
            p == Tlvs(SubSeq(fs, 1, n))
            x == Tlv(fs[i])
<1>1. n \in Nat /\ n < Len(fs) /\ n + 1 = i /\ fs[i] \in Seq(Byte)
      /\ SubSeq(fs, 1, n) \in FieldLists
  BY DEF FieldLists
<1>2. MaxLen \in Int /\ Len(fs[i]) \in Nat /\ Len(fs[i]) > MaxLen
  <2>1. MaxLen \in Int
    BY KeyBundleAssumption DEF MaxLen
  <2>. QED  BY <1>1, <2>1 DEF TooLong
<1>. HIDE DEF n
<1>3. PICK r \in Seq(Nat) : Tlvs(fs) = (p \o x) \o r
  BY <1>1, TlvsFrom
<1>4. p \in Seq(Nat) /\ x \in Seq(Nat) /\ Len(x) = Len(fs[i]) + 2
  BY <1>1, TlvsType, TlvShape
<1>. HIDE DEF p, x
<1>5. Len((p \o x) \o r) = Len(p) + Len(x) + Len(r)
      /\ Len(p) \in Nat /\ Len(r) \in Nat
  <2>1. p \o x \in Seq(Nat) /\ Len(p \o x) = Len(p) + Len(x)
    BY <1>4, ConcatProperties
  <2>2. Len((p \o x) \o r) = Len(p \o x) + Len(r)
    BY <2>1, ConcatProperties
  <2>. QED  BY <1>4, <2>1, <2>2
<1>. QED  BY <1>2, <1>3, <1>4, <1>5

(* The values of the fields read.                                          *)
LEMMA ValuesOf ==
  ASSUME NEW fs \in Seq([at : Nat, val : Seq(Byte)]),
         NEW vs, vs = [i \in DOMAIN fs |-> fs[i].val]
  PROVE  /\ vs \in FieldLists /\ Len(vs) = Len(fs) /\ Len(fs) \in Nat
         /\ \A i \in 1..Len(fs) : vs[i] = fs[i].val
<1>1. /\ DOMAIN fs = 1..Len(fs) /\ Len(fs) \in Nat
      /\ \A i \in 1..Len(fs) : fs[i].val \in Seq(Byte)
  <2>. DEFINE R == [at : Nat, val : Seq(Byte)]
  <2>1. fs \in Seq(R)
    OBVIOUS
  <2>2. \A x \in R : x.val \in Seq(Byte)
    OBVIOUS
  <2>. HIDE DEF R
  <2>3. DOMAIN fs = 1..Len(fs) /\ Len(fs) \in Nat /\ \A i \in 1..Len(fs) : fs[i] \in R
    BY <2>1
  <2>. QED  BY <2>2, <2>3
<1>2. vs \in FieldLists /\ Len(vs) = Len(fs) /\ \A i \in 1..Len(fs) : vs[i] = fs[i].val
  <2>1. vs \in [1..Len(fs) -> Seq(Byte)]
    BY <1>1
  <2>2. vs \in Seq(Seq(Byte))
    BY <1>1, <2>1, SeqDef
  <2>3. DOMAIN vs = 1..Len(fs)
    BY <2>1
  <2>4. Len(vs) = Len(fs)
    BY <1>1, <2>2, <2>3
  <2>. QED  BY <1>1, <2>2, <2>4 DEF FieldLists
<1>. QED  BY <1>1, <1>2

(* One field more has one value more.                                      *)
LEMMA ValuesAppend ==
  ASSUME NEW fs \in Seq([at : Nat, val : Seq(Byte)]),
         NEW vs, vs = [i \in DOMAIN fs |-> fs[i].val],
         NEW a \in Nat, NEW v \in Seq(Byte),
         NEW gs, gs = Append(fs, [at |-> a, val |-> v])
  PROVE  /\ gs \in Seq([at : Nat, val : Seq(Byte)]) /\ Len(gs) = Len(fs) + 1
         /\ \A i \in 1..Len(fs) : gs[i] = fs[i]
         /\ gs[Len(fs) + 1].val = v
         /\ [i \in DOMAIN gs |-> gs[i].val] = Append(vs, v)
<1>1. DOMAIN fs = 1..Len(fs) /\ Len(fs) \in Nat
  OBVIOUS
<1>2. vs \in FieldLists /\ Len(vs) = Len(fs) /\ \A i \in 1..Len(fs) : vs[i] = fs[i].val
  BY ValuesOf
<1>3. /\ gs \in Seq([at : Nat, val : Seq(Byte)]) /\ Len(gs) = Len(fs) + 1
      /\ \A i \in 1..Len(fs) : gs[i] = fs[i]
      /\ gs[Len(fs) + 1].val = v
  <2>. DEFINE x == [at |-> a, val |-> v]
  <2>1. x \in [at : Nat, val : Seq(Byte)] /\ x.val = v
    OBVIOUS
  <2>. HIDE DEF x
  <2>2. gs = Append(fs, x)
    BY DEF x
  <2>. QED  BY <1>1, <2>1, <2>2, AppendProperties
<1>4. [i \in DOMAIN gs |-> gs[i].val] = Append(vs, v)
  <2>. DEFINE ws == [i \in DOMAIN gs |-> gs[i].val]
  <2>1. DOMAIN gs = 1..(Len(fs) + 1)
    BY <1>1, <1>3
  <2>2. \A i \in 1..(Len(fs) + 1) : gs[i].val = Append(vs, v)[i]
    <3>1. /\ \A i \in 1..Len(fs) : Append(vs, v)[i] = vs[i]
          /\ Append(vs, v)[Len(fs) + 1] = v
      BY <1>2, AppendProperties DEF FieldLists
    <3>2. \A i \in 1..(Len(fs) + 1) : i \in 1..Len(fs) \/ i = Len(fs) + 1
      BY <1>1
    <3>. QED  BY <1>2, <1>3, <3>1, <3>2
  <2>3. DOMAIN Append(vs, v) = 1..(Len(fs) + 1)
        /\ Append(vs, v) = [i \in 1..(Len(fs) + 1) |-> Append(vs, v)[i]]
    BY <1>1, <1>2 DEF FieldLists
  <2>. HIDE DEF ws
  <2>. QED  BY <2>1, <2>2, <2>3 DEF ws
<1>. QED  BY <1>3, <1>4

-----------------------------------------------------------------------------
(* The writer.                                                             *)

(* The public part of a two-field bundle, and of one of three.             *)
LEMMA PublicPart ==
  ASSUME NEW a \in Seq(Byte), NEW b \in Seq(Byte), NEW c \in Seq(Byte)
  PROVE  /\ FlattenSeq(Tail(<<a, b>>)) = b
         /\ FlattenSeq(Tail(<<a, b, c>>)) = b \o c
<1>1. Tail(<<a, b>>) = <<b>> /\ Tail(<<a, b, c>>) = <<b, c>>
  OBVIOUS
<1>2. <<b>> = Append(<<>>, b) /\ <<b, c>> = Append(<<b>>, c)
  OBVIOUS
<1>3. <<>> \in Seq(Seq(Byte)) /\ <<b>> \in Seq(Seq(Byte)) /\ <<>> \o b = b
  OBVIOUS
<1>4. FlattenSeq(<<b>>) = b
  <2>1. FlattenSeq(Append(<<>>, b)) = FlattenSeq(<<>>) \o b
    BY <1>3, FlattenAppend
  <2>. QED  BY <1>2, <1>3, <2>1, FlattenEmpty
<1>5. FlattenSeq(<<b, c>>) = b \o c
  <2>1. FlattenSeq(Append(<<b>>, c)) = FlattenSeq(<<b>>) \o c
    BY <1>3, FlattenAppend
  <2>. QED  BY <1>2, <1>4, <2>1
<1>. QED  BY <1>1, <1>4, <1>5

(* The public part of a bundle of two fields.                              *)
LEMMA SecondIsPublic ==
  ASSUME NEW f \in Seq(Seq(Byte)), Len(f) = 2
  PROVE  f = <<f[1], f[2]>> /\ FlattenSeq(Tail(f)) = f[2]
<1>. DEFINE a == f[1]
            b == f[2]
            g == <<a, b>>
<1>1. a \in Seq(Byte) /\ b \in Seq(Byte)
  <2>1. 1 \in 1..Len(f) /\ 2 \in 1..Len(f)
    OBVIOUS
  <2>. QED  BY <2>1
<1>2. f = g
  <2>1. \A i \in 1..Len(f) : f[i] = g[i]
    OBVIOUS
  <2>2. g \in Seq(Seq(Byte)) /\ Len(g) = Len(f)
    <3>. HIDE DEF a, b
    <3>. QED  BY <1>1
  <2>. HIDE DEF g
  <2>. QED  BY <2>1, <2>2, SeqEqual
<1>3. FlattenSeq(Tail(g)) = b
  <2>. HIDE DEF a, b
  <2>. QED  BY <1>1, PublicPart
<1>. HIDE DEF g
<1>4. FlattenSeq(Tail(f)) = b
  BY <1>2, <1>3
<1>. QED  BY <1>2, <1>4 DEF a, b, g

(* A row of fields that fit, under its key-id, is well written.            *)
LEMMA WrittenIsWell ==
  ASSUME NEW kind \in {"key", "block"}, NEW s \in SuiteNames, NEW role \in Roles,
         NEW bs \in FieldLists, Len(bs) \in {2, 3},
         \A i \in 1..Len(bs) : ~TooLong(bs[i]),
         kind = "block" => Len(bs) = 3,
         kind = "key" /\ role = SigPub => Len(bs) = 2,
         kind = "key" /\ role \in PublicRoles =>
           bs[1] = Shake(role, s, FlattenSeq(Tail(bs)))
  PROVE  WrittenWell(Written(kind, s, role, bs))
<1>. DEFINE e == Written(kind, s, role, bs)
<1>1. e.kind = kind /\ e.fields = bs /\ e.bytes = Tlvs(bs) /\ e.head = FixedHead(s, role)
  BY DEF Written
<1>2. e.head.suite = s /\ e.head.role = role
  BY <1>1 DEF FixedHead
<1>. HIDE DEF e
<1>3. WrittenWell(e)
  BY <1>1, <1>2 DEF WrittenWell
<1>. QED  BY <1>3 DEF e

(* One _tlv call too long and nothing is written.                          *)
LEMMA WritesWell ==
  ASSUME WriteInv, NEW entries, Write(entries),
         \A e \in entries : e.fields \in FieldLists,
         \A e \in entries :
           (\A i \in 1..Len(e.fields) : ~TooLong(e.fields[i])) => WrittenWell(e)
  PROVE  WriteInv' /\ made \subseteq made'
<1>. DEFINE raising == {e \in entries : \E i \in DOMAIN e.fields : TooLong(e.fields[i])}
<1>1. /\ refused' = refused \union {e.fields : e \in raising}
      /\ made' = IF raising = {} THEN made \union entries ELSE made
  BY DEF Write
<1>2. \A e \in entries : DOMAIN e.fields = 1..Len(e.fields)
  BY DEF FieldLists
<1>3. ASSUME NEW e \in made' PROVE WrittenWell(e)
  <2>1. CASE e \in made
    BY <2>1 DEF WriteInv
  <2>2. CASE e \notin made
    <3>1. raising = {} /\ e \in entries
      <4>. HIDE DEF raising
      <4>. QED  BY <1>1, <1>3, <2>2
    <3>2. \A i \in 1..Len(e.fields) : ~TooLong(e.fields[i])
      BY <1>2, <3>1
    <3>. QED  BY <3>1, <3>2
  <2>. QED  BY <2>1, <2>2
<1>4. ASSUME NEW fs \in refused' PROVE Len(Tlvs(fs)) > MaxLen
  <2>1. CASE fs \in refused
    BY <2>1 DEF WriteInv
  <2>2. CASE fs \notin refused
    <3>1. PICK e \in raising : fs = e.fields
      <4>. HIDE DEF raising
      <4>. QED  BY <1>1, <1>4, <2>2
    <3>2. e \in entries /\ \E i \in DOMAIN e.fields : TooLong(e.fields[i])
      BY <3>1
    <3>3. fs \in FieldLists /\ \E i \in 1..Len(fs) : TooLong(fs[i])
      BY <1>2, <3>1, <3>2
    <3>. QED  BY <3>3, LongField
  <2>. QED  BY <2>1, <2>2
<1>. HIDE DEF raising
<1>5. made \subseteq made'
  BY <1>1
<1>. QED  BY <1>3, <1>4, <1>5 DEF WriteInv

(* A bundle that a generator writes.                                       *)
LEMMA KeyWritten ==
  ASSUME NEW s \in SuiteNames, NEW role \in Roles, NEW bs \in FieldLists,
         NEW e, e = Written("key", s, role, bs), Len(bs) \in {2, 3},
         role = SigPub => Len(bs) = 2,
         role \in PublicRoles => bs[1] = Shake(role, s, FlattenSeq(Tail(bs)))
  PROVE  /\ e.fields \in FieldLists
         /\ (\A i \in 1..Len(e.fields) : ~TooLong(e.fields[i])) => WrittenWell(e)
<1>1. e.fields = bs
  BY DEF Written
<1>2. ASSUME \A i \in 1..Len(bs) : ~TooLong(bs[i]) PROVE WrittenWell(e)
  <2>1. WrittenWell(Written("key", s, role, bs))
    BY <1>2, WrittenIsWell
  <2>. QED  BY <2>1
<1>. QED  BY <1>1, <1>2

(* Every write leaves what has been written well written.                  *)
LEMMA WritingKeeps ==
  ASSUME WriteInv, Writing
  PROVE  WriteInv' /\ made \subseteq made' /\ UNCHANGED parseVars
<1>0. Material \subseteq Seq(Byte) /\ PrivateParts \subseteq Seq(Byte)
      /\ BlockMaterial \subseteq Seq(Byte)
  BY KeyBundleAssumption
<1>1. CASE GenerateRecipientKeys
  <2>1. PICK s \in SuiteNames, x \in Material, ek \in Material,
             xPriv \in PrivateParts, dk \in PrivateParts :
          LET kid == Shake(KemPub, s, x \o ek)
          IN  Write({Written("key", s, KemPub, <<kid, x, ek>>),
                     Written("key", s, KemPriv, <<kid, xPriv, dk>>)})
    BY <1>1 DEF GenerateRecipientKeys
  <2>. DEFINE kid == Shake(KemPub, s, x \o ek)
              f == <<kid, x, ek>>
              g == <<kid, xPriv, dk>>
              d == Written("key", s, KemPub, f)
              e == Written("key", s, KemPriv, g)
  <2>2. Write({d, e})
    BY <2>1
  <2>3. kid \in Seq(Byte) /\ x \in Seq(Byte) /\ ek \in Seq(Byte)
        /\ xPriv \in Seq(Byte) /\ dk \in Seq(Byte)
    <3>1. KemPub \in PublicRoles
      BY DEF PublicRoles
    <3>2. Shake(KemPub, s, x \o ek) \in Seq(Byte)
      BY <3>1, ShakeAssumption
    <3>. QED  BY <1>0, <3>2
  <2>4. FlattenSeq(Tail(f)) = x \o ek
    <3>. HIDE DEF kid
    <3>. QED  BY <2>3, PublicPart
  <2>5. /\ f \in FieldLists /\ Len(f) = 3 /\ g \in FieldLists /\ Len(g) = 3
        /\ f[1] = kid
    <3>. HIDE DEF kid
    <3>. QED  BY <2>3 DEF FieldLists
  <2>6. /\ KemPub \in Roles /\ KemPriv \in Roles /\ KemPub # SigPub
        /\ KemPriv \notin PublicRoles /\ KemPriv # SigPub
    BY DEF Roles, PublicRoles, KemPub, KemPriv, SigPub, SigPriv
  <2>7. f[1] = Shake(KemPub, s, FlattenSeq(Tail(f)))
    BY <2>4, <2>5
  <2>. HIDE DEF f, g
  <2>8. /\ d.fields \in FieldLists
        /\ (\A i \in 1..Len(d.fields) : ~TooLong(d.fields[i])) => WrittenWell(d)
    BY <2>5, <2>6, <2>7, KeyWritten
  <2>9. /\ e.fields \in FieldLists
        /\ (\A i \in 1..Len(e.fields) : ~TooLong(e.fields[i])) => WrittenWell(e)
    BY <2>5, <2>6, KeyWritten
  <2>. HIDE DEF d, e
  <2>10. WriteInv' /\ made \subseteq made'
    BY <2>2, <2>8, <2>9, WritesWell
  <2>. QED  BY <1>1, <2>10 DEF GenerateRecipientKeys
<1>2. CASE GenerateSigningKeys
  <2>1. PICK s \in SuiteNames, pk \in Material, sk \in PrivateParts :
          LET kid == Shake(SigPub, s, pk)
          IN  Write({Written("key", s, SigPub, <<kid, pk>>),
                     Written("key", s, SigPriv, <<kid, sk>>)})
    BY <1>2 DEF GenerateSigningKeys
  <2>. DEFINE kid == Shake(SigPub, s, pk)
              f == <<kid, pk>>
              g == <<kid, sk>>
              d == Written("key", s, SigPub, f)
              e == Written("key", s, SigPriv, g)
  <2>2. Write({d, e})
    BY <2>1
  <2>3. kid \in Seq(Byte) /\ pk \in Seq(Byte) /\ sk \in Seq(Byte)
    <3>1. SigPub \in PublicRoles
      BY DEF PublicRoles
    <3>2. Shake(SigPub, s, pk) \in Seq(Byte)
      BY <3>1, ShakeAssumption
    <3>. QED  BY <1>0, <3>2
  <2>4. FlattenSeq(Tail(f)) = pk
    <3>. HIDE DEF kid
    <3>. QED  BY <2>3, PublicPart
  <2>5. /\ f \in FieldLists /\ Len(f) = 2 /\ g \in FieldLists /\ Len(g) = 2
        /\ f[1] = kid
    <3>. HIDE DEF kid
    <3>. QED  BY <2>3 DEF FieldLists
  <2>6. SigPub \in Roles /\ SigPriv \in Roles /\ SigPriv \notin PublicRoles
    BY DEF Roles, PublicRoles, KemPub, KemPriv, SigPub, SigPriv
  <2>7. f[1] = Shake(SigPub, s, FlattenSeq(Tail(f)))
    BY <2>4, <2>5
  <2>. HIDE DEF f, g
  <2>8. /\ d.fields \in FieldLists
        /\ (\A i \in 1..Len(d.fields) : ~TooLong(d.fields[i])) => WrittenWell(d)
    BY <2>5, <2>6, <2>7, KeyWritten
  <2>9. /\ e.fields \in FieldLists
        /\ (\A i \in 1..Len(e.fields) : ~TooLong(e.fields[i])) => WrittenWell(e)
    BY <2>5, <2>6, KeyWritten
  <2>. HIDE DEF d, e
  <2>10. WriteInv' /\ made \subseteq made'
    BY <2>2, <2>8, <2>9, WritesWell
  <2>. QED  BY <1>2, <2>10 DEF GenerateSigningKeys
<1>3. CASE WriteSenderBlock
  <2>1. PICK kid \in BlockMaterial, pub \in BlockMaterial, sig \in BlockMaterial,
             s \in SuiteNames :
          LET e == Written("block", s, SigPub, <<kid, pub, sig>>)
          IN  IF \/ \E i \in 1..3 : TooLong(e.fields[i])
                 \/ TooLong(e.bytes)
              THEN refused' = refused \union {e.fields} /\ UNCHANGED made
              ELSE made' = made \union {e} /\ UNCHANGED refused
    BY <1>3 DEF WriteSenderBlock
  <2>. DEFINE f == <<kid, pub, sig>>
              e == Written("block", s, SigPub, f)
              long == (\E i \in 1..3 : TooLong(e.fields[i])) \/ TooLong(e.bytes)
  <2>2. f \in FieldLists /\ Len(f) = 3
    <3>1. kid \in Seq(Byte) /\ pub \in Seq(Byte) /\ sig \in Seq(Byte)
      BY <1>0
    <3>. QED  BY <3>1 DEF FieldLists
  <2>3. SigPub \in Roles
    BY DEF Roles
  <2>4. IF long THEN refused' = refused \union {e.fields} /\ made' = made
        ELSE made' = made \union {e} /\ refused' = refused
    BY <2>1
  <2>. HIDE DEF f
  <2>5. e.fields = f /\ e.bytes = Tlvs(f)
    BY DEF Written
  <2>6. ASSUME ~long PROVE WrittenWell(e)
    <3>1. \A i \in 1..Len(f) : ~TooLong(f[i])
      BY <2>2, <2>5, <2>6
    <3>. HIDE DEF long
    <3>2. SigPub \in Roles /\ Len(f) \in {2, 3}
      BY <2>2, <2>3
    <3>3. WrittenWell(Written("block", s, SigPub, f))
      BY <2>2, <3>1, <3>2, WrittenIsWell
    <3>. QED  BY <3>3
  <2>7. ASSUME long PROVE Len(Tlvs(f)) > MaxLen
    <3>1. CASE \E i \in 1..3 : TooLong(f[i])
      BY <2>2, <3>1, LongField
    <3>2. CASE TooLong(Tlvs(f))
      BY <3>2 DEF TooLong
    <3>. QED  BY <2>5, <2>7, <3>1, <3>2
  <2>. HIDE DEF e, long
  <2>8. WriteInv' /\ made \subseteq made'
    BY <2>4, <2>5, <2>6, <2>7 DEF WriteInv
  <2>. QED  BY <1>3, <2>8 DEF WriteSenderBlock
<1>. QED  BY <1>1, <1>2, <1>3 DEF Writing

-----------------------------------------------------------------------------
(* The parser.                                                             *)

(* Whatever is done to the bytes of a bundle, bytes they stay.             *)
LEMMA VariantWell ==
  ASSUME WriteInv, NEW e \in made, NEW v \in Variants(e)
  PROVE  v.bytes \in Seq(Byte) /\ HeadWell(v.head)
<1>1. ASSUME NEW d \in made
      PROVE  /\ WrittenWell(d) /\ d.bytes \in Seq(Byte)
             /\ d.fields \in FieldLists /\ Len(d.fields) \in {2, 3}
             /\ \A i \in 1..Len(d.fields) : ~TooLong(d.fields[i])
  <2>1. WrittenWell(d)
    BY DEF WriteInv
  <2>2. /\ d.fields \in FieldLists /\ Len(d.fields) \in {2, 3} /\ d.bytes = Tlvs(d.fields)
        /\ \A i \in 1..Len(d.fields) : ~TooLong(d.fields[i])
    BY <2>1 DEF WrittenWell
  <2>. QED  BY <2>1, <2>2, TlvsType
<1>2. HeadWell(e.head)
  <2>1. WrittenWell(e)
    BY <1>1
  <2>2. e.head.suite \in SuiteNames /\ e.head = FixedHead(e.head.suite, e.head.role)
    BY <2>1 DEF WrittenWell
  <2>. DEFINE s == e.head.suite
              r == e.head.role
  <2>3. FixedHead(s, r).suite = s /\ FixedHead(s, r)
          = [magic |-> FixedHead(s, r).magic, version |-> FixedHead(s, r).version,
             suite |-> FixedHead(s, r).suite, role |-> FixedHead(s, r).role]
    BY DEF FixedHead
  <2>. QED  BY <2>2, <2>3 DEF HeadWell
<1>3. ASSUME NEW b \in ByteChanged(e.bytes) PROVE b \in Seq(Byte)
  <2>. DEFINE c == e.bytes
  <2>1. c \in Seq(Byte)
    BY <1>1
  <2>. HIDE DEF c
  <2>2. PICK i \in DOMAIN c, x \in Byte : b = [c EXCEPT ![i] = x]
    BY <1>3 DEF ByteChanged, c
  <2>. QED  BY <2>1, <2>2
<1>4. ASSUME NEW b \in Cut(e.bytes) PROVE b \in Seq(Byte)
  <2>. DEFINE c == e.bytes
  <2>1. c \in Seq(Byte)
    BY <1>1
  <2>. HIDE DEF c
  <2>2. PICK n \in 0..Len(c) : b = SubSeq(c, 1, n)
    BY <1>4 DEF Cut, c
  <2>3. SubSeq(c, 1, n) \in Seq(Byte)
    BY <2>1, <2>2
  <2>. QED  BY <2>2, <2>3
<1>5. ASSUME NEW b \in RunOn(e.bytes) PROVE b \in Seq(Byte)
  <2>1. \A m \in Material :
          m \in Seq(Byte) /\ (~TooLong(m) => Tlv(m) \in Seq(Byte))
    <3>1. \A m \in Material : m \in Seq(Byte)
      BY KeyBundleAssumption
    <3>. QED  BY <3>1, TlvShape
  <2>2. PICK x \in Seq(Byte) : b = e.bytes \o x
    BY <1>5, <2>1 DEF RunOn
  <2>3. e.bytes \in Seq(Byte)
    BY <1>1
  <2>. QED  BY <2>2, <2>3, ConcatProperties
<1>6. ASSUME NEW b \in OtherKid(e) PROVE b \in Seq(Byte)
  <2>1. PICK o \in made : b = Tlvs(<<o.fields[1]>> \o Tail(e.fields))
    BY <1>6 DEF OtherKid
  <2>. DEFINE f == o.fields
              g == e.fields
              k == <<f[1]>> \o Tail(g)
  <2>2. /\ f \in FieldLists /\ Len(f) \in {2, 3} /\ g \in FieldLists /\ Len(g) \in {2, 3}
        /\ \A i \in 1..Len(f) : ~TooLong(f[i])
        /\ \A i \in 1..Len(g) : ~TooLong(g[i])
    BY <1>1
  <2>. HIDE DEF f, g
  <2>3. f[1] \in Seq(Byte) /\ ~TooLong(f[1])
    BY <2>2 DEF FieldLists
  <2>4. /\ Tail(g) \in Seq(Seq(Byte)) /\ Len(Tail(g)) = Len(g) - 1
        /\ \A i \in 1..Len(Tail(g)) : Tail(g)[i] = g[i + 1]
    BY <2>2 DEF FieldLists
  <2>. DEFINE t == Tail(g)
  <2>5. /\ t \in Seq(Seq(Byte)) /\ Len(t) \in Nat
        /\ \A i \in 1..Len(t) : ~TooLong(t[i])
    <3>1. Len(g) \in Nat /\ \A i \in 1..Len(t) : i + 1 \in 1..Len(g)
      BY <2>2, <2>4
    <3>2. \A i \in 1..Len(t) : ~TooLong(t[i])
      <4>. SUFFICES ASSUME NEW i \in 1..Len(t) PROVE ~TooLong(t[i])
        OBVIOUS
      <4>1. t[i] = g[i + 1] /\ i + 1 \in 1..Len(g)
        BY <2>4, <3>1
      <4>. HIDE DEF t
      <4>. QED  BY <2>2, <4>1
    <3>. QED  BY <2>4, <3>2
  <2>. HIDE DEF t
  <2>6. /\ <<f[1]>> \o t \in Seq(Seq(Byte)) /\ Len(<<f[1]>> \o t) = 1 + Len(t)
        /\ (<<f[1]>> \o t)[1] = f[1]
        /\ \A i \in 1..Len(t) : (<<f[1]>> \o t)[1 + i] = t[i]
    <3>. DEFINE h == <<f[1]>>
    <3>1. h \in Seq(Seq(Byte)) /\ Len(h) = 1 /\ h[1] = f[1]
      BY <2>3
    <3>. HIDE DEF h
    <3>2. /\ h \o t \in Seq(Seq(Byte)) /\ Len(h \o t) = Len(h) + Len(t)
          /\ \A i \in 1..Len(h) : (h \o t)[i] = h[i]
          /\ \A i \in 1..Len(t) : (h \o t)[Len(h) + i] = t[i]
      <4>1. h \in Seq(Seq(Byte)) /\ t \in Seq(Seq(Byte))
        BY <2>5, <3>1
      <4>. HIDE DEF t
      <4>. QED  BY <4>1, ConcatProperties
    <3>. QED  BY <3>1, <3>2 DEF h
  <2>7. k = <<f[1]>> \o t
    BY DEF t
  <2>. HIDE DEF k
  <2>8. k \in FieldLists /\ \A i \in 1..Len(k) : ~TooLong(k[i])
    <3>1. ASSUME NEW i \in 1..Len(k) PROVE ~TooLong(k[i])
      <4>1. i = 1 \/ (i - 1 \in 1..Len(t) /\ 1 + (i - 1) = i)
        BY <2>5, <2>6, <2>7
      <4>2. CASE i = 1
        BY <2>3, <2>6, <2>7, <4>2
      <4>3. CASE i - 1 \in 1..Len(t) /\ 1 + (i - 1) = i
        <5>1. k[i] = t[i - 1]
          BY <2>6, <2>7, <4>3
        <5>. QED  BY <2>5, <4>3, <5>1
      <4>. QED  BY <4>1, <4>2, <4>3
    <3>. QED  BY <2>6, <2>7, <3>1 DEF FieldLists
  <2>9. b = Tlvs(k)
    BY <2>1 DEF f, g, k
  <2>. QED  BY <2>8, <2>9, TlvsType
<1>7. e.bytes \in Seq(Byte)
  BY <1>1
<1>. DEFINE bytes == ByteChanged(e.bytes) \union Cut(e.bytes) \union RunOn(e.bytes)
                     \union OtherKid(e)
            heads == {[e.head EXCEPT !.magic = Bad], [e.head EXCEPT !.version = Bad]}
                     \union {[e.head EXCEPT !.suite = s] : s \in SuiteNames}
                     \union {[e.head EXCEPT !.role = r] : r \in Roles}
<1>8. \A h \in heads : HeadWell(h)
  <2>. SUFFICES ASSUME NEW h \in heads PROVE HeadWell(h)
    OBVIOUS
  <2>. DEFINE g == e.head
  <2>1. g.suite \in SuiteNames /\ g = [magic |-> g.magic, version |-> g.version,
                                       suite |-> g.suite, role |-> g.role]
    BY <1>2 DEF HeadWell
  <2>2. \/ h = [g EXCEPT !.magic = Bad] \/ h = [g EXCEPT !.version = Bad]
        \/ \E s \in SuiteNames : h = [g EXCEPT !.suite = s]
        \/ \E r \in Roles : h = [g EXCEPT !.role = r]
    OBVIOUS
  <2>. HIDE DEF g, heads
  <2>. QED  BY <2>1, <2>2 DEF HeadWell
<1>9. \A b \in bytes : b \in Seq(Byte)
  BY <1>3, <1>4, <1>5, <1>6
<1>10. \/ \E b \in bytes : v = [head |-> e.head, bytes |-> b]
       \/ \E h \in heads : v = [head |-> h, bytes |-> e.bytes]
  BY DEF Variants
<1>. HIDE DEF bytes, heads
<1>. QED  BY <1>2, <1>7, <1>8, <1>9, <1>10

(* The fields read so far, and the bytes they were read from.              *)
LEMMA ReadSoFar ==
  ASSUME ReadInv, buf \in Seq(Byte)
  PROVE  /\ Values \in FieldLists /\ Len(Values) = Len(fields) /\ Len(fields) \in Nat
         /\ \A i \in 1..Len(fields) : Values[i] = fields[i].val
         /\ off \in Nat /\ off <= Len(buf) /\ Len(buf) \in Nat
         /\ off = Len(Tlvs(Values))
<1>1. fields \in Seq([at : Nat, val : Seq(Byte)]) /\ off \in 0..Len(buf)
      /\ SubSeq(buf, 1, off) = Tlvs(Values)
  BY DEF ReadInv
<1>2. Len(buf) \in Nat
  OBVIOUS
<1>3. off \in Nat /\ off <= Len(buf)
  BY <1>1, <1>2
<1>4. Len(SubSeq(buf, 1, off)) = off
  BY <1>2, <1>3
<1>5. /\ Values \in FieldLists /\ Len(Values) = Len(fields) /\ Len(fields) \in Nat
      /\ \A i \in 1..Len(fields) : Values[i] = fields[i].val
  <2>. DEFINE vs == [i \in DOMAIN fields |-> fields[i].val]
  <2>1. /\ vs \in FieldLists /\ Len(vs) = Len(fields) /\ Len(fields) \in Nat
        /\ \A i \in 1..Len(fields) : vs[i] = fields[i].val
    <3>1. vs = [i \in DOMAIN fields |-> fields[i].val]
      OBVIOUS
    <3>. HIDE DEF vs
    <3>. QED  BY <1>1, <3>1, ValuesOf
  <2>. QED  BY <2>1 DEF Values
<1>. QED  BY <1>1, <1>2, <1>3, <1>4, <1>5

(* Only all the fields have all the bytes.                                 *)
LEMMA AllRead ==
  ASSUME NEW fs \in FieldLists, NEW n \in Nat, n <= Len(fs),
         NEW o, o = Len(Tlvs(SubSeq(fs, 1, n))), o >= Len(Tlvs(fs))
  PROVE  n = Len(fs)
<1>1. Len(fs) \in Nat
  BY DEF FieldLists
<1>. SUFFICES ASSUME n < Len(fs) PROVE FALSE
  BY <1>1
<1>. DEFINE v == fs[n + 1]
            q == Tlvs(fs)
<1>2. o \in Nat /\ Len(q) \in Nat /\ o + 2 + Len(v) <= Len(q) /\ Len(v) \in Nat
  <2>1. FoundAt(q, o, v)
    BY NextField
  <2>. QED  BY <2>1 DEF FoundAt
<1>3. o >= Len(q)
  OBVIOUS
<1>. HIDE DEF v, q
<1>. DEFINE a == Len(q)
            b == Len(v)
<1>4. o \in Nat /\ a \in Nat /\ b \in Nat /\ o + 2 + b <= a /\ o >= a
  BY <1>2, <1>3
<1>. HIDE DEF a, b
<1>. QED  BY <1>4

(* Of the bytes as they were written, the first fields have been read.     *)
LEMMA FaithfulRead ==
  ASSUME WriteInv, ReadInv, orig \in made, buf \in Seq(Byte), Faithful,
         Len(fields) <= Len(orig.fields),
         \A i \in 1..Len(fields) : fields[i].val = orig.fields[i]
  PROVE  /\ WrittenWell(orig)
         /\ orig.fields \in FieldLists /\ Len(orig.fields) \in Nat
         /\ buf = Tlvs(orig.fields)
         /\ Values = SubSeq(orig.fields, 1, Len(fields))
         /\ off = Len(Tlvs(SubSeq(orig.fields, 1, Len(fields))))
         /\ Len(fields) = Len(orig.fields) => Values = orig.fields /\ off = Len(buf)
         /\ off = Len(buf) => Len(fields) = Len(orig.fields)
<1>1. WrittenWell(orig)
  BY DEF WriteInv
<1>. DEFINE fs == orig.fields
            n == Len(fields)
<1>2. fs \in FieldLists /\ buf = Tlvs(fs)
  BY <1>1 DEF WrittenWell, Faithful
<1>3. /\ Values \in FieldLists /\ Len(Values) = n /\ n \in Nat
      /\ \A i \in 1..n : Values[i] = fs[i]
      /\ off \in Nat /\ Len(buf) \in Nat /\ off = Len(Tlvs(Values))
  BY ReadSoFar
<1>4. n <= Len(fs)
  OBVIOUS
<1>. HIDE DEF fs, n
<1>5. Len(fs) \in Nat /\ SubSeq(fs, 1, Len(fs)) = fs
  BY <1>2 DEF FieldLists
<1>6. Values = SubSeq(fs, 1, n)
  <2>. DEFINE w == SubSeq(fs, 1, n)
  <2>1. w \in Seq(Seq(Byte)) /\ Len(w) = n /\ \A i \in 1..n : w[i] = fs[i]
    BY <1>2, <1>3, <1>4, <1>5 DEF FieldLists
  <2>. HIDE DEF w
  <2>2. Values \in Seq(Seq(Byte)) /\ Len(Values) = Len(w)
        /\ \A i \in 1..Len(Values) : Values[i] = w[i]
    BY <1>3, <2>1 DEF FieldLists
  <2>3. Values = w
    BY <2>1, <2>2, SeqEqual
  <2>. QED  BY <2>3 DEF w
<1>7. n = Len(fs) => Values = fs /\ off = Len(buf)
  BY <1>2, <1>3, <1>5, <1>6
<1>8. off = Len(buf) => n = Len(fs)
  <2>. SUFFICES ASSUME off = Len(buf) PROVE n = Len(fs)
    OBVIOUS
  <2>1. off = Len(Tlvs(SubSeq(fs, 1, n))) /\ off >= Len(Tlvs(fs))
    BY <1>2, <1>3, <1>6
  <2>. QED  BY <1>2, <1>3, <1>4, <2>1, AllRead
<1>9. off = Len(Tlvs(SubSeq(fs, 1, n)))
  BY <1>3, <1>6
<1>. QED  BY <1>1, <1>2, <1>5, <1>6, <1>7, <1>8, <1>9 DEF fs, n

(* The parser finds the next field of them, whole.                         *)
LEMMA FaithfulNext ==
  ASSUME WriteInv, ParseInv, pc = "field", Faithful
  PROVE  /\ Len(fields) < Len(orig.fields)
         /\ off + 2 <= Len(buf) /\ ~PastEnd(off)
         /\ Slice(off + 3, EndAt(off)) = orig.fields[Len(fields) + 1]
<1>1. /\ orig \in made /\ buf \in Seq(Byte) /\ ReadInv /\ StageInv /\ FaithfulInv
  BY DEF ParseInv
<1>2. /\ Len(fields) <= Len(orig.fields)
      /\ \A i \in 1..Len(fields) : fields[i].val = orig.fields[i]
  BY <1>1 DEF FaithfulInv
<1>3. /\ WrittenWell(orig)
      /\ orig.fields \in FieldLists /\ Len(orig.fields) \in Nat
      /\ buf = Tlvs(orig.fields)
      /\ off = Len(Tlvs(SubSeq(orig.fields, 1, Len(fields))))
      /\ Len(fields) = Len(orig.fields) => off = Len(buf)
  BY <1>1, <1>2, FaithfulRead
<1>4. Len(fields) \in Nat /\ off \in Nat /\ Len(buf) \in Nat
  BY <1>1, ReadSoFar
<1>5. IF orig.kind = "key" THEN fields = <<>> \/ off < Len(buf) ELSE Len(fields) < 3
  BY <1>1 DEF StageInv
<1>6. /\ orig.kind \in {"key", "block"} /\ Len(orig.fields) \in {2, 3}
      /\ orig.kind = "block" => Len(orig.fields) = 3
  BY <1>3 DEF WrittenWell
<1>7. Len(fields) # Len(orig.fields)
  <2>1. CASE orig.kind = "key" /\ fields = <<>>
    BY <1>6, <2>1
  <2>2. CASE orig.kind = "key" /\ off < Len(buf)
    BY <1>3, <1>4, <2>2
  <2>3. CASE orig.kind = "block" /\ Len(fields) < 3
    BY <1>4, <1>6, <2>3
  <2>. QED  BY <1>5, <1>6, <2>1, <2>2, <2>3
<1>8. Len(fields) < Len(orig.fields)
  BY <1>2, <1>3, <1>4, <1>7
<1>. DEFINE fs == orig.fields
            n == Len(fields)
            v == fs[n + 1]
<1>9. /\ off + 2 + Len(v) <= Len(buf) /\ Len(v) \in Nat
      /\ buf[off + 1] * Base + buf[off + 2] = Len(v)
      /\ SubSeq(buf, off + 3, off + 2 + Len(v)) = v
  <2>. DEFINE o == off
              q == Tlvs(fs)
  <2>1. fs \in FieldLists /\ n \in Nat /\ n < Len(fs) /\ buf = q
        /\ o = Len(Tlvs(SubSeq(fs, 1, n)))
    BY <1>3, <1>4, <1>8
  <2>. HIDE DEF fs, n, o
  <2>2. FoundAt(q, o, v)
    BY <2>1, NextField
  <2>. HIDE DEF q, v
  <2>. QED  BY <2>1, <2>2 DEF o, FoundAt
<1>10. LengthAt(off) = Len(v) /\ EndAt(off) = off + 2 + Len(v)
  BY <1>9 DEF LengthAt, EndAt
<1>. HIDE DEF v
<1>. DEFINE e == EndAt(off)
            m == Len(v)
<1>11. e = off + 2 + m /\ m \in Nat /\ e <= Len(buf)
  BY <1>9, <1>10
<1>. HIDE DEF e, m
<1>12. off + 2 <= Len(buf) /\ ~(e > Len(buf))
  BY <1>4, <1>11
<1>13. Slice(off + 3, e) = v
  <2>1. Slice(off + 3, e) = SubSeq(buf, off + 3, e)
    BY <1>12 DEF Slice
  <2>2. SubSeq(buf, off + 3, e) = v
    BY <1>9, <1>11 DEF m
  <2>. QED  BY <2>1, <2>2
<1>. QED  BY <1>8, <1>12, <1>13 DEF e, v, PastEnd

(* Nothing under parse changes: what holds of it still does.               *)
LEMMA ParseFrame ==
  ASSUME ParseInv, made \subseteq made', UNCHANGED parseVars
  PROVE  ParseInv'
<1>1. /\ orig' = orig /\ head' = head /\ buf' = buf /\ expect' = expect
      /\ pc' = pc /\ off' = off /\ fields' = fields /\ err' = err
  BY DEF parseVars
<1>2. ReadInv => ReadInv'
  BY <1>1 DEF ReadInv, Values
<1>3. StageInv => StageInv'
  BY <1>1 DEF StageInv, Values, KidHolds, UsedUp
<1>4. (Faithful => FaithfulInv) => (Faithful' => FaithfulInv')
  BY <1>1 DEF Faithful, FaithfulInv
<1>5. HeadWell(head) => HeadWell(head')
  BY <1>1
<1>. QED  BY <1>1, <1>2, <1>3, <1>4, <1>5 DEF ParseInv

(* A refusal of what has been damaged.                                     *)
LEMMA FailKeeps ==
  ASSUME ParseInv, pc # "idle", ~Faithful, UNCHANGED writeVars, NEW why, Fail(why)
  PROVE  ParseInv'
<1>1. /\ orig' = orig /\ head' = head /\ buf' = buf /\ expect' = expect
      /\ pc' = "failed" /\ off' = off /\ fields' = fields /\ made' = made
  BY DEF Fail, writeVars
<1>2. /\ orig \in made /\ buf \in Seq(Byte) /\ ReadInv /\ HeadWell(head)
  BY DEF ParseInv
<1>3. ReadInv'
  BY <1>1, <1>2 DEF ReadInv, Values
<1>4. StageInv'
  BY <1>1 DEF StageInv
<1>5. ~Faithful'
  BY <1>1 DEF Faithful
<1>6. HeadWell(head')
  BY <1>1, <1>2
<1>. QED  BY <1>1, <1>2, <1>3, <1>4, <1>5, <1>6 DEF ParseInv

(* A parse begins with nothing read.                                       *)
LEMMA ParseCallKeeps ==
  ASSUME WriteInv, ParseCall
  PROVE  ParseInv'
<1>1. PICK e \in made : \E v \in Variants(e), r \in Roles :
        orig' = e /\ head' = v.head /\ buf' = v.bytes /\ expect' = r
  BY DEF ParseCall
<1>2. PICK v \in Variants(e) : orig' = e /\ head' = v.head /\ buf' = v.bytes
  BY <1>1
<1>3. v.bytes \in Seq(Byte) /\ HeadWell(v.head)
  BY VariantWell
<1>4. pc' = "head" /\ off' = 0 /\ fields' = <<>> /\ made' = made
  BY DEF ParseCall, writeVars
<1>5. orig' \in made' /\ buf' \in Seq(Byte) /\ HeadWell(head')
  BY <1>2, <1>3, <1>4
<1>6. ReadInv'
  <2>1. fields' \in Seq([at : Nat, val : Seq(Byte)]) /\ off' \in 0..Len(buf')
    BY <1>4, <1>5
  <2>2. SubSeq(buf', 1, off') = <<>>
    BY <1>4, <1>5
  <2>3. Values' = <<>>
    BY <1>4 DEF Values
  <2>. QED  BY <2>1, <2>2, <2>3, TlvsEmpty DEF ReadInv
<1>7. StageInv'
  BY <1>4 DEF StageInv
<1>8. FaithfulInv'
  <2>1. WrittenWell(e)
    BY DEF WriteInv
  <2>2. Len(orig'.fields) \in {2, 3}
    BY <1>2, <2>1 DEF WrittenWell
  <2>3. Len(fields') = 0
    BY <1>4
  <2>. QED  BY <1>4, <2>2, <2>3 DEF FaithfulInv
<1>. QED  BY <1>4, <1>5, <1>6, <1>7, <1>8 DEF ParseInv

(* A head as it was written, asked for what it is, passes.                 *)
LEMMA ReadHeadKeeps ==
  ASSUME WriteInv, ParseInv, ReadHead
  PROVE  ParseInv'
<1>. DEFINE good == \/ orig.kind = "block"
                    \/ head.magic = "VRSK" /\ head.version = 2 /\ head.role = expect
<1>1. /\ pc = "head" /\ UNCHANGED writeVars
      /\ \/ good /\ pc' = "field" /\ UNCHANGED <<orig, head, buf, expect, off, fields, err>>
         \/ ~good /\ Fail("head")
  BY DEF ReadHead
<1>2. /\ orig \in made /\ buf \in Seq(Byte) /\ ReadInv /\ StageInv /\ HeadWell(head)
      /\ Faithful => FaithfulInv
  BY <1>1 DEF ParseInv
<1>3. CASE ~good
  <2>1. Fail("head")
    BY <1>1, <1>3
  <2>2. ~Faithful
    <3>. SUFFICES ASSUME Faithful PROVE FALSE
      OBVIOUS
    <3>1. WrittenWell(orig)
      BY <1>2 DEF WriteInv
    <3>2. /\ orig.kind \in {"key", "block"}
          /\ orig.head = FixedHead(orig.head.suite, orig.head.role)
      BY <3>1 DEF WrittenWell
    <3>3. orig.head.magic = "VRSK" /\ orig.head.version = 2
      <4>. DEFINE s == orig.head.suite
                  r == orig.head.role
      <4>1. FixedHead(s, r).magic = "VRSK" /\ FixedHead(s, r).version = 2
        BY DEF FixedHead
      <4>. QED  BY <3>2, <4>1
    <3>4. head = orig.head /\ (orig.kind = "key" => expect = head.role)
      BY DEF Faithful
    <3>. QED  BY <1>3, <3>2, <3>3, <3>4
  <2>. QED  BY <1>1, <2>1, <2>2, FailKeeps
<1>4. CASE good
  <2>1. /\ pc' = "field" /\ orig' = orig /\ head' = head /\ buf' = buf /\ expect' = expect
        /\ off' = off /\ fields' = fields /\ made' = made
    BY <1>1, <1>4 DEF writeVars
  <2>2. off = 0 /\ fields = <<>> /\ Len(fields) = 0
    BY <1>1, <1>2 DEF StageInv
  <2>3. ReadInv'
    BY <1>2, <2>1 DEF ReadInv, Values
  <2>4. StageInv'
    <3>1. orig.kind = "key" => head.magic = "VRSK" /\ head.version = 2
      BY <1>4
    <3>. HIDE DEF good
    <3>. QED  BY <2>1, <2>2, <3>1 DEF StageInv
  <2>5. Faithful' => FaithfulInv'
    <3>1. Faithful' => Faithful
      BY <2>1 DEF Faithful
    <3>2. FaithfulInv => FaithfulInv'
      BY <2>1 DEF FaithfulInv
    <3>. QED  BY <1>2, <3>1, <3>2
  <2>6. HeadWell(head')
    BY <1>2, <2>1
  <2>. QED  BY <1>2, <2>1, <2>3, <2>4, <2>5, <2>6 DEF ParseInv
<1>. QED  BY <1>3, <1>4

(* A field is read, or the bytes are not those that were written.          *)
LEMMA ReadFieldKeeps ==
  ASSUME WriteInv, ParseInv, ReadField
  PROVE  ParseInv'
<1>1. pc = "field" /\ UNCHANGED writeVars
  BY DEF ReadField
<1>2. /\ orig \in made /\ buf \in Seq(Byte) /\ ReadInv /\ StageInv /\ HeadWell(head)
      /\ Faithful => FaithfulInv
  BY <1>1 DEF ParseInv
<1>3. CASE off + 2 > Len(buf) /\ Fail("missing TLV length")
  <2>1. ~Faithful
    <3>. SUFFICES ASSUME Faithful PROVE FALSE
      OBVIOUS
    <3>1. off + 2 <= Len(buf)
      BY <1>1, FaithfulNext
    <3>2. off \in Nat /\ Len(buf) \in Nat
      BY <1>2, ReadSoFar
    <3>3. off + 2 > Len(buf)
      BY <1>3
    <3>. QED  BY <3>1, <3>2, <3>3
  <2>. QED  BY <1>1, <1>3, <2>1, FailKeeps
<1>4. CASE off + 2 <= Len(buf) /\ PastEnd(off) /\ Fail("TLV value runs past end")
  <2>1. ~Faithful
    BY <1>1, <1>4, FaithfulNext
  <2>. QED  BY <1>1, <1>4, <2>1, FailKeeps
<1>5. CASE /\ off + 2 <= Len(buf) /\ ~PastEnd(off)
           /\ fields' = Append(fields, [at |-> off, val |-> Slice(off + 3, EndAt(off))])
           /\ off' = EndAt(off)
           /\ pc' = IF MoreToRead(EndAt(off)) THEN "field" ELSE "check"
           /\ UNCHANGED <<orig, head, buf, expect, err>>
  <2>. DEFINE m == LengthAt(off)
              e == EndAt(off)
              v == Slice(off + 3, e)
              vs == Values
  <2>1. /\ orig' = orig /\ head' = head /\ buf' = buf /\ expect' = expect /\ made' = made
        /\ fields' = Append(fields, [at |-> off, val |-> v]) /\ off' = e
        /\ pc' = IF MoreToRead(e) THEN "field" ELSE "check"
    BY <1>1, <1>5 DEF writeVars
  <2>2. /\ vs \in FieldLists /\ Len(vs) = Len(fields) /\ Len(fields) \in Nat
        /\ \A i \in 1..Len(fields) : vs[i] = fields[i].val
        /\ off \in Nat /\ off <= Len(buf) /\ Len(buf) \in Nat
    BY <1>2, ReadSoFar
  <2>3. m \in Nat /\ m = buf[off + 1] * Base + buf[off + 2]
    BY <1>2, <1>5, <2>2, LengthNat DEF LengthAt
  <2>4. e = off + 2 + m /\ e <= Len(buf) /\ ~(e > Len(buf))
    <3>1. e = off + 2 + m
      BY DEF EndAt
    <3>2. ~(e > Len(buf))
      BY <1>5 DEF PastEnd
    <3>. HIDE DEF m, e
    <3>. QED  BY <2>2, <2>3, <3>1, <3>2
  <2>5. v = SubSeq(buf, off + 3, e)
    <3>. HIDE DEF e
    <3>. QED  BY <2>4 DEF Slice
  <2>6. fields \in Seq([at : Nat, val : Seq(Byte)]) /\ SubSeq(buf, 1, off) = Tlvs(vs)
    BY <1>2 DEF ReadInv
  <2>. HIDE DEF m, e, v
  <2>7. v \in Seq(Byte) /\ SubSeq(buf, off + 1, off + 2 + m) = Tlv(v)
    <3>1. v = SubSeq(buf, off + 3, off + 2 + m) /\ off + 2 + m <= Len(buf)
      BY <2>4, <2>5
    <3>2. buf \in Seq(Byte) /\ off \in Nat
      BY <1>2, <2>2
    <3>3. off + 2 <= Len(buf)
      BY <1>5
    <3>4. TakenAt(buf, off, m, v)
      BY <2>3, <3>1, <3>3 DEF TakenAt
    <3>. QED  BY <2>3, <3>2, <3>4, FieldRead
  <2>8. e \in Nat /\ off <= e /\ off < e
    BY <2>2, <2>3, <2>4
  <2>9. /\ Append(vs, v) \in FieldLists /\ SubSeq(buf, 1, e) = Tlvs(Append(vs, v))
    <3>1. SubSeq(buf, off + 1, e) = Tlv(v)
      BY <2>4, <2>7
    <3>2. buf \in Seq(Byte) /\ vs \in FieldLists /\ v \in Seq(Byte)
      BY <1>2, <2>2, <2>7
    <3>3. off \in Nat /\ e \in Nat /\ off <= e /\ e <= Len(buf)
      BY <2>2, <2>4, <2>8
    <3>4. SubSeq(buf, 1, off) = Tlvs(vs)
      BY <2>6
    <3>. HIDE DEF vs
    <3>. QED  BY <3>1, <3>2, <3>3, <3>4, RowGrows
  <2>10. /\ fields' \in Seq([at : Nat, val : Seq(Byte)]) /\ Len(fields') = Len(fields) + 1
         /\ \A i \in 1..Len(fields) : fields'[i] = fields[i]
         /\ fields'[Len(fields) + 1].val = v
         /\ [i \in DOMAIN fields' |-> fields'[i].val] = Append(vs, v)
    <3>1. vs = [i \in DOMAIN fields |-> fields[i].val]
      BY DEF Values
    <3>. DEFINE gs == fields'
    <3>2. gs = Append(fields, [at |-> off, val |-> v])
      BY <2>1
    <3>. HIDE DEF vs, gs
    <3>3. /\ gs \in Seq([at : Nat, val : Seq(Byte)]) /\ Len(gs) = Len(fields) + 1
          /\ \A i \in 1..Len(fields) : gs[i] = fields[i]
          /\ gs[Len(fields) + 1].val = v
          /\ [i \in DOMAIN gs |-> gs[i].val] = Append(vs, v)
      BY <2>2, <2>6, <2>7, <3>1, <3>2, ValuesAppend
    <3>. QED  BY <3>3 DEF gs
  <2>11. Values' = Append(vs, v)
    BY <2>10 DEF Values
  <2>12. ReadInv'
    <3>1. off' \in 0..Len(buf')
      BY <2>1, <2>2, <2>4, <2>8
    <3>2. SubSeq(buf', 1, off') = Tlvs(Values')
      BY <2>1, <2>9, <2>11
    <3>. QED  BY <2>10, <3>1, <3>2 DEF ReadInv
  <2>13. StageInv'
    <3>1. IF orig.kind = "key" THEN fields = <<>> \/ off < Len(buf) ELSE Len(fields) < 3
      BY <1>1, <1>2 DEF StageInv
    <3>2. orig.kind = "key" => head.magic = "VRSK" /\ head.version = 2
      BY <1>1, <1>2 DEF StageInv
    <3>3. pc' = "field" =>
            IF orig.kind = "key" THEN e < Len(buf) ELSE Len(fields) + 1 < 3
      BY <2>1 DEF MoreToRead
    <3>4. pc' = "check" =>
            IF orig.kind = "key" THEN e = Len(buf) ELSE Len(fields) + 1 = 3
      <4>1. pc' = "check" =>
              IF orig.kind = "key" THEN ~(e < Len(buf)) ELSE ~(Len(fields) + 1 < 3)
        BY <2>1 DEF MoreToRead
      <4>. QED  BY <2>2, <2>4, <2>8, <3>1, <4>1
    <3>5. Len(fields') > 0 /\ (pc' = "field" \/ pc' = "check")
      BY <2>1, <2>2, <2>10
    <3>. HIDE DEF vs
    <3>. QED  BY <2>1, <2>10, <3>2, <3>3, <3>4, <3>5 DEF StageInv
  <2>14. Faithful' => FaithfulInv'
    <3>. SUFFICES ASSUME Faithful' PROVE FaithfulInv'
      OBVIOUS
    <3>1. Faithful /\ FaithfulInv
      <4>1. Faithful
        BY <2>1 DEF Faithful
      <4>. QED  BY <1>2, <4>1
    <3>2. Len(fields) < Len(orig.fields) /\ v = orig.fields[Len(fields) + 1]
      BY <1>1, <3>1, FaithfulNext DEF v, e
    <3>3. \A i \in 1..Len(fields) : fields[i].val = orig.fields[i]
      BY <3>1 DEF FaithfulInv
    <3>4. Len(orig.fields) \in Nat /\ WrittenWell(orig)
      <4>1. WrittenWell(orig)
        BY <1>2 DEF WriteInv
      <4>. QED  BY <4>1 DEF WrittenWell
    <3>5. Len(fields') <= Len(orig'.fields)
      BY <2>1, <2>2, <2>10, <3>2, <3>4
    <3>6. \A i \in 1..Len(fields') : fields'[i].val = orig'.fields[i]
      <4>. SUFFICES ASSUME NEW i \in 1..Len(fields')
                    PROVE  fields'[i].val = orig'.fields[i]
        OBVIOUS
      <4>1. i \in 1..Len(fields) \/ i = Len(fields) + 1
        BY <2>2, <2>10
      <4>2. CASE i \in 1..Len(fields)
        BY <2>1, <2>10, <3>3, <4>2
      <4>3. CASE i = Len(fields) + 1
        BY <2>1, <2>10, <3>2, <4>3
      <4>. QED  BY <4>1, <4>2, <4>3
    <3>7. pc' = "check" => Len(fields') = Len(orig'.fields)
      <4>. SUFFICES ASSUME pc' = "check" PROVE Len(fields') = Len(orig'.fields)
        OBVIOUS
      <4>1. IF orig.kind = "key" THEN e = Len(buf) ELSE Len(fields) + 1 = 3
        BY <2>1, <2>12, <2>13 DEF StageInv
      <4>2. CASE orig.kind = "key"
        <5>1. WriteInv'
          BY <2>1, <1>1 DEF WriteInv, writeVars
        <5>2. ReadInv' /\ orig' \in made' /\ buf' \in Seq(Byte)
          BY <1>2, <2>1, <2>12
        <5>3. off' = Len(buf')
          BY <2>1, <4>1, <4>2
        <5>. DEFINE fs == orig.fields
                    k == Len(fields')
        <5>4. fs \in FieldLists /\ buf = Tlvs(fs)
          BY <3>1, <3>4 DEF WrittenWell, Faithful
        <5>5. k \in Nat /\ k <= Len(fs)
          BY <2>1, <2>2, <2>10, <3>5
        <5>6. Append(vs, v) = SubSeq(fs, 1, k)
          <6>. DEFINE w == SubSeq(fs, 1, k)
                      u == Append(vs, v)
          <6>1. w \in Seq(Seq(Byte)) /\ Len(w) = k /\ \A i \in 1..k : w[i] = fs[i]
            <7>. HIDE DEF fs, k
            <7>1. Len(fs) \in Nat
              BY <5>4 DEF FieldLists
            <7>. QED  BY <5>4, <5>5, <7>1 DEF FieldLists
          <6>2. u \in Seq(Seq(Byte)) /\ Len(u) = k
            <7>1. u \in Seq(Seq(Byte))
              BY <2>9 DEF FieldLists
            <7>2. Len(u) = Len(vs) + 1
              <8>. HIDE DEF vs
              <8>. QED  BY <2>2, <2>7 DEF FieldLists
            <7>. QED  BY <2>2, <2>10, <7>1, <7>2
          <6>3. \A i \in 1..k : u[i] = fs[i]
            <7>. SUFFICES ASSUME NEW i \in 1..k PROVE u[i] = fs[i]
              OBVIOUS
            <7>1. fields'[i].val = fs[i]
              BY <2>1, <3>6
            <7>2. [j \in DOMAIN fields' |-> fields'[j].val][i] = fields'[i].val
              <8>1. DOMAIN fields' = 1..k
                BY <2>10
              <8>. QED  BY <8>1
            <7>. QED  BY <2>10, <7>1, <7>2
          <6>. HIDE DEF w, u, k, fs
          <6>4. u = w
            <7>1. Len(u) = Len(w) /\ \A i \in 1..Len(u) : u[i] = w[i]
              BY <6>1, <6>2, <6>3
            <7>. QED  BY <6>1, <6>2, <7>1, SeqEqual
          <6>. QED  BY <6>4 DEF u, w
        <5>7. Len(Tlvs(SubSeq(fs, 1, k))) >= Len(Tlvs(fs))
          <6>1. Len(SubSeq(buf, 1, e)) = Len(buf)
            <7>1. e = Len(buf)
              BY <4>1, <4>2
            <7>2. SubSeq(buf, 1, Len(buf)) = buf
              BY <1>2
            <7>. QED  BY <7>1, <7>2
          <6>2. SubSeq(buf, 1, e) = Tlvs(SubSeq(fs, 1, k))
            BY <2>9, <5>6
          <6>3. Len(Tlvs(SubSeq(fs, 1, k))) = Len(buf) /\ Len(buf) \in Nat
            BY <2>2, <6>1, <6>2
          <6>4. Len(Tlvs(fs)) = Len(buf)
            BY <5>4
          <6>. QED  BY <6>3, <6>4
        <5>8. k = Len(fs)
          <6>. DEFINE o == Len(Tlvs(SubSeq(fs, 1, k)))
          <6>1. o = Len(Tlvs(SubSeq(fs, 1, k))) /\ o >= Len(Tlvs(fs))
            BY <5>7
          <6>. HIDE DEF fs, k, o
          <6>. QED  BY <5>4, <5>5, <6>1, AllRead
        <5>. QED  BY <2>1, <5>8
      <4>3. CASE orig.kind # "key"
        <5>1. Len(orig.fields) = 3
          BY <3>4, <4>3 DEF WrittenWell
        <5>. QED  BY <2>1, <2>10, <4>1, <4>3, <5>1
      <4>. QED  BY <4>2, <4>3
    <3>. QED  BY <2>1, <3>5, <3>6, <3>7 DEF FaithfulInv
  <2>15. HeadWell(head')
    BY <1>2, <2>1
  <2>16. orig' \in made' /\ buf' \in Seq(Byte) /\ pc' \in {"field", "check"}
    BY <1>2, <2>1
  <2>. QED  BY <2>12, <2>13, <2>14, <2>15, <2>16 DEF ParseInv
<1>. QED  BY <1>3, <1>4, <1>5 DEF ReadField

(* The last check passes what was written.                                 *)
LEMMA FinalCheckKeeps ==
  ASSUME WriteInv, ParseInv, FinalCheck
  PROVE  ParseInv'
<1>. DEFINE good == IF orig.kind = "key" THEN KidHolds ELSE UsedUp
            why == IF orig.kind = "key" THEN "key-id" ELSE "trailing bytes"
<1>1. /\ pc = "check" /\ UNCHANGED writeVars
      /\ \/ good /\ pc' = "accepted"
            /\ UNCHANGED <<orig, head, buf, expect, off, fields, err>>
         \/ ~good /\ Fail(why)
  BY DEF FinalCheck
<1>2. /\ orig \in made /\ buf \in Seq(Byte) /\ ReadInv /\ StageInv /\ HeadWell(head)
      /\ Faithful => FaithfulInv
  BY <1>1 DEF ParseInv
<1>3. CASE ~good
  <2>1. ~Faithful
    <3>. SUFFICES ASSUME Faithful PROVE good
      BY <1>3
    <3>1. /\ Len(fields) <= Len(orig.fields) /\ Len(fields) = Len(orig.fields)
          /\ \A i \in 1..Len(fields) : fields[i].val = orig.fields[i]
      BY <1>1, <1>2 DEF FaithfulInv
    <3>2. WrittenWell(orig) /\ Values = orig.fields /\ off = Len(buf)
      BY <1>2, <3>1, FaithfulRead
    <3>3. head = orig.head
      BY DEF Faithful
    <3>4. orig.kind = "key" => KidHolds
      BY <3>2, <3>3 DEF WrittenWell, KidHolds
    <3>. QED  BY <3>2, <3>4 DEF UsedUp
  <2>. HIDE DEF good, why
  <2>. QED  BY <1>1, <1>3, <2>1, FailKeeps
<1>4. CASE good
  <2>1. /\ pc' = "accepted" /\ orig' = orig /\ head' = head /\ buf' = buf
        /\ expect' = expect /\ off' = off /\ fields' = fields /\ made' = made
    BY <1>1, <1>4 DEF writeVars
  <2>2. ReadInv'
    BY <1>2, <2>1 DEF ReadInv, Values
  <2>3. StageInv'
    <3>1. /\ orig.kind = "key" => head.magic = "VRSK" /\ head.version = 2
          /\ IF orig.kind = "key" THEN off = Len(buf) /\ Len(fields) > 0
             ELSE Len(fields) = 3
      BY <1>1, <1>2 DEF StageInv
    <3>2. IF orig.kind = "key" THEN KidHolds' ELSE UsedUp'
      BY <1>4, <2>1 DEF KidHolds, UsedUp, Values
    <3>. HIDE DEF good
    <3>. QED  BY <2>1, <3>1, <3>2 DEF StageInv
  <2>4. Faithful' => FaithfulInv'
    <3>1. Faithful' => Faithful
      BY <2>1 DEF Faithful
    <3>2. FaithfulInv => FaithfulInv'
      BY <1>1, <2>1 DEF FaithfulInv
    <3>. QED  BY <1>2, <3>1, <3>2
  <2>5. HeadWell(head')
    BY <1>2, <2>1
  <2>. QED  BY <1>2, <2>1, <2>2, <2>3, <2>4, <2>5 DEF ParseInv
<1>. QED  BY <1>3, <1>4

-----------------------------------------------------------------------------
(* What has been written and what is under parse are as described, at      *)
(* every step.                                                             *)
THEOREM BundleInvariance == Spec => []BundleInv
<1>1. Init => BundleInv
  BY DEF Init, BundleInv, WriteInv, ParseInv
<1>2. BundleInv /\ [Next]_vars => BundleInv'
  <2>. SUFFICES ASSUME BundleInv, [Next]_vars PROVE BundleInv'
    OBVIOUS
  <2>1. WriteInv /\ ParseInv
    BY DEF BundleInv
  <2>2. UNCHANGED writeVars => WriteInv' /\ made \subseteq made'
    BY <2>1 DEF writeVars, WriteInv
  <2>3. CASE Writing
    BY <2>1, <2>3, WritingKeeps, ParseFrame DEF BundleInv
  <2>4. CASE ParseCall
    BY <2>1, <2>2, <2>4, ParseCallKeeps DEF BundleInv, ParseCall
  <2>5. CASE ParseStep
    <3>1. UNCHANGED writeVars
      BY <2>5 DEF ParseStep, ReadHead, ReadField, FinalCheck
    <3>2. ParseInv'
      BY <2>1, <2>5, ReadHeadKeeps, ReadFieldKeeps, FinalCheckKeeps DEF ParseStep
    <3>. QED  BY <2>2, <3>1, <3>2 DEF BundleInv
  <2>6. CASE Return
    <3>1. pc' = "idle" /\ UNCHANGED writeVars
      BY <2>6 DEF Return
    <3>2. ParseInv'
      BY <3>1 DEF ParseInv
    <3>. QED  BY <2>2, <3>1, <3>2 DEF BundleInv
  <2>7. CASE UNCHANGED vars
    <3>1. UNCHANGED writeVars /\ UNCHANGED parseVars
      BY <2>7 DEF vars
    <3>2. made \subseteq made' /\ WriteInv'
      BY <2>2, <3>1
    <3>. QED  BY <2>1, <3>1, <3>2, ParseFrame DEF BundleInv
  <2>. QED  BY <2>3, <2>4, <2>5, <2>6, <2>7 DEF Next
<1>. QED  BY <1>1, <1>2, PTL DEF Spec

(* What _parse_key or decrypt accepts is, byte for byte, what _tlv writes  *)
(* for the fields it was read as, whatever was done to the bytes.          *)
THEOREM OneEncoding == Spec => []Canonical
<1>1. BundleInv => Canonical
  <2>. SUFFICES ASSUME BundleInv, pc = "accepted" PROVE buf = Tlvs(Values)
    BY DEF Canonical
  <2>1. buf \in Seq(Byte) /\ ReadInv /\ StageInv
    BY DEF BundleInv, ParseInv
  <2>2. off = Len(buf)
    BY <2>1 DEF StageInv, UsedUp
  <2>3. SubSeq(buf, 1, Len(buf)) = buf
    BY <2>1
  <2>4. SubSeq(buf, 1, off) = Tlvs(Values)
    BY <2>1 DEF ReadInv
  <2>. QED  BY <2>2, <2>3, <2>4
<1>. QED  BY <1>1, BundleInvariance, PTL

(* What generate_*_keys and encrypt write is read back field by field, and *)
(* what they refuse to write does not fit a two-byte length.               *)
THEOREM WrittenIsReadBack == Spec => []RoundTrip
<1>1. BundleInv => RoundTrip
  <2>. SUFFICES ASSUME BundleInv PROVE RoundTrip
    OBVIOUS
  <2>1. \A fs \in refused : Len(Tlvs(fs)) > MaxLen
    BY DEF BundleInv, WriteInv
  <2>2. ASSUME pc \in {"accepted", "failed"}, buf = orig.bytes, head = orig.head,
               orig.kind = "key" => expect = head.role
        PROVE  pc = "accepted" /\ Values = orig.fields
    <3>1. Faithful
      BY <2>2 DEF Faithful
    <3>2. /\ WriteInv /\ ReadInv /\ orig \in made /\ buf \in Seq(Byte) /\ FaithfulInv
      BY <2>2, <3>1 DEF BundleInv, ParseInv
    <3>3. pc = "accepted"
      BY <2>2, <3>2 DEF FaithfulInv
    <3>4. /\ Len(fields) <= Len(orig.fields) /\ Len(fields) = Len(orig.fields)
          /\ \A i \in 1..Len(fields) : fields[i].val = orig.fields[i]
      BY <3>2, <3>3 DEF FaithfulInv
    <3>5. Values = orig.fields
      BY <3>1, <3>2, <3>4, FaithfulRead
    <3>. QED  BY <3>3, <3>5
  <2>. QED  BY <2>1, <2>2 DEF RoundTrip
<1>. QED  BY <1>1, BundleInvariance, PTL

(* SHAKE-256 as an injective function of its label, suite and parts.       *)
CollisionFree ==
  \A r1 \in PublicRoles, r2 \in PublicRoles, s1 \in SuiteNames, s2 \in SuiteNames,
     p1 \in Seq(Byte), p2 \in Seq(Byte) :
    Shake(r1, s1, p1) = Shake(r2, s2, p2) => r1 = r2 /\ s1 = s2 /\ p1 = p2

(* Under a collision-free _shake16 an accepted public bundle with the      *)
(* key-id of a generated one has its head and its key material, and a      *)
(* signing bundle is the same byte for byte.                               *)
THEOREM KidNamesTheBundle ==
  ASSUME CollisionFree
  PROVE  Spec => []KidBinds
<1>1. BundleInv => KidBinds
  <2>. SUFFICES ASSUME BundleInv, pc = "accepted", orig.kind = "key",
                       head.role \in PublicRoles,
                       NEW e \in made, e.kind = "key", e.head.role \in PublicRoles,
                       e.fields[1] = Values[1]
                PROVE  /\ e.head = head
                       /\ FlattenSeq(Tail(e.fields)) = FlattenSeq(Tail(Values))
                       /\ Len(Values) = 2 /\ head.role = SigPub => e.bytes = buf
    BY DEF KidBinds
  <2>1. /\ WrittenWell(e) /\ buf \in Seq(Byte) /\ ReadInv /\ StageInv /\ HeadWell(head)
    BY DEF BundleInv, WriteInv, ParseInv
  <2>2. /\ Values \in Seq(Seq(Byte)) /\ Len(Values) \in Nat /\ Len(Values) > 0
    <3>1. Len(fields) > 0
      BY <2>1 DEF StageInv
    <3>. QED  BY <2>1, <3>1, ReadSoFar DEF FieldLists
  <2>3. /\ e.fields \in Seq(Seq(Byte)) /\ Len(e.fields) \in {2, 3}
        /\ e.bytes = Tlvs(e.fields) /\ e.head.suite \in SuiteNames
        /\ e.head = FixedHead(e.head.suite, e.head.role)
        /\ e.head.role = SigPub => Len(e.fields) = 2
        /\ e.fields[1] = Shake(e.head.role, e.head.suite, FlattenSeq(Tail(e.fields)))
    BY <2>1 DEF WrittenWell, FieldLists
  <2>4. /\ Values[1] = Shake(head.role, head.suite, FlattenSeq(Tail(Values)))
        /\ head.magic = "VRSK" /\ head.version = 2 /\ head.suite \in SuiteNames
    BY <2>1 DEF StageInv, KidHolds, HeadWell
  <2>. DEFINE p == FlattenSeq(Tail(e.fields))
              q == FlattenSeq(Tail(Values))
  <2>5. p \in Seq(Byte) /\ q \in Seq(Byte)
    <3>1. \A f \in Seq(Seq(Byte)) : Len(f) > 0 => Tail(f) \in Seq(Seq(Byte))
      OBVIOUS
    <3>2. Tail(e.fields) \in Seq(Seq(Byte)) /\ Tail(Values) \in Seq(Seq(Byte))
      BY <2>2, <2>3, <3>1
    <3>. QED  BY <3>2, FlattenType
  <2>. HIDE DEF p, q
  <2>6. e.head.role = head.role /\ e.head.suite = head.suite /\ p = q
    <3>1. Shake(e.head.role, e.head.suite, p) = Shake(head.role, head.suite, q)
      BY <2>3, <2>4 DEF p, q
    <3>2. /\ e.head.role \in PublicRoles /\ head.role \in PublicRoles
          /\ e.head.suite \in SuiteNames /\ head.suite \in SuiteNames
      BY <2>3, <2>4
    <3>. QED  BY <2>5, <3>1, <3>2 DEF CollisionFree
  <2>7. e.head = head
    <3>1. head = [magic |-> "VRSK", version |-> 2, suite |-> head.suite, role |-> head.role]
      BY <2>1, <2>4 DEF HeadWell
    <3>2. e.head = [magic |-> "VRSK", version |-> 2, suite |-> head.suite,
                    role |-> head.role]
      BY <2>3, <2>6 DEF FixedHead
    <3>. QED  BY <3>1, <3>2
  <2>8. ASSUME Len(Values) = 2, head.role = SigPub PROVE e.bytes = buf
    <3>1. Len(e.fields) = 2
      BY <2>3, <2>6, <2>8
    <3>2. /\ e.fields = <<e.fields[1], e.fields[2]>> /\ p = e.fields[2]
          /\ Values = <<Values[1], Values[2]>> /\ q = Values[2]
      BY <2>2, <2>3, <2>8, <3>1, SecondIsPublic DEF p, q
    <3>3. e.fields = Values
      BY <2>6, <3>2
    <3>4. Canonical
      <4>1. off = Len(buf) /\ SubSeq(buf, 1, off) = Tlvs(Values)
        BY <2>1 DEF StageInv, ReadInv
      <4>2. SubSeq(buf, 1, Len(buf)) = buf
        BY <2>1
      <4>. QED  BY <4>1, <4>2 DEF Canonical
    <3>. QED  BY <2>3, <3>3, <3>4 DEF Canonical
  <2>. QED  BY <2>6, <2>7, <2>8 DEF p, q
<1>. QED  BY <1>1, BundleInvariance, PTL

-----------------------------------------------------------------------------
(* Why a parse ends.                                                       *)

(* What it has still to do: its stages, and the bytes past the offset.     *)
ToRead == CASE pc = "head"  -> Len(buf) + 3
            [] pc = "field" -> (Len(buf) - off) + 2
            [] pc = "check" -> 1
            [] OTHER -> 0

ParseUnderWay == pc \notin {"idle", "accepted", "failed"}

(* Every turn does some of it; an empty field takes the offset two bytes   *)
(* on.                                                                     *)
LEMMA ParseStepAdvances ==
  ASSUME BundleInv, ParseStep
  PROVE  ToRead' \in Nat /\ ToRead' < ToRead
<1>1. pc \in {"head", "field", "check"}
  BY DEF ParseStep, ReadHead, ReadField, FinalCheck
<1>2. buf \in Seq(Byte) /\ off \in 0..Len(buf) /\ Len(buf) \in Nat
  BY <1>1 DEF BundleInv, ParseInv, ReadInv
<1>3. ToRead \in Nat /\ ToRead > 0
  BY <1>1, <1>2 DEF ToRead
<1>4. CASE pc' \in {"accepted", "failed"}
  <2>1. ToRead' = 0
    BY <1>4 DEF ToRead
  <2>. QED  BY <1>3, <2>1
<1>5. CASE pc' \notin {"accepted", "failed"} /\ ReadHead
  <2>1. buf' = buf /\ off' = off /\ pc = "head" /\ pc' = "field" /\ off = 0
    BY <1>1, <1>5 DEF ReadHead, Fail, BundleInv, ParseInv, StageInv
  <2>. QED  BY <1>2, <2>1 DEF ToRead
<1>6. CASE pc' \notin {"accepted", "failed"} /\ ReadField
  <2>1. /\ off + 2 <= Len(buf) /\ ~PastEnd(off)
        /\ buf' = buf /\ off' = EndAt(off)
        /\ pc = "field" /\ pc' \in {"field", "check"}
    BY <1>6 DEF ReadField, Fail
  <2>2. LengthAt(off) \in Nat
    BY <1>2, <2>1, LengthNat DEF LengthAt
  <2>3. off + 2 <= off' /\ off' <= Len(buf) /\ off' \in Nat
    BY <1>2, <2>1, <2>2 DEF EndAt, PastEnd
  <2>. QED  BY <1>2, <2>1, <2>3 DEF ToRead
<1>7. CASE pc' \notin {"accepted", "failed"} /\ FinalCheck
  BY <1>7 DEF FinalCheck, Fail
<1>. QED  BY <1>4, <1>5, <1>6, <1>7 DEF ParseStep

(* While a parse is under way every step of it leaves less to do, and no   *)
(* other step touches it: _read_tlv never stands still, whatever the bytes *)
(* say (shield.py:214-219, 245-249).                                       *)
THEOREM ParsingAdvances ==
  Spec => [][ParseUnderWay => \/ ParseStep /\ ToRead' \in Nat /\ ToRead' < ToRead
                         \/ UNCHANGED parseVars]_vars
<1>1. BundleInv /\ [Next]_vars =>
        [ParseUnderWay => \/ ParseStep /\ ToRead' \in Nat /\ ToRead' < ToRead
                     \/ UNCHANGED parseVars]_vars
  <2>. SUFFICES ASSUME BundleInv, Next, ParseUnderWay
                PROVE  \/ ParseStep /\ ToRead' \in Nat /\ ToRead' < ToRead
                       \/ UNCHANGED parseVars
    OBVIOUS
  <2>1. CASE Writing
    BY <2>1 DEF Writing, GenerateRecipientKeys, GenerateSigningKeys, WriteSenderBlock
  <2>2. CASE ParseStep
    BY <2>2, ParseStepAdvances
  <2>3. CASE ParseCall \/ Return
    BY <2>3 DEF ParseCall, Return, ParseUnderWay
  <2>. QED  BY <2>1, <2>2, <2>3 DEF Next
<1>. QED  BY <1>1, BundleInvariance, PTL DEF Spec
=============================================================================
