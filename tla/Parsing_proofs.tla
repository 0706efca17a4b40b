--------------------------- MODULE Parsing_proofs ---------------------------
(***************************************************************************)
(* Lemmas about what the parsers are written with: which check a list of   *)
(* checks refuses at, and what a concatenation of fields or chunks is.     *)
(***************************************************************************)
EXTENDS Parsing, SequencesExt, WellFoundedInduction, SequenceTheorems, TLAPS

(* A set of naturals has a least element.                                  *)
LEMMA Least ==
  ASSUME NEW T, T \subseteq Nat, T # {}
  PROVE  \E x \in T : \A y \in T : x <= y
<1>1. PICK x \in T : \A y \in T : <<y, x>> \notin OpToRel(<, Nat)
  BY WFMin, NatLessThanWellFounded
<1>2. ASSUME NEW y \in T PROVE x <= y
  <2>1. ~(y < x)
    BY <1>1 DEF OpToRel
  <2>. QED  BY <2>1
<1>. QED  BY <1>2

(* A parser whose verdict is "none" has passed every check of its table.   *)
LEMMA NoFailure ==
  ASSUME NEW c, Len(c) \in Nat, FirstFailure(c) = "none"
  PROVE  \A i \in 1..Len(c) : c[i] = "none"
<1>. DEFINE failed == {i \in 1..Len(c) : c[i] # "none"}
<1>1. failed = {}
  <2>. SUFFICES ASSUME failed # {} PROVE FALSE
    OBVIOUS
  <2>1. failed \subseteq Nat
    OBVIOUS
  <2>2. PICK x \in failed : \A y \in failed : x <= y
    <3>. HIDE DEF failed
    <3>. QED  BY <2>1, Least
  <2>3. (CHOOSE i \in failed : \A j \in failed : i <= j) \in failed
    BY <2>2
  <2>. QED  BY <2>3 DEF FirstFailure
<1>. QED  BY <1>1

(* The verdict of a parser is that of the first check which does not pass. *)
LEMMA FirstFailureIs ==
  ASSUME NEW c, Len(c) \in Nat, NEW i \in 1..Len(c), c[i] # "none",
         \A j \in 1..(i-1) : c[j] = "none"
  PROVE  FirstFailure(c) = c[i]
<1>. DEFINE failed == {j \in 1..Len(c) : c[j] # "none"}
<1>1. i \in failed /\ failed \subseteq Nat
  OBVIOUS
<1>2. \A j \in failed : i <= j
  <2>. SUFFICES ASSUME NEW j \in failed, ~(i <= j) PROVE FALSE
    OBVIOUS
  <2>1. j \in 1..(i-1) /\ c[j] # "none"
    OBVIOUS
  <2>. QED  BY <2>1
<1>3. \A k \in failed : (\A j \in failed : k <= j) => k = i
  <2>. SUFFICES ASSUME NEW k \in failed, \A j \in failed : k <= j
                PROVE k = i
    OBVIOUS
  <2>1. k <= i /\ i <= k /\ k \in Nat /\ i \in Nat
    <3>. HIDE DEF failed
    <3>. QED  BY <1>1, <1>2
  <2>. QED  BY <2>1
<1>4. (CHOOSE k \in failed : \A j \in failed : k <= j) = i
  <2>. HIDE DEF failed
  <2>. QED  BY <1>1, <1>2, <1>3
<1>. QED  BY <1>1, <1>4 DEF FirstFailure

(* A parser whose checks all pass has the verdict "none".                  *)
LEMMA NoneFails ==
  ASSUME NEW c, \A i \in 1..Len(c) : c[i] = "none"
  PROVE  FirstFailure(c) = "none"
BY DEF FirstFailure

(* A parser that refuses does so at a check, after passing those before.   *)
LEMMA FailsSomewhere ==
  ASSUME NEW c, Len(c) \in Nat, FirstFailure(c) # "none"
  PROVE  \E i \in 1..Len(c) : /\ c[i] # "none" /\ FirstFailure(c) = c[i]
                              /\ \A j \in 1..(i-1) : c[j] = "none"
<1>. DEFINE failed == {i \in 1..Len(c) : c[i] # "none"}
<1>1. failed # {} /\ failed \subseteq Nat
  BY NoneFails
<1>2. PICK i \in failed : \A j \in failed : i <= j
  <2>. HIDE DEF failed
  <2>. QED  BY <1>1, Least
<1>3. \A j \in 1..(i-1) : c[j] = "none"
  <2>. SUFFICES ASSUME NEW j \in 1..(i-1), c[j] # "none" PROVE FALSE
    OBVIOUS
  <2>1. j \in failed /\ ~(i <= j)
    OBVIOUS
  <2>. QED  BY <1>2, <2>1
<1>4. FirstFailure(c) = c[i]
  BY <1>3, FirstFailureIs
<1>. QED  BY <1>3, <1>4

(* Two parsers one after the other: the second is asked if the first       *)
(* passes.                                                                 *)
LEMMA FirstFailureConcat ==
  ASSUME NEW S, NEW c \in Seq(S), NEW d \in Seq(S)
  PROVE  FirstFailure(c \o d)
           = IF FirstFailure(c) = "none" THEN FirstFailure(d) ELSE FirstFailure(c)
<1>. DEFINE cd == c \o d
<1>1. /\ Len(cd) = Len(c) + Len(d) /\ Len(c) \in Nat /\ Len(d) \in Nat
      /\ \A i \in 1..Len(c) : cd[i] = c[i]
      /\ \A i \in 1..Len(d) : cd[Len(c) + i] = d[i]
  BY ConcatProperties
<1>. HIDE DEF cd
<1>2. CASE FirstFailure(c) # "none"
  <2>1. PICK i \in 1..Len(c) : /\ c[i] # "none" /\ FirstFailure(c) = c[i]
                               /\ \A j \in 1..(i-1) : c[j] = "none"
    BY <1>1, <1>2, FailsSomewhere
  <2>2. i \in 1..Len(cd) /\ cd[i] = c[i] /\ \A j \in 1..(i-1) : cd[j] = "none"
    BY <1>1, <2>1
  <2>3. FirstFailure(cd) = cd[i]
    <3>1. Len(cd) \in Nat /\ cd[i] # "none"
      BY <1>1, <2>1, <2>2
    <3>. QED  BY <2>2, <3>1, FirstFailureIs
  <2>. QED  BY <1>2, <2>1, <2>2, <2>3 DEF cd
<1>3. CASE FirstFailure(c) = "none" /\ FirstFailure(d) # "none"
  <2>1. \A i \in 1..Len(c) : c[i] = "none"
    BY <1>1, <1>3, NoFailure
  <2>2. PICK i \in 1..Len(d) : /\ d[i] # "none" /\ FirstFailure(d) = d[i]
                               /\ \A j \in 1..(i-1) : d[j] = "none"
    BY <1>1, <1>3, FailsSomewhere
  <2>3. Len(c) + i \in 1..Len(cd) /\ cd[Len(c) + i] = d[i]
    BY <1>1
  <2>4. \A j \in 1..(Len(c) + i - 1) : cd[j] = "none"
    <3>. SUFFICES ASSUME NEW j \in 1..(Len(c) + i - 1) PROVE cd[j] = "none"
      OBVIOUS
    <3>1. CASE j <= Len(c)
      BY <1>1, <2>1, <3>1
    <3>2. CASE ~(j <= Len(c))
      <4>1. j - Len(c) \in 1..(i-1) /\ j - Len(c) \in 1..Len(d)
            /\ j = Len(c) + (j - Len(c))
        BY <1>1, <3>2
      <4>. QED  BY <1>1, <2>2, <4>1
    <3>. QED  BY <3>1, <3>2
  <2>5. FirstFailure(cd) = cd[Len(c) + i]
    <3>. DEFINE k == Len(c) + i
    <3>1. Len(cd) \in Nat /\ k \in 1..Len(cd) /\ cd[k] # "none"
          /\ \A j \in 1..(k - 1) : cd[j] = "none"
      BY <1>1, <2>2, <2>3, <2>4
    <3>. HIDE DEF k
    <3>2. FirstFailure(cd) = cd[k]
      BY <3>1, FirstFailureIs
    <3>. QED  BY <3>2 DEF k
  <2>. QED  BY <1>3, <2>2, <2>3, <2>5 DEF cd
<1>4. CASE FirstFailure(c) = "none" /\ FirstFailure(d) = "none"
  <2>1. /\ \A i \in 1..Len(c) : c[i] = "none"
        /\ \A i \in 1..Len(d) : d[i] = "none"
    BY <1>1, <1>4, NoFailure
  <2>2. ASSUME NEW i \in 1..Len(cd) PROVE cd[i] = "none"
    <3>1. CASE i <= Len(c)
      BY <1>1, <2>1, <3>1
    <3>2. CASE ~(i <= Len(c))
      <4>1. i - Len(c) \in 1..Len(d) /\ i = Len(c) + (i - Len(c))
        BY <1>1, <3>2
      <4>. QED  BY <1>1, <2>1, <4>1
    <3>. QED  BY <3>1, <3>2
  <2>3. FirstFailure(cd) = "none"
    BY <2>2, NoneFails
  <2>. QED  BY <1>4, <2>3 DEF cd
<1>. QED  BY <1>2, <1>3, <1>4

(* A parser of one check has its verdict.                                  *)
LEMMA SingleFailure == ASSUME NEW v PROVE FirstFailure(<<v>>) = v
<1>. DEFINE c == <<v>>
<1>1. Len(c) = 1 /\ c[1] = v
  OBVIOUS
<1>. HIDE DEF c
<1>2. CASE v = "none"
  <2>1. \A i \in 1..Len(c) : c[i] = "none"
    BY <1>1, <1>2
  <2>2. FirstFailure(c) = "none"
    BY <2>1, NoneFails
  <2>. QED  BY <1>2, <2>2 DEF c
<1>3. CASE v # "none"
  <2>1. Len(c) \in Nat /\ 1 \in 1..Len(c) /\ c[1] # "none"
        /\ \A j \in 1..(1-1) : c[j] = "none"
    BY <1>1, <1>3
  <2>2. FirstFailure(c) = c[1]
    BY <2>1, FirstFailureIs
  <2>. QED  BY <1>1, <2>2 DEF c
<1>. QED  BY <1>2, <1>3

-----------------------------------------------------------------------------
(* The partial concatenations of s, as the library's recursion has them.   *)
Partials(s, n, f) ==
  f = [i \in 1..n |-> IF i = 1 THEN s[i] ELSE f[i-1] \o s[i]]

(* The recursion has a solution at every length.                           *)
LEMMA PartialsExist ==
  ASSUME NEW s, NEW n \in Nat
  PROVE  \E f : Partials(s, n, f)
<1>. DEFINE T == {m \in Nat : ~\E f : Partials(s, m, f)}
<1>1. SUFFICES T = {}
  OBVIOUS
<1>2. ASSUME T # {} PROVE FALSE
  <2>1. T \subseteq Nat
    OBVIOUS
  <2>2. PICK m \in T : \A k \in T : m <= k
    <3>. HIDE DEF T
    <3>. QED  BY <1>2, <2>1, Least
  <2>3. m # 0
    <3>1. Partials(s, 0, <<>>)
      BY DEF Partials
    <3>. QED  BY <2>2, <3>1
  <2>4. m \in Nat /\ m - 1 \in Nat /\ m - 1 \notin T
    <3>1. m \in Nat
      BY <2>2
    <3>2. m - 1 \in Nat /\ ~(m <= m - 1)
      BY <2>3, <3>1
    <3>. HIDE DEF T
    <3>. QED  BY <2>2, <3>1, <3>2
  <2>5. PICK f : Partials(s, m-1, f)
    BY <2>4
  <2>. DEFINE v(i) == IF i = 1 THEN s[i] ELSE f[i-1] \o s[i]
              g == [i \in 1..m |-> v(i)]
  <2>6. f = [i \in 1..(m-1) |-> v(i)]
    BY <2>5 DEF Partials
  <2>7. \A i \in 1..(m-1) : g[i] = f[i]
    <3>. SUFFICES ASSUME NEW i \in 1..(m-1) PROVE g[i] = f[i]
      OBVIOUS
    <3>1. i \in 1..m
      BY <2>4
    <3>2. g[i] = v(i)
      BY <3>1
    <3>3. f[i] = v(i)
      <4>. HIDE DEF v
      <4>. QED  BY <2>6
    <3>. QED  BY <3>2, <3>3
  <2>8. \A i \in 1..m : v(i) = IF i = 1 THEN s[i] ELSE g[i-1] \o s[i]
    <3>. SUFFICES ASSUME NEW i \in 1..m, i # 1
                  PROVE  f[i-1] = g[i-1]
      OBVIOUS
    <3>1. i - 1 \in 1..(m-1)
      BY <2>4
    <3>. HIDE DEF g
    <3>. QED  BY <2>7, <3>1
  <2>9. Partials(s, m, g)
    <3>1. g = [i \in 1..m |-> v(i)]
      OBVIOUS
    <3>. HIDE DEF v, g
    <3>. QED  BY <2>8, <3>1 DEF Partials
  <2>. QED  BY <2>2, <2>9
<1>. QED  BY <1>2

(* A solution for a longer sequence extends those for its beginnings.      *)
LEMMA PartialsAgree ==
  ASSUME NEW s, NEW t, NEW n \in Nat, NEW m \in Nat, n <= m,
         \A i \in 1..n : s[i] = t[i],
         NEW f, Partials(s, n, f), NEW g, Partials(t, m, g)
  PROVE  \A i \in 1..n : f[i] = g[i]
<1>. DEFINE T == {i \in 1..n : f[i] # g[i]}
<1>1. SUFFICES ASSUME T # {} PROVE FALSE
  OBVIOUS
<1>2. T \subseteq Nat
  OBVIOUS
<1>3. PICK i \in T : \A j \in T : i <= j
  <2>. HIDE DEF T
  <2>. QED  BY <1>1, <1>2, Least
<1>4. i \in 1..n /\ i \in 1..m /\ i \in Nat
  OBVIOUS
<1>5. f[i] = IF i = 1 THEN s[i] ELSE f[i-1] \o s[i]
  BY <1>4 DEF Partials
<1>6. g[i] = IF i = 1 THEN t[i] ELSE g[i-1] \o t[i]
  BY <1>4 DEF Partials
<1>7. i # 1 => f[i-1] = g[i-1]
  <2>. SUFFICES ASSUME i # 1, f[i-1] # g[i-1] PROVE FALSE
    OBVIOUS
  <2>1. i - 1 \in T /\ ~(i <= i - 1)
    BY <1>4
  <2>. QED  BY <1>3, <2>1
<1>. QED  BY <1>3, <1>4, <1>5, <1>6, <1>7

(* FlattenSeq is the last of them.                                         *)
LEMMA FlattenIsPartial ==
  ASSUME NEW s, NEW n \in Nat \ {0}, Len(s) = n, NEW f, Partials(s, n, f)
  PROVE  FlattenSeq(s) = f[n]
<1>. DEFINE h == CHOOSE h : h = [i \in 1..n |-> IF i = 1 THEN s[i] ELSE h[i-1] \o s[i]]
<1>1. Partials(s, n, h)
  BY DEF Partials
<1>2. FlattenSeq(s) = h[n]
  BY DEF FlattenSeq
<1>. HIDE DEF h
<1>3. \A i \in 1..n : h[i] = f[i]
  BY <1>1, PartialsAgree
<1>. QED  BY <1>2, <1>3

(* A sequence of no sequences has no elements.                             *)
LEMMA FlattenEmpty == FlattenSeq(<<>>) = <<>>
BY DEF FlattenSeq

(* One sequence more adds its elements.                                    *)
LEMMA FlattenAppend ==
  ASSUME NEW S, NEW p \in Seq(Seq(S)), NEW x \in Seq(S)
  PROVE  FlattenSeq(Append(p, x)) = FlattenSeq(p) \o x
<1>. DEFINE n == Len(p)
            m == n + 1
            q == Append(p, x)
<1>1. /\ n \in Nat /\ m \in Nat /\ m # 0 /\ m \in 1..m /\ n <= m /\ m - 1 = n
      /\ Len(p) = n /\ Len(q) = m /\ q[m] = x /\ \A i \in 1..n : p[i] = q[i]
  OBVIOUS
<1>0. n = 0 => p = <<>>
  OBVIOUS
<1>. HIDE DEF n, m, q
<1>2. PICK f : Partials(p, n, f)
  BY <1>1, PartialsExist
<1>3. PICK g : Partials(q, m, g)
  BY <1>1, PartialsExist
<1>4. g[m] = IF m = 1 THEN q[m] ELSE g[m-1] \o q[m]
  BY <1>1, <1>3 DEF Partials
<1>5. FlattenSeq(q) = g[m]
  BY <1>1, <1>3, FlattenIsPartial
<1>6. CASE n = 0
  <2>1. p = <<>> /\ m = 1
    BY <1>0, <1>1, <1>6 DEF m
  <2>2. FlattenSeq(p) = <<>>
    BY <2>1, FlattenEmpty
  <2>3. <<>> \o x = x
    OBVIOUS
  <2>. QED  BY <1>1, <1>4, <1>5, <2>1, <2>2, <2>3 DEF q
<1>7. CASE n # 0
  <2>1. m # 1 /\ n \in Nat \ {0} /\ n \in 1..n
    BY <1>1, <1>7 DEF m
  <2>2. FlattenSeq(p) = f[n]
    BY <1>1, <1>2, <2>1, FlattenIsPartial
  <2>3. f[n] = g[n]
    <3>1. n <= m /\ n \in Nat /\ m \in Nat
      BY <1>1
    <3>2. \A i \in 1..n : p[i] = q[i]
      BY <1>1
    <3>3. \A i \in 1..n : f[i] = g[i]
      BY <1>2, <1>3, <3>1, <3>2, PartialsAgree
    <3>. QED  BY <2>1, <3>3
  <2>. QED  BY <1>1, <1>4, <1>5, <2>1, <2>2, <2>3 DEF q
<1>. QED  BY <1>6, <1>7

(* So the concatenation is a sequence of the same elements.                *)
LEMMA FlattenType ==
  ASSUME NEW S, NEW p \in Seq(Seq(S))
  PROVE  FlattenSeq(p) \in Seq(S)
<1>. DEFINE n == Len(p)
            T == {i \in 1..n : FlattenSeq(SubSeq(p, 1, i)) \notin Seq(S)}
<1>0. <<>> \in Seq(S)
  OBVIOUS
<1>1. n \in Nat
  OBVIOUS
<1>2. CASE n = 0
  <2>1. p = <<>>
    BY <1>2
  <2>. QED  BY <1>0, <2>1, FlattenEmpty
<1>3. CASE n # 0 /\ T # {}
  <2>1. T \subseteq Nat
    OBVIOUS
  <2>2. PICK i \in T : \A j \in T : i <= j
    <3>. HIDE DEF T
    <3>. QED  BY <1>3, <2>1, Least
  <2>. DEFINE q == SubSeq(p, 1, i-1)
  <2>3. i \in 1..n /\ q \in Seq(Seq(S)) /\ p[i] \in Seq(S)
        /\ SubSeq(p, 1, i) = Append(q, p[i]) /\ (i = 1 => q = <<>>)
    OBVIOUS
  <2>4. FlattenSeq(q) \in Seq(S)
    <3>1. CASE i = 1
      <4>. HIDE DEF q
      <4>. QED  BY <1>0, <2>3, <3>1, FlattenEmpty
    <3>2. CASE i # 1
      <4>1. i - 1 \in 1..n /\ ~(i <= i - 1)
        BY <2>3, <3>2
      <4>2. i - 1 \notin T
        <5>. HIDE DEF T
        <5>. QED  BY <2>2, <4>1
      <4>. QED  BY <4>1, <4>2
    <3>. QED  BY <3>1, <3>2
  <2>5. FlattenSeq(Append(q, p[i])) = FlattenSeq(q) \o p[i]
    <3>. HIDE DEF q
    <3>. QED  BY <2>3, FlattenAppend
  <2>6. FlattenSeq(SubSeq(p, 1, i)) \in Seq(S)
    <3>. HIDE DEF q
    <3>. QED  BY <2>3, <2>4, <2>5, ConcatProperties
  <2>. QED  BY <2>2, <2>6
<1>4. CASE n # 0 /\ T = {}
  <2>1. n \in 1..n /\ SubSeq(p, 1, n) = p
    BY <1>4
  <2>2. n \notin T
    BY <1>4
  <2>. QED  BY <2>1, <2>2
<1>. QED  BY <1>2, <1>3, <1>4
=============================================================================
