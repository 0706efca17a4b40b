-------------------------- MODULE CrossImpl_proofs --------------------------
(***************************************************************************)
(* What the exit status of interop/cross_impl.py says of a run, for any    *)
(* pairs, iterations and defects of the libraries.                         *)
(***************************************************************************)
EXTENDS CrossImpl, SequenceTheorems, TLAPS

-----------------------------------------------------------------------------
(* The inductive invariant.                                                *)

(* Round n of pair p has made its first k comparisons.                     *)
RoundMade(made, p, n, k) == \A j \in 1 .. k : <<Pairs[p], n, StepsOf(p)[j]>> \in made

(* Unless something disagreed, the pairs before this one are through all   *)
(* their rounds, this one is through iter of them and at - 1 comparisons.  *)
AllMadeSoFar ==
  seen.bad = {} =>
    /\ \A p \in 1 .. pair - 1, n \in 0 .. Iterations - 1 :
         RoundMade(seen.made, p, n, Len(StepsOf(p)))
    /\ Running => /\ \A n \in 0 .. iter - 1 : RoundMade(seen.made, pair, n, Len(StepsOf(pair)))
                  /\ RoundMade(seen.made, pair, iter, at - 1)

ResultsSoFar ==
  /\ results \in Seq(Nat) /\ Len(results) = pair - 1
  /\ \A p \in 1 .. pair - 1 : \/ results[p] = Iterations
                              \/ \E c \in seen.bad : c.name = Pairs[p]

(* A run under way.                                                        *)
Place ==
  /\ pair \in 1 .. Len(Pairs) + 1
  /\ iter \in 0 .. Iterations - 1
  /\ Running => at \in 1 .. Len(StepsOf(pair))

Underway == /\ Place
            /\ failed \in BOOLEAN /\ (failed <=> seen.bad # {})
            /\ ResultsSoFar
            /\ AllMadeSoFar

(* The runs that are over: a sequence, of which the properties hold.       *)
Over == /\ \E S : runs \in Seq(S)
        /\ StatusTellsAll /\ AllCompared

IInv == Over /\ (pair # 0 => Underway)

-----------------------------------------------------------------------------
(* The pairs and their comparisons.                                        *)

(* The pairs are those of ML-KEM followed by those of ML-DSA.              *)
LEMMA PairsAre ==
  /\ Len(Kems) \in Nat /\ Len(Sigs) \in Nat /\ Len(Pairs) = Len(Kems) + Len(Sigs)
  /\ Pairs \in Seq(STRING)
  /\ \A p \in DOMAIN Kems : p \in 1 .. Len(Pairs) /\ Pairs[p] = Kems[p] /\ p <= Len(Kems)
  /\ \A p \in DOMAIN Sigs : /\ Len(Kems) + p \in 1 .. Len(Pairs)
                            /\ Pairs[Len(Kems) + p] = Sigs[p]
                            /\ ~(Len(Kems) + p <= Len(Kems))
BY ConcatProperties, CrossImplAssumption DEF Pairs

(* A round has three comparisons or six, and they cover the ways that the  *)
(* properties name.                                                        *)
LEMMA StepsAre ==
  ASSUME NEW p \in Nat
  PROVE  /\ Len(StepsOf(p)) \in Nat /\ Len(StepsOf(p)) >= 1
         /\ p <= Len(Kems) => \A w \in KemWays : \E j \in 1 .. Len(StepsOf(p)) : StepsOf(p)[j] = w
         /\ ~(p <= Len(Kems)) =>
              \A w \in SigWays : \E j \in 1 .. Len(StepsOf(p)) : StepsOf(p)[j] = w
<1>1. Len(KemSteps) = 3 /\ Len(SigSteps) = 6
  BY DEF KemSteps, SigSteps
<1>2. ASSUME NEW w \in KemWays PROVE \E j \in 1 .. 3 : KemSteps[j] = w
  <2>1. KemSteps[2] = "ref opens pq's" /\ KemSteps[3] = "pq opens ref's"
    BY DEF KemSteps
  <2>2. w = KemSteps[2] \/ w = KemSteps[3] BY <2>1, Zenon DEF KemWays
  <2>3. 2 \in 1 .. 3 /\ 3 \in 1 .. 3 OBVIOUS
  <2> QED BY <2>2, <2>3, Zenon
<1>3. ASSUME NEW w \in SigWays PROVE \E j \in 1 .. 6 : SigSteps[j] = w
  <2>1. /\ SigSteps[1] = "pq accepts ref's" /\ SigSteps[2] = "pq refuses flipped"
        /\ SigSteps[3] = "ref accepts pq's" /\ SigSteps[4] = "ref refuses flipped"
    BY DEF SigSteps
  <2>2. w = SigSteps[1] \/ w = SigSteps[2] \/ w = SigSteps[3] \/ w = SigSteps[4]
    BY <2>1, Zenon DEF SigWays
  <2>3. 1 \in 1 .. 6 /\ 2 \in 1 .. 6 /\ 3 \in 1 .. 6 /\ 4 \in 1 .. 6 OBVIOUS
  <2> QED BY <2>2, <2>3, Zenon
<1>4. CASE p <= Len(Kems)
  <2>1. StepsOf(p) = KemSteps BY <1>4 DEF StepsOf
  <2>2. Len(StepsOf(p)) = 3 BY <1>1, <2>1
  <2>3. \A w \in KemWays : \E j \in 1 .. Len(StepsOf(p)) : StepsOf(p)[j] = w
    BY <1>2, <2>1, <2>2, Zenon
  <2> QED BY <1>4, <2>2, <2>3
<1>5. CASE ~(p <= Len(Kems))
  <2>1. StepsOf(p) = SigSteps BY <1>5 DEF StepsOf
  <2>2. Len(StepsOf(p)) = 6 BY <1>1, <2>1
  <2>3. \A w \in SigWays : \E j \in 1 .. Len(StepsOf(p)) : StepsOf(p)[j] = w
    BY <1>3, <2>1, <2>2, Zenon
  <2> QED BY <1>5, <2>2, <2>3
<1> QED BY <1>4, <1>5

-----------------------------------------------------------------------------
(* The steps.                                                              *)

(* Nothing has run.                                                        *)
LEMMA InitOK == Init => IInv
<1> SUFFICES ASSUME Init PROVE IInv OBVIOUS
<1>1. runs \in Seq({}) /\ DOMAIN runs = {}
  BY DEF Init
<1> QED BY <1>1 DEF Init, IInv, Over, StatusTellsAll, AllCompared, EachReachedTold

(* The properties of the runs that are over speak of runs only.            *)
LEMMA OverStays ==
  ASSUME Over, UNCHANGED runs PROVE Over'
BY DEF Over, StatusTellsAll, AllCompared, EachReachedTold

(* A run begins with nothing compared and nothing failed.                  *)
LEMMA StartOK ==
  ASSUME IInv, Start PROVE IInv'
<1>1. Over' BY OverStays DEF IInv, Start
<1>2. Place'
  BY PairsAre, StepsAre, CrossImplAssumption DEF Place, Start, Running, StepsOf
<1>3. ResultsSoFar'
  BY DEF ResultsSoFar, Start
<1>4. AllMadeSoFar'
  BY StepsAre, CrossImplAssumption DEF AllMadeSoFar, Start, RoundMade, Running
<1>5. failed' \in BOOLEAN /\ (failed' <=> seen.bad' # {})
  BY DEF Start
<1> QED BY <1>1, <1>2, <1>3, <1>4, <1>5 DEF IInv, Underway

(* Drawing a message compares nothing.                                     *)
LEMMA DrawOK ==
  ASSUME IInv, DrawMessage PROVE IInv'
<1>1. Over' BY OverStays DEF IInv, DrawMessage
<1>2. pair # 0 /\ Underway
  BY PairsAre DEF IInv, DrawMessage, Running
<1>3. Place' /\ ResultsSoFar' /\ AllMadeSoFar'
  BY <1>2 DEF Underway, Place, ResultsSoFar, AllMadeSoFar, DrawMessage, Running, RoundMade, StepsOf
<1> QED BY <1>1, <1>2, <1>3 DEF IInv, Underway, DrawMessage

(* A comparison that agrees: it is made, and the place moves on past it.   *)
LEMMA AgreeOK ==
  ASSUME IInv, Running, NEW x, Agree(x), UNCHANGED <<defect, seed, counter>>
  PROVE  IInv'
<1> DEFINE here == <<Pairs[pair], iter, StepsOf(pair)[at]>>
<1>1. Over' BY OverStays DEF IInv, Agree
<1>2. pair # 0 /\ Underway /\ pair \in 1 .. Len(Pairs)
  BY PairsAre DEF IInv, Running
<1>3. at \in 1 .. Len(StepsOf(pair)) /\ Len(StepsOf(pair)) \in Nat /\ iter \in 0 .. Iterations - 1
  BY <1>2, StepsAre, PairsAre DEF Underway, Place, Running
<1>4. seen' = [made |-> seen.made \union {here}, bad |-> seen.bad]
  BY DEF Agree, Seen
<1>5. failed' \in BOOLEAN /\ (failed' <=> seen'.bad # {})
  <2>1. failed' = failed BY Zenon DEF Agree
  <2>3. seen'.bad = seen.bad BY <1>4
  <2>2. failed \in BOOLEAN /\ (failed <=> seen.bad # {}) BY <1>2 DEF Underway
  <2> QED BY <2>1, <2>2, <2>3, Zenon
<1>6. seen.bad = {} =>
        /\ \A p \in 1 .. pair - 1, n \in 0 .. Iterations - 1 :
             RoundMade(seen'.made, p, n, Len(StepsOf(p)))
        /\ \A n \in 0 .. iter - 1 : \A j \in 1 .. Len(StepsOf(pair)) :
             <<Pairs[pair], n, StepsOf(pair)[j]>> \in seen'.made
        /\ \A j \in 1 .. at : <<Pairs[pair], iter, StepsOf(pair)[j]>> \in seen'.made
  <2>. SUFFICES ASSUME seen.bad = {} PROVE
        /\ \A p \in 1 .. pair - 1, n \in 0 .. Iterations - 1 :
             RoundMade(seen'.made, p, n, Len(StepsOf(p)))
        /\ \A n \in 0 .. iter - 1 : \A j \in 1 .. Len(StepsOf(pair)) :
             <<Pairs[pair], n, StepsOf(pair)[j]>> \in seen'.made
        /\ \A j \in 1 .. at : <<Pairs[pair], iter, StepsOf(pair)[j]>> \in seen'.made
    OBVIOUS
  <2>1. /\ \A p \in 1 .. pair - 1, n \in 0 .. Iterations - 1 :
             RoundMade(seen.made, p, n, Len(StepsOf(p)))
        /\ \A n \in 0 .. iter - 1 : RoundMade(seen.made, pair, n, Len(StepsOf(pair)))
        /\ RoundMade(seen.made, pair, iter, at - 1)
    BY <1>2 DEF Underway, AllMadeSoFar
  <2>2. seen.made \subseteq seen'.made /\ here \in seen'.made
    <3>1. seen'.made = seen.made \union {here}
      BY <1>4
    <3>. HIDE DEF here
    <3>. QED  BY <3>1
  <2>3. \A p, n, k : RoundMade(seen.made, p, n, k) => RoundMade(seen'.made, p, n, k)
    BY <2>2, Zenon DEF RoundMade
  <2>4. \A j \in 1 .. at : j \in 1 .. at - 1 \/ j = at
    BY <1>3
  <2>5. ASSUME NEW j \in 1 .. at
        PROVE  <<Pairs[pair], iter, StepsOf(pair)[j]>> \in seen'.made
    <3>1. CASE j = at
      BY <2>2, <3>1, Zenon
    <3>2. CASE j \in 1 .. at - 1
      BY <2>1, <2>3, <3>2, Zenon DEF RoundMade
    <3>. QED  BY <2>4, <3>1, <3>2
  <2>6. \A n \in 0 .. iter - 1 : \A j \in 1 .. Len(StepsOf(pair)) :
             <<Pairs[pair], n, StepsOf(pair)[j]>> \in seen'.made
    BY <2>1, <2>3, Zenon DEF RoundMade
  <2>. QED  BY <2>1, <2>3, <2>5, <2>6, Zenon
<1>7. CASE at < Len(StepsOf(pair))
  <2>1. at' = at + 1 /\ UNCHANGED <<pair, iter, msg, results>>
    BY <1>7 DEF Agree
  <2>2. Place' BY <2>1, <1>2, <1>3, <1>7 DEF Place, Underway, Running
  <2>3. ResultsSoFar' BY <2>1, <1>2, <1>4 DEF Underway, ResultsSoFar
  <2>4. AllMadeSoFar'
    BY <2>1, <1>2, <1>3, <1>4, <1>6 DEF AllMadeSoFar, RoundMade, Running
  <2> QED BY <1>1, <1>5, <2>2, <2>3, <2>4 DEF IInv, Underway
<1>8. CASE ~(at < Len(StepsOf(pair))) /\ iter + 1 < Iterations
  <2>1. at' = 1 /\ iter' = iter + 1 /\ UNCHANGED <<pair, results>>
    BY <1>8 DEF Agree, NextRound
  <2>2. Place'
    BY <2>1, <1>2, <1>3, <1>8, CrossImplAssumption DEF Place, Underway, Running
  <2>3. ResultsSoFar' BY <2>1, <1>2, <1>4 DEF Underway, ResultsSoFar
  <2>4. AllMadeSoFar'
    <3>1. at = Len(StepsOf(pair)) /\ seen'.bad = seen.bad BY <1>3, <1>4, <1>8
    <3>2. ASSUME seen.bad = {}, NEW n \in 0 .. iter'- 1
          PROVE  RoundMade(seen'.made, pair, n, Len(StepsOf(pair)))
      <4>1. n = iter \/ n \in 0 .. iter - 1 BY <1>3, <2>1
      <4>2. CASE n = iter BY <3>1, <3>2, <4>2, <1>6, Zenon DEF RoundMade
      <4>3. CASE n \in 0 .. iter - 1 BY <3>2, <4>3, <1>6, Zenon DEF RoundMade
      <4> QED BY <4>1, <4>2, <4>3
    <3>3. RoundMade(seen'.made, pair', iter', at' - 1) BY <2>1 DEF RoundMade
    <3> QED BY <3>1, <3>2, <3>3, <2>1, <1>6, Zenon DEF AllMadeSoFar
  <2> QED BY <1>1, <1>5, <2>2, <2>3, <2>4 DEF IInv, Underway
<1>9. CASE ~(at < Len(StepsOf(pair))) /\ ~(iter + 1 < Iterations)
  <2>1. /\ at' = 1 /\ iter' = 0 /\ pair' = pair + 1
        /\ results' = Append(results, iter + 1)
    BY <1>9 DEF Agree, NextPair, NextRound
  <2>2. at = Len(StepsOf(pair)) /\ iter + 1 = Iterations
    BY <1>3, <1>9, CrossImplAssumption
  <2>3. Place'
    BY <2>1, <1>2, <1>3, PairsAre, StepsAre, CrossImplAssumption DEF Place, Underway, Running
  <2>4. ResultsSoFar'
    BY <2>1, <2>2, <1>2, <1>3, <1>4, PairsAre, CrossImplAssumption DEF Underway, ResultsSoFar
  <2>5. AllMadeSoFar'
    <3> SUFFICES ASSUME seen.bad = {}
                 PROVE  \A p \in 1 .. pair, n \in 0 .. Iterations - 1 :
                          RoundMade(seen'.made, p, n, Len(StepsOf(p)))
      <4>1. \A n \in 0 .. iter' - 1 : FALSE BY <2>1
      <4>2. pair' - 1 = pair /\ iter' = 0 /\ at' - 1 = 0 /\ seen'.bad = seen.bad
        BY <2>1, <1>2, <1>4
      <4>3. RoundMade(seen'.made, pair', iter', at' - 1) BY <4>2 DEF RoundMade
      <4> QED BY <4>1, <4>2, <4>3 DEF AllMadeSoFar
    <3>1. ASSUME NEW n \in 0 .. Iterations - 1
          PROVE  RoundMade(seen'.made, pair, n, Len(StepsOf(pair)))
      <4>1. n = iter \/ n \in 0 .. iter - 1 BY <1>3, <2>2
      <4>2. CASE n = iter BY <4>2, <1>6, <2>2 DEF RoundMade
      <4>3. CASE n \in 0 .. iter - 1 BY <4>3, <1>6 DEF RoundMade
      <4> QED BY <4>1, <4>2, <4>3
    <3>2. \A p \in 1 .. pair : p = pair \/ p \in 1 .. pair - 1 BY <1>2, PairsAre
    <3> QED BY <3>1, <3>2, <1>6, Zenon
  <2> QED BY <1>1, <1>5, <2>3, <2>4, <2>5, <2>1, <1>2 DEF IInv, Underway
<1> QED BY <1>7, <1>8, <1>9

(* A comparison that disagrees: the run has failed, the next pair follows. *)
LEMMA DisagreeOK ==
  ASSUME IInv, Running, NEW x, Disagree(x), UNCHANGED <<defect, seed, counter>>
  PROVE  IInv'
<1>1. Over' BY OverStays DEF IInv, Disagree
<1>2. pair # 0 /\ Underway /\ pair \in 1 .. Len(Pairs)
  BY PairsAre DEF IInv, Running
<1>3. /\ at' = 1 /\ iter' = 0 /\ pair' = pair + 1 /\ failed' = TRUE
      /\ results' = Append(results, iter)
      /\ seen'.bad = seen.bad \union {Comparison(x)}
  BY DEF Disagree, NextPair, NextRound, Seen
<1>4. Place'
  <2>1. Len(Pairs) \in Nat /\ Iterations \in Nat \ {0}
    BY PairsAre, CrossImplAssumption
  <2>2. pair' \in 1 .. Len(Pairs) + 1 /\ pair' \in Nat /\ iter' \in 0 .. Iterations - 1
    BY <1>2, <1>3, <2>1
  <2>3. Len(StepsOf(pair')) \in Nat /\ Len(StepsOf(pair')) >= 1
    BY <2>2, StepsAre
  <2>4. at' \in 1 .. Len(StepsOf(pair'))
    BY <1>3, <2>3
  <2>. QED  BY <2>2, <2>4 DEF Place
<1>5. ResultsSoFar'
  <2>1. Comparison(x).name = Pairs[pair] BY DEF Comparison
  <2> QED
    BY <2>1, <1>2, <1>3, PairsAre, CrossImplAssumption DEF Underway, ResultsSoFar, Place
<1>6. AllMadeSoFar' BY <1>3 DEF AllMadeSoFar
<1> QED BY <1>1, <1>2, <1>3, <1>4, <1>5, <1>6 DEF IInv, Underway

(* A run is over: if the properties hold of it, they hold of all.          *)
LEMMA RunOver ==
  ASSUME Over, NEW run, runs' = Append(runs, run),
         run.exit = 0 <=> run.seen.bad = {},
         \A p \in DOMAIN Pairs : run.raised = 0 \/ p < run.raised => ToldOf(run, p),
         run.exit = 0 =>
           /\ run.raised = 0
           /\ \A n \in 0 .. Iterations - 1 :
                /\ \A p \in DOMAIN Kems, w \in KemWays : <<Kems[p], n, w>> \in run.seen.made
                /\ \A p \in DOMAIN Sigs, w \in SigWays : <<Sigs[p], n, w>> \in run.seen.made
  PROVE  Over'
<1>1. PICK S : runs \in Seq(S) BY DEF Over
<1>2. /\ runs' \in Seq(S \union {run})
      /\ DOMAIN runs' = DOMAIN runs \union {Len(runs) + 1}
      /\ \A i \in DOMAIN runs : runs'[i] = runs[i]
      /\ runs'[Len(runs) + 1] = run
  BY <1>1, AppendProperties
<1>3. StatusTellsAll'
  BY <1>2, Zenon DEF Over, StatusTellsAll
<1>4. EachReachedTold'
  <2> SUFFICES ASSUME NEW i \in DOMAIN runs', NEW p \in DOMAIN Pairs,
                      runs'[i].raised = 0 \/ p < runs'[i].raised
               PROVE  ToldOf(runs'[i], p)
    BY DEF EachReachedTold, ToldOf
  <2>1. CASE i \in DOMAIN runs
    BY <1>2, <2>1, Zenon DEF Over, AllCompared, EachReachedTold
  <2>2. CASE i = Len(runs) + 1
    BY <1>2, <2>2, Zenon
  <2> QED BY <1>2, <2>1, <2>2, Zenon
<1>5. AllCompared'
  BY <1>2, <1>4, Zenon DEF Over, AllCompared
<1> QED BY <1>2, <1>3, <1>5 DEF Over

(* A library raises: the run is told of the pairs before, and its status   *)
(* is not 0.                                                               *)
LEMMA RaiseOK ==
  ASSUME IInv, Running, NEW x, Raise(x) PROVE IInv'
<1> DEFINE run == [seed |-> seed, exit |-> Uncaught, results |-> results,
                   raised |-> pair, seen |-> seen']
<1>1. pair # 0 /\ Over /\ Underway /\ pair \in 1 .. Len(Pairs) /\ runs' = Append(runs, run)
      /\ pair' = 0
  BY PairsAre DEF IInv, Running, Raise
<1>2. Comparison(x) \in run.seen.bad /\ seen.bad \subseteq run.seen.bad
  <2>1. seen' = [made |-> seen.made, bad |-> seen.bad \union {Comparison(x)}] BY DEF Raise
  <2> QED BY <2>1
<1>3. run.exit # 0 BY DEF Uncaught
<1>4. \A p \in DOMAIN Pairs : p < run.raised => ToldOf(run, p)
  <2>1. DOMAIN Pairs = 1 .. Len(Pairs) /\ Len(Pairs) \in Nat BY PairsAre
  <2> QED BY <1>1, <1>2, <2>1 DEF Underway, ResultsSoFar, ToldOf
<1>5. run.raised # 0 BY <1>1
<1>6. Over'
  <2>1. run.exit = 0 <=> run.seen.bad = {} BY <1>2, <1>3
  <2> HIDE DEF run
  <2> QED BY <1>1, <1>3, <1>4, <1>5, <2>1, RunOver
<1> QED BY <1>1, <1>6 DEF IInv

(* A run that ends with its results is told by its exit status.            *)
LEMMA ExitOK ==
  ASSUME IInv, Exit PROVE IInv'
<1> DEFINE run == [seed |-> seed, exit |-> ExitStatus, results |-> results,
                   raised |-> 0, seen |-> seen]
<1>1. /\ pair = Len(Pairs) + 1 /\ pair # 0 /\ Over /\ Underway
      /\ runs' = Append(runs, run) /\ pair' = 0
  BY PairsAre DEF IInv, Exit
<1>2. run.exit = 0 <=> run.seen.bad = {}
  BY <1>1 DEF ExitStatus, Underway
<1>3. ASSUME run.exit = 0, NEW n \in 0 .. Iterations - 1
      PROVE  /\ \A p \in DOMAIN Kems, w \in KemWays : <<Kems[p], n, w>> \in run.seen.made
             /\ \A p \in DOMAIN Sigs, w \in SigWays : <<Sigs[p], n, w>> \in run.seen.made
  <2>1. \A p \in 1 .. Len(Pairs) : RoundMade(run.seen.made, p, n, Len(StepsOf(p)))
    BY <1>1, <1>2, <1>3, PairsAre DEF Underway, AllMadeSoFar
  <2>2. ASSUME NEW p \in DOMAIN Kems, NEW w \in KemWays
        PROVE  <<Kems[p], n, w>> \in run.seen.made
    <3>1. p \in 1 .. Len(Pairs) /\ Pairs[p] = Kems[p] /\ p <= Len(Kems) /\ p \in Nat
      BY PairsAre
    <3>2. PICK j \in 1 .. Len(StepsOf(p)) : StepsOf(p)[j] = w
      BY <3>1, StepsAre
    <3> QED BY <2>1, <3>1, <3>2 DEF RoundMade
  <2>3. ASSUME NEW p \in DOMAIN Sigs, NEW w \in SigWays
        PROVE  <<Sigs[p], n, w>> \in run.seen.made
    <3> DEFINE q == Len(Kems) + p
    <3>1. q \in 1 .. Len(Pairs) /\ Pairs[q] = Sigs[p] /\ ~(q <= Len(Kems)) /\ q \in Nat
      BY PairsAre
    <3>2. PICK j \in 1 .. Len(StepsOf(q)) : StepsOf(q)[j] = w
      BY <3>1, StepsAre
    <3> QED BY <2>1, <3>1, <3>2 DEF RoundMade
  <2> QED BY <2>2, <2>3
<1>4. \A p \in DOMAIN Pairs : ToldOf(run, p)
  <2>1. DOMAIN Pairs = 1 .. pair - 1 /\ Len(Pairs) = pair - 1 BY <1>1, PairsAre
  <2> QED BY <1>1, <2>1 DEF Underway, ResultsSoFar, ToldOf
<1>5. run.raised = 0 OBVIOUS
<1>6. Over'
  <2> HIDE DEF run
  <2> QED BY <1>1, <1>2, <1>3, <1>4, <1>5, RunOver
<1> QED BY <1>1, <1>6 DEF IInv

(* Nothing changes.                                                        *)
LEMMA StutterOK ==
  ASSUME IInv, UNCHANGED vars PROVE IInv'
<1>1. Over' BY OverStays DEF IInv, vars
<1>2. Underway => Underway'
  BY DEF vars, Underway, Place, ResultsSoFar, AllMadeSoFar, RoundMade, Running
<1> QED BY <1>1, <1>2 DEF IInv, vars

(* The invariant holds in every state.                                     *)
THEOREM CrossImplInv == Spec => []IInv
<1>1. Init => IInv BY InitOK
<1>2. IInv /\ [Next]_vars => IInv'
  <2> SUFFICES ASSUME IInv, [Next]_vars PROVE IInv' OBVIOUS
  <2>1. CASE Start BY <2>1, StartOK
  <2>2. CASE DrawMessage BY <2>2, DrawOK
  <2>3. CASE Compare BY <2>3, AgreeOK, DisagreeOK, RaiseOK DEF Compare
  <2>4. CASE Exit BY <2>4, ExitOK
  <2>5. CASE UNCHANGED vars BY <2>5, StutterOK
  <2> QED BY <2>1, <2>2, <2>3, <2>4, <2>5 DEF Next
<1> QED BY <1>1, <1>2, PTL DEF Spec

(* StatusTellsAll, for all libraries: exit status 0 iff no comparison of   *)
(* any pair ever disagreed (cross_impl.py:220-246).                        *)
THEOREM StatusIsTrue == Spec => []StatusTellsAll
<1>1. IInv => StatusTellsAll BY DEF IInv, Over
<1> QED BY CrossImplInv, <1>1, PTL

(* AllCompared, for any number of pairs and iterations: exit status 0 says *)
(* that no library raised and that every comparison was made, in both      *)
(* directions, every time (cross_impl.py:222-246).                         *)
THEOREM ZeroMeansAllCompared == Spec => []AllCompared
<1>1. IInv => AllCompared BY DEF IInv, Over
<1> QED BY CrossImplInv, <1>1, PTL

(* EachReachedTold, for any number of pairs: one pair's CrossImplMismatch  *)
(* hides nothing of another's.  A run is told of every pair, or, where a   *)
(* library raised something else, of those before (cross_impl.py:225-233). *)
THEOREM MismatchHidesNothing == Spec => []EachReachedTold
<1>1. IInv => EachReachedTold BY DEF IInv, Over, AllCompared
<1> QED BY CrossImplInv, <1>1, PTL
=============================================================================
