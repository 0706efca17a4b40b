------------------------------ MODULE CrossImpl ------------------------------
(***************************************************************************)
(* interop/cross_impl.py: two independent implementations of ML-KEM and    *)
(* ML-DSA set against each other, round after round, and an exit status    *)
(* that says whether they ever disagreed.                                  *)
(*                                                                         *)
(* A disagreement is a defect of one of the libraries.  It may show in one *)
(* comparison only, and for some keys, coins or messages only: the         *)
(* libraries draw keys and coins from the operating system, the harness    *)
(* draws messages from its seed.  Each comparison has a draw of its own.   *)
(* It shows in one of two ways: the results differ, which the harness      *)
(* raises as CrossImplMismatch, or a library refuses what the other made   *)
(* (a length, an encoding) with an exception of its own, which nothing     *)
(* catches.                                                                *)
(***************************************************************************)
EXTENDS Naturals, Sequences, FiniteSets

CONSTANTS
  Kems, Sigs,   \* sequences of names: _KEM_PAIRS and _SIG_PAIRS
  Iterations,   \* --iterations
  Seeds,        \* base seeds
  BlocksOf(_, _), \* blocks of a message, from seed and counter: 1 to 4
  Drawn,        \* what a library can draw from the operating system
  Defects,      \* what may be wrong: two sets of [name, at, drawn, msg],
                \* the comparisons that differ and those that raise
  MaxRuns       \* bound on runs of the program

ASSUME CrossImplAssumption ==
  /\ Kems \in Seq(STRING) /\ Sigs \in Seq(STRING)
  /\ Iterations \in Nat \ {0}
  /\ MaxRuns \in Nat

Pairs == Kems \o Sigs

(* The comparisons of a round, in their order.                             *)
KemStepsOneWay == <<"sizes", "ref opens pq's">>
KemSteps == <<"sizes", "ref opens pq's", "pq opens ref's">>
SigSteps == <<"pq accepts ref's", "pq refuses flipped", "ref accepts pq's",
              "ref refuses flipped", "ref accepts own", "pq accepts own">>
StepsOf(p) == IF p <= Len(Kems) THEN KemSteps ELSE SigSteps

VARIABLES
  defect,  \* the defect the libraries have
  runs,    \* finished runs: seed, exit status, results, where a library raised
  seed,    \* base
  counter, \* how many blocks rng has made
  pair,    \* which pair is being checked; 0 before the first run
  iter,    \* iterations of it that agreed: i and ok
  at,      \* the next comparison of the round
  msg,     \* the message of the round, as its place in the seed's stream
  results, \* per pair: iterations that agreed
  failed,
  seen     \* every comparison that disagreed, every one made

vars == <<defect, runs, seed, counter, pair, iter, at, msg, results, failed, seen>>

Running == pair \in 1 .. Len(Pairs)

-----------------------------------------------------------------------------
(* main and run: a fresh seed, or one given, as a rerun gives the one      *)
(* printed.                                                                *)
Start ==
  /\ pair = 0 /\ Len(runs) < MaxRuns
  /\ \E s \in Seeds :
       /\ runs # <<>> => s = runs[1].seed
       /\ seed' = s
  /\ counter' = 0 /\ results' = <<>> /\ failed' = FALSE
  /\ pair' = 1 /\ iter' = 0 /\ at' = 1 /\ msg' = <<>>
  /\ seen' = [bad |-> {}, made |-> {}]
  /\ UNCHANGED <<defect, runs>>

(* The message of an ML-DSA round comes first: one block for its length,   *)
(* and as many as the length takes.                                        *)
DrawMessage ==
  /\ Running /\ pair > Len(Kems) /\ at = 1 /\ msg = <<>>
  /\ msg' = <<seed, counter + 1>>
  /\ counter' = counter + 1 + BlocksOf(seed, counter + 1)
  /\ UNCHANGED <<defect, runs, seed, pair, iter, at, results, failed, seen>>

NextRound == /\ at' = 1
             /\ msg' = <<>>

(* for i in range(iterations), to its end or to the first disagreement.    *)
NextPair(ok) ==
  /\ results' = Append(results, ok)
  /\ pair' = pair + 1 /\ iter' = 0
  /\ NextRound

Comparison(x) == [name |-> Pairs[pair], at |-> StepsOf(pair)[at], drawn |-> x, msg |-> msg]
Seen(x, bad) ==
  [made |-> seen.made \union {<<Pairs[pair], iter, StepsOf(pair)[at]>>},
   bad |-> IF bad THEN seen.bad \union {Comparison(x)} ELSE seen.bad]

Agree(x) ==
  /\ Comparison(x) \notin defect.differs \union defect.raises
  /\ seen' = Seen(x, FALSE)
  /\ IF at < Len(StepsOf(pair))
     THEN at' = at + 1 /\ UNCHANGED <<pair, iter, msg, results>>
     ELSE IF iter + 1 < Iterations
          THEN NextRound /\ iter' = iter + 1 /\ UNCHANGED <<pair, results>>
          ELSE NextPair(iter + 1)
  /\ UNCHANGED <<runs, failed>>

DisagreeAndStop(x) ==
  /\ Comparison(x) \in defect.differs
  /\ seen' = Seen(x, TRUE)
  /\ failed' = TRUE
  /\ results' = Append(results, iter) /\ pair' = Len(Pairs) + 1 /\ iter' = 0 /\ NextRound
  /\ UNCHANGED runs
(* CrossImplMismatch: this pair ends here, the others go on.               *)
Disagree(x) ==
  /\ Comparison(x) \in defect.differs
  /\ seen' = Seen(x, TRUE)
  /\ failed' = TRUE
  /\ NextPair(iter)
  /\ UNCHANGED runs

(* Any other exception leaves run and main: no table is printed, the pairs *)
(* after this one are not compared, and Python ends with its status 1.     *)
Uncaught == 1
Raise(x) ==
  /\ Comparison(x) \in defect.raises
  /\ seen' = [made |-> seen.made, bad |-> seen.bad \union {Comparison(x)}]
  /\ runs' = Append(runs, [seed |-> seed, exit |-> Uncaught, results |-> results,
                           raised |-> pair, seen |-> seen'])
  /\ pair' = 0
  /\ UNCHANGED <<iter, at, msg, results, failed>>

Compare ==
  /\ Running /\ (pair > Len(Kems) => msg # <<>>)
  /\ \E x \in Drawn : Agree(x) \/ Disagree(x) \/ Raise(x)
  /\ UNCHANGED <<defect, seed, counter>>

ExitStatusOfLastPair == IF results[Len(results)] < Iterations THEN 1 ELSE 0
ExitStatus == IF failed THEN 1 ELSE 0

Exit ==
  /\ pair = Len(Pairs) + 1
  /\ runs' = Append(runs, [seed |-> seed, exit |-> ExitStatus,
                           results |-> results, raised |-> 0, seen |-> seen])
  /\ pair' = 0
  /\ UNCHANGED <<defect, seed, counter, iter, at, msg, results, failed, seen>>

Init ==
  /\ defect \in Defects
  /\ runs = <<>> /\ seed \in Seeds /\ counter = 0 /\ pair = 0 /\ iter = 0 /\ at = 1
  /\ msg = <<>> /\ results = <<>> /\ failed = FALSE
  /\ seen = [bad |-> {}, made |-> {}]

Next == Start \/ DrawMessage \/ Compare \/ Exit

Spec == Init /\ [][Next]_vars

-----------------------------------------------------------------------------
(* Properties.                                                             *)

(* Exit status 0 iff nothing ever disagreed, in any pair, whatever came    *)
(* after it, and however it showed (cross_impl.py:50-51, 220-246).         *)
StatusTellsAll == \A i \in DOMAIN runs : runs[i].exit = 0 <=> runs[i].seen.bad = {}

(* The run is through all iterations of a pair, or has met a disagreement  *)
(* of it.                                                                  *)
ToldOf(run, p) == /\ p \in DOMAIN run.results
                  /\ \/ run.results[p] = Iterations
                     \/ \E c \in run.seen.bad : c.name = Pairs[p]

(* One pair's CrossImplMismatch hides nothing of another's: a run is told  *)
(* of every pair, or of every pair before the one where a library raised   *)
(* something else (cross_impl.py:225-233).                                 *)
EachReachedTold ==
  \A i \in DOMAIN runs :
    \A p \in DOMAIN Pairs : runs[i].raised = 0 \/ p < runs[i].raised => ToldOf(runs[i], p)

(* Exit status 0 says that no library raised and that every comparison was *)
(* made, in both directions, in every iteration of every pair; a mismatch  *)
(* stops its own pair only (cross_impl.py:105-181, 222-246).               *)
KemWays == {"ref opens pq's", "pq opens ref's"}
SigWays == {"pq accepts ref's", "ref accepts pq's", "pq refuses flipped", "ref refuses flipped"}
AllCompared ==
  /\ EachReachedTold
  /\ \A i \in DOMAIN runs : runs[i].exit = 0 =>
       /\ runs[i].raised = 0
       /\ \A n \in 0 .. Iterations - 1 :
            /\ \A p \in DOMAIN Kems, w \in KemWays : <<Kems[p], n, w>> \in runs[i].seen.made
            /\ \A p \in DOMAIN Sigs, w \in SigWays : <<Sigs[p], n, w>> \in runs[i].seen.made
=============================================================================
