------------------------- MODULE CommandLine_proofs -------------------------
(***************************************************************************)
(* What the commands keep true of the files they share, for any number of  *)
(* processes, prefixes and commands, whoever dies and whatever overlaps.   *)
(***************************************************************************)
EXTENDS CommandLine, SequenceTheorems, TLAPS

-----------------------------------------------------------------------------
(* The inductive invariant.  L is the log, n the number of identities made *)
(* and lock the passphrase under which each of them was made.              *)

(* What a signature or an envelope says has been logged; a private half,   *)
(* whole or in part, is of an identity made, under its passphrase.         *)
Backed(v, L) ==
  /\ v.kind = "signature" => Entry("signed", v.of, Nobody, v.doc) \in L
  /\ v.kind \in {"stream", "envelope"} => Entry("sealed", v.of, v.signer, v.doc) \in L
Locked(v, n, lock) ==
  /\ v.kind \in PrivateHalves => v.of \in 0 .. n /\ v.lock = lock[v.of]
  /\ v.kind = "torn" /\ v.was.kind \in PrivateHalves
       => v.was.of \in 0 .. n /\ v.was.lock = lock[v.was.of]

(* The passphrase of an identity is the one that its keygen was given.     *)
Recorded(L, n, lock) ==
  /\ lock[0] = NoPass
  /\ \A e \in L : e.op = "made" => e.of \in 1 .. n /\ e.pass = lock[e.of]
  /\ \A i \in 1 .. n : Made(i, lock[i]) \in L

FileOK(path, file, L, n, lock) ==
  /\ file = [data |-> file.data, mode |-> file.mode]
  /\ Backed(file.data, L) /\ Locked(file.data, n, lock)
  /\ Secret(file.data) => path.name \in PrivateHalves
  /\ path.name \in PrivateHalves /\ path.at \notin session.loose => file.mode = "owner"

WriteOK(w, L, n, lock) ==
  /\ Backed(w.data, L) /\ Locked(w.data, n, lock)
  /\ Secret(w.data) => w.path.name \in PrivateHalves
  /\ w.path.name \in PrivateHalves => w.private

IsRow(s) == s \in Seq({s[i] : i \in DOMAIN s})
WritesOK(ws, L, n, lock) ==
  IsRow(ws) /\ \A i \in DOMAIN ws : WriteOK(ws[i], L, n, lock)
GotOK(got, L) == IsRow(got) /\ \A i \in DOMAIN got : Backed(got[i], L)

(* A process that reads has read, in order, what it has still not to read. *)
Reading(q) ==
  q.at = "read" => /\ q.cmd \in CommandLines
                   /\ q.reads \in Seq(Paths)
                   /\ Len(q.got) + Len(q.reads) = Len(ReadsOf(q.cmd))
ProcOK(q, L, n, lock) ==
  /\ q = [cmd |-> q.cmd, at |-> q.at, reads |-> q.reads, got |-> q.got, writes |-> q.writes]
  /\ WritesOK(q.writes, L, n, lock) /\ GotOK(q.got, L) /\ Reading(q)
  /\ q.at # "read" => q.reads = <<>>
  /\ q.at \in {"open", "write", "chmod"} => q.writes # <<>>

Kept(L, n, lock) ==
  /\ n \in Nat /\ DOMAIN lock = Nat
  /\ DOMAIN files = Paths /\ \A path \in Paths : FileOK(path, files[path], L, n, lock)
  /\ DOMAIN proc = Procs /\ \A p \in Procs : ProcOK(proc[p], L, n, lock)

Logged == OpenedWasSealed /\ VerifiedWasSigned
SessionOK == session \in Sessions
IInv == /\ SessionOK /\ Logged
        /\ \E lock : Kept(log, made, lock) /\ Recorded(log, made, lock)

-----------------------------------------------------------------------------
(* Rows.                                                                   *)

(* A sequence over any set is a row.                                       *)
LEMMA RowOf ==
  ASSUME NEW S, NEW s \in Seq(S)
  PROVE  IsRow(s) /\ Len(s) \in Nat /\ DOMAIN s = 1 .. Len(s)
<1>1. Len(s) \in Nat /\ DOMAIN s = 1 .. Len(s)
  BY LenProperties
<1>2. s \in [1 .. Len(s) -> {s[i] : i \in DOMAIN s}]
  BY <1>1
<1>. QED  BY <1>1, <1>2, SeqDef DEF IsRow

(* What is left of a row after its first element.                          *)
LEMMA RowTail ==
  ASSUME NEW s, IsRow(s), s # <<>>
  PROVE  /\ Head(s) = s[1] /\ 1 \in DOMAIN s
         /\ IsRow(Tail(s)) /\ Len(Tail(s)) = Len(s) - 1
         /\ \A i \in DOMAIN Tail(s) : i + 1 \in DOMAIN s /\ Tail(s)[i] = s[i + 1]
<1>. DEFINE S == {s[i] : i \in DOMAIN s}
<1>1. s \in Seq(S)
  BY DEF IsRow
<1>. HIDE DEF S
<1>2. /\ Tail(s) \in Seq(S) /\ Len(Tail(s)) = Len(s) - 1 /\ Len(s) \in Nat \ {0}
      /\ DOMAIN s = 1 .. Len(s) /\ DOMAIN Tail(s) = 1 .. Len(Tail(s))
  BY <1>1, HeadTailProperties, LenProperties, EmptySeq
<1>3. Head(s) = s[1] /\ \A i \in 1 .. Len(Tail(s)) : Tail(s)[i] = s[i + 1]
  BY <1>1, HeadTailProperties
<1>4. IsRow(Tail(s))
  BY <1>2, RowOf
<1>. QED  BY <1>2, <1>3, <1>4

(* A row with one more element.                                            *)
LEMMA RowAppend ==
  ASSUME NEW s, IsRow(s), NEW v
  PROVE  /\ IsRow(Append(s, v)) /\ Len(Append(s, v)) = Len(s) + 1
         /\ \A i \in DOMAIN Append(s, v) :
              Append(s, v)[i] = v \/ (i \in DOMAIN s /\ Append(s, v)[i] = s[i])
<1>. DEFINE S == {s[i] : i \in DOMAIN s} \union {v}
<1>1. s \in Seq(S) /\ v \in S
  <2>1. s \in Seq({s[i] : i \in DOMAIN s})
    BY DEF IsRow
  <2>2. Len(s) \in Nat /\ DOMAIN s = 1 .. Len(s) /\ s \in [1 .. Len(s) -> S]
    BY <2>1, LenProperties
  <2>. QED  BY <2>2, SeqDef
<1>. HIDE DEF S
<1>2. /\ Append(s, v) \in Seq(S) /\ Len(Append(s, v)) = Len(s) + 1 /\ Len(s) \in Nat
      /\ DOMAIN s = 1 .. Len(s) /\ DOMAIN Append(s, v) = 1 .. Len(Append(s, v))
      /\ \A i \in 1 .. Len(s) : Append(s, v)[i] = s[i]
      /\ Append(s, v)[Len(s) + 1] = v
  BY <1>1, AppendProperties, LenProperties
<1>3. IsRow(Append(s, v))
  BY <1>2, RowOf
<1>4. ASSUME NEW i \in DOMAIN Append(s, v)
      PROVE  Append(s, v)[i] = v \/ (i \in DOMAIN s /\ Append(s, v)[i] = s[i])
  <2>1. i \in 1 .. Len(s) \/ i = Len(s) + 1
    BY <1>2
  <2>. QED  BY <2>1, <1>2
<1>. QED  BY <1>2, <1>3, <1>4

-----------------------------------------------------------------------------
(* What was kept is kept as the log and the identities grow.               *)

Grows(L, n, lock, L2, n2, lock2) ==
  /\ L \subseteq L2 /\ n \in Nat /\ n2 \in Nat /\ n <= n2
  /\ \A i \in 0 .. n : lock2[i] = lock[i]

(* A value that was backed and locked stays so.                            *)
LEMMA ValueGrows ==
  ASSUME NEW L, NEW n, NEW lock, NEW L2, NEW n2, NEW lock2, Grows(L, n, lock, L2, n2, lock2),
         NEW v
  PROVE  /\ Backed(v, L) => Backed(v, L2)
         /\ Locked(v, n, lock) => Locked(v, n2, lock2)
<1>1. Backed(v, L) => Backed(v, L2)
  BY DEF Grows, Backed
<1>2. ASSUME NEW w, w.of \in 0 .. n /\ w.lock = lock[w.of]
      PROVE  w.of \in 0 .. n2 /\ w.lock = lock2[w.of]
  BY <1>2 DEF Grows
<1>. QED  BY <1>1, <1>2 DEF Locked

(* So does a process or a file that was in order.                          *)
LEMMA StateGrows ==
  ASSUME NEW L, NEW n, NEW lock, NEW L2, NEW n2, NEW lock2, Grows(L, n, lock, L2, n2, lock2),
         NEW q, NEW path, NEW file
  PROVE  /\ ProcOK(q, L, n, lock) => ProcOK(q, L2, n2, lock2)
         /\ FileOK(path, file, L, n, lock) => FileOK(path, file, L2, n2, lock2)
<1>1. FileOK(path, file, L, n, lock) => FileOK(path, file, L2, n2, lock2)
  BY ValueGrows DEF FileOK
<1>2. ASSUME NEW w, WriteOK(w, L, n, lock) PROVE WriteOK(w, L2, n2, lock2)
  BY <1>2, ValueGrows DEF WriteOK
<1>3. WritesOK(q.writes, L, n, lock) => WritesOK(q.writes, L2, n2, lock2)
  BY <1>2 DEF WritesOK
<1>4. GotOK(q.got, L) => GotOK(q.got, L2)
  BY ValueGrows DEF GotOK
<1>. QED  BY <1>1, <1>3, <1>4 DEF ProcOK

(* The command lines of a session do not change with the state.            *)
LEMMA SameSession ==
  ASSUME session' = session
  PROVE  CommandLines' = CommandLines
BY DEF CommandLines, Passes, SomePrefix

(* A step changes one process and, at most, one file, and what it writes   *)
(* or records fits the locks.                                              *)
LEMMA Steps ==
  ASSUME session' = session, NEW lock, NEW lock2, Kept(log, made, lock),
         Grows(log, made, lock, log', made', lock2), DOMAIN lock2 = Nat,
         NEW p \in Procs, NEW q, proc' = [proc EXCEPT ![p] = q],
         ProcOK(q, log', made', lock2), DOMAIN files' = Paths,
         \A path \in Paths : \/ files'[path] = files[path]
                             \/ FileOK(path, files'[path], log', made', lock2)
  PROVE  Kept(log, made, lock2)'
<1>1. \A path \in Paths : FileOK(path, files'[path], log', made', lock2)
  <2>1. \A path \in Paths : FileOK(path, files[path], log', made', lock2)
    BY StateGrows DEF Kept
  <2>. QED  BY <2>1
<1>2. ASSUME NEW path \in Paths PROVE FileOK(path, files[path], log, made, lock2)'
  BY <1>1 DEF FileOK
<1>3. \A o \in Procs : ProcOK(proc'[o], log', made', lock2)
  <2>1. \A o \in Procs : ProcOK(proc[o], log', made', lock2)
    BY StateGrows DEF Kept
  <2>2. \A o \in Procs : proc'[o] = IF o = p THEN q ELSE proc[o]
    BY DEF Kept
  <2>. QED  BY <2>1, <2>2
<1>4. ASSUME NEW o \in Procs PROVE ProcOK(proc[o], log, made, lock2)'
  BY <1>3, SameSession DEF ProcOK, Reading
<1>5. DOMAIN proc' = Procs
  BY DEF Kept
<1>. QED  BY <1>2, <1>4, <1>5 DEF Kept, Grows

-----------------------------------------------------------------------------
(* The steps.                                                              *)

(* The empty sequence is a row.                                            *)
LEMMA EmptyRow == IsRow(<<>>) /\ DOMAIN <<>> = {} /\ Len(<<>>) = 0
<1>1. <<>> \in Seq({}) /\ DOMAIN <<>> = {} /\ Len(<<>>) = 0
  BY EmptySeq, LenProperties
<1>. QED  BY <1>1, RowOf

(* A process that runs nothing is in order.                                *)
LEMMA IdleOK ==
  ASSUME NEW L, NEW n, NEW lock
  PROVE  ProcOK(Idle, L, n, lock)
<1>1. /\ Idle.at = "idle" /\ Idle.reads = <<>> /\ Idle.got = <<>> /\ Idle.writes = <<>>
      /\ Idle = [cmd |-> Idle.cmd, at |-> Idle.at, reads |-> Idle.reads, got |-> Idle.got,
                 writes |-> Idle.writes]
  BY DEF Idle
<1>2. WritesOK(<<>>, L, n, lock) /\ GotOK(<<>>, L)
  BY EmptyRow DEF WritesOK, GotOK
<1>. HIDE DEF Idle
<1>. QED  BY <1>1, <1>2 DEF ProcOK, Reading

(* Nothing is lost where log and identities stay as they are.              *)
LEMMA Stays ==
  ASSUME NEW lock, Kept(log, made, lock), log' = log, made' = made
  PROVE  Grows(log, made, lock, log', made', lock) /\ DOMAIN lock = Nat
BY DEF Kept, Grows

(* The two verdict properties speak of the log alone.                      *)
LEMMA LoggedStays == Logged /\ log' = log => Logged'
BY DEF Logged, OpenedWasSealed, VerifiedWasSigned

(* The files the commands name are among the paths.                        *)
LEMMA PathNames ==
  /\ \A prefix \in Prefixes :
       /\ Key(prefix, "kem.pub") \in Paths /\ Key(prefix, "kem.key") \in Paths
       /\ Key(prefix, "sig.pub") \in Paths /\ Key(prefix, "sig.key") \in Paths
  /\ \A d \in Docs : Doc(d) \in Paths
  /\ File("env") \in Paths /\ File("sig") \in Paths /\ File("out") \in Paths
<1>1. /\ "kem.pub" \in HalfNames /\ "kem.key" \in HalfNames
      /\ "sig.pub" \in HalfNames /\ "sig.key" \in HalfNames
  BY DEF HalfNames, Halves
<1>. HIDE DEF HalfNames
<1>. QED  BY <1>1 DEF Paths, Key, Doc, File

(* What a command reads, and at least how many files.                      *)
LEMMA ReadsArePaths ==
  ASSUME SessionOK, NEW c \in CommandLines
  PROVE  /\ ReadsOf(c) \in Seq(Paths)
         /\ c.name = "decrypt" => Len(ReadsOf(c)) >= 2
         /\ c.name = "verify" => Len(ReadsOf(c)) = 3
<1>0. session.prefixes \subseteq Prefixes
  BY CommandLineAssumption DEF SessionOK
<1>1. \/ c.name \in {"keygen", "info", "demo"}
      \/ /\ c.name = "encrypt" /\ c.doc \in Docs /\ c.at \in Prefixes
         /\ c.signKey \in Prefixes \union {None} /\ c.signPub \in Prefixes \union {None}
      \/ c.name = "decrypt" /\ c.at \in Prefixes /\ c.expect \in Prefixes \union {None}
      \/ c.name = "sign" /\ c.doc \in Docs /\ c.at \in Prefixes
      \/ c.name = "verify" /\ c.doc \in Docs /\ c.at \in Prefixes
  BY <1>0 DEF CommandLines, SomePrefix
<1>2. CASE c.name \in {"keygen", "info", "demo"}
  <2>1. ReadsOf(c) = <<>> \/ ReadsOf(c) = <<File("env")>>
    BY <1>2 DEF ReadsOf
  <2>2. <<>> \in Seq(Paths) /\ <<File("env")>> \in Seq(Paths)
    BY EmptySeq, PathNames
  <2>. QED  BY <2>1, <2>2, <1>2
<1>3. CASE c.name = "encrypt"
  <2>. DEFINE a == <<Doc(c.doc)>>
              b == SignerReads(c)
              d == <<Key(c.at, "kem.pub")>>
  <2>1. a \in Seq(Paths) /\ d \in Seq(Paths)
    BY <1>1, <1>3, PathNames
  <2>2. b \in Seq(Paths)
    <3>1. CASE c.signKey = None \/ c.signPub = None \/ c.stream
      <4>1. b = <<>>
        BY <3>1 DEF SignerReads
      <4>. QED  BY <4>1, EmptySeq
    <3>2. CASE ~(c.signKey = None \/ c.signPub = None \/ c.stream)
      <4>1. b = <<Key(c.signKey, "sig.key"), Key(c.signPub, "sig.pub")>>
        BY <3>2 DEF SignerReads
      <4>. QED  BY <4>1, <1>1, <1>3, <3>2, PathNames
    <3>. QED  BY <3>1, <3>2
  <2>3. ReadsOf(c) = a \o b \o d
    BY <1>3 DEF ReadsOf
  <2>. HIDE DEF a, b, d
  <2>4. a \o b \in Seq(Paths)
    BY <2>1, <2>2, ConcatProperties
  <2>5. (a \o b) \o d \in Seq(Paths)
    BY <2>1, <2>4, ConcatProperties
  <2>. QED  BY <1>3, <2>3, <2>5
<1>4. CASE c.name = "decrypt"
  <2>. DEFINE a == <<File("env"), Key(c.at, "kem.key")>>
              b == IF c.expect = None THEN <<>> ELSE <<Key(c.expect, "sig.pub")>>
  <2>1. a \in Seq(Paths) /\ Len(a) = 2
    BY <1>1, <1>4, PathNames
  <2>2. b \in Seq(Paths)
    <3>1. c.expect = None => b = <<>> /\ <<>> \in Seq(Paths)
      BY EmptySeq
    <3>2. c.expect # None => b \in Seq(Paths)
      BY <1>1, <1>4, PathNames
    <3>. QED  BY <3>1, <3>2
  <2>3. ReadsOf(c) = a \o b
    BY <1>4 DEF ReadsOf
  <2>. HIDE DEF a, b
  <2>4. a \o b \in Seq(Paths) /\ Len(a \o b) = Len(a) + Len(b) /\ Len(b) \in Nat
    BY <2>1, <2>2, ConcatProperties, LenProperties
  <2>. QED  BY <1>4, <2>1, <2>3, <2>4
<1>5. CASE c.name = "sign"
  <2>1. ReadsOf(c) = <<Key(c.at, "sig.key"), Doc(c.doc)>>
    BY <1>5 DEF ReadsOf
  <2>. QED  BY <2>1, <1>1, <1>5, PathNames
<1>6. CASE c.name = "verify"
  <2>1. ReadsOf(c) = <<Key(c.at, "sig.pub"), Doc(c.doc), File("sig")>>
    BY <1>6 DEF ReadsOf
  <2>. QED  BY <2>1, <1>1, <1>6, PathNames
<1>. QED  BY <1>1, <1>2, <1>3, <1>4, <1>5, <1>6

(* A process that starts has read and written nothing.                     *)
LEMMA StartStep ==
  ASSUME SessionOK, NEW lock, Kept(log, made, lock), NEW p \in Procs, Start(p)
  PROVE  Kept(log, made, lock)'
<1>1. PICK c \in CommandLines :
        proc' = [proc EXCEPT ![p] =
          [cmd |-> c, at |-> "read", reads |-> ReadsOf(c), got |-> <<>>, writes |-> <<>>]]
  BY DEF Start
<1>. DEFINE q == [cmd |-> c, at |-> "read", reads |-> ReadsOf(c), got |-> <<>>, writes |-> <<>>]
<1>2. session' = session /\ files' = files /\ log' = log /\ made' = made
  BY DEF Start
<1>3. ProcOK(q, log', made', lock)
  <2>1. /\ q.at = "read" /\ q.reads = ReadsOf(c) /\ q.got = <<>> /\ q.writes = <<>> /\ q.cmd = c
        /\ q = [cmd |-> q.cmd, at |-> q.at, reads |-> q.reads, got |-> q.got, writes |-> q.writes]
    OBVIOUS
  <2>. HIDE DEF q
  <2>2. Len(<<>>) + Len(ReadsOf(c)) = Len(ReadsOf(c))
    BY ReadsArePaths, EmptyRow, LenProperties
  <2>3. Reading(q)
    BY <2>1, <2>2, ReadsArePaths DEF Reading
  <2>4. WritesOK(<<>>, log', made', lock) /\ GotOK(<<>>, log')
    BY EmptyRow DEF WritesOK, GotOK
  <2>. QED  BY <2>1, <2>3, <2>4 DEF ProcOK
<1>4. proc' = [proc EXCEPT ![p] = q]
  BY <1>1
<1>. HIDE DEF q
<1>. QED  BY <1>2, <1>3, <1>4, Stays, Steps DEF Kept

(* Reading a file, or failing to, keeps the files in order.                *)
LEMMA ReadStep ==
  ASSUME SessionOK, NEW lock, Kept(log, made, lock), NEW p \in Procs, Read(p)
  PROVE  Kept(log, made, lock)'
<1>. DEFINE o == proc[p]
            v == files[Head(o.reads)].data
            q == IF v = Absent THEN Idle
                 ELSE [o EXCEPT !.reads = Tail(o.reads), !.got = Append(o.got, v)]
<1>1. /\ session' = session /\ files' = files /\ log' = log /\ made' = made
      /\ proc' = [proc EXCEPT ![p] = q] /\ o.reads # <<>>
  <2>1. session' = session /\ files' = files /\ log' = log /\ made' = made /\ o.reads # <<>>
    BY DEF Read
  <2>2. proc' = [proc EXCEPT ![p] = q]
    BY Zenon DEF Read
  <2>. QED  BY <2>1, <2>2
<1>2. /\ ProcOK(o, log, made, lock) /\ o.at = "read" /\ o.reads \in Seq(Paths)
      /\ Len(o.got) + Len(o.reads) = Len(ReadsOf(o.cmd)) /\ o.cmd \in CommandLines
  BY <1>1 DEF Kept, ProcOK, Reading
<1>3. /\ Tail(o.reads) \in Seq(Paths) /\ Len(Tail(o.reads)) = Len(o.reads) - 1
      /\ Head(o.reads) \in Paths /\ Len(o.reads) \in Nat
  <2>. DEFINE s == o.reads
  <2>1. s \in Seq(Paths) /\ s # <<>>
    BY <1>1, <1>2
  <2>. HIDE DEF s
  <2>2. /\ Tail(s) \in Seq(Paths) /\ Len(Tail(s)) = Len(s) - 1 /\ Head(s) \in Paths
        /\ Len(s) \in Nat
    BY <2>1, HeadTailProperties, LenProperties
  <2>. QED  BY <2>2 DEF s
<1>4. Backed(v, log)
  BY <1>3 DEF Kept, FileOK
<1>5. IsRow(o.got) /\ Len(o.got) \in Nat /\ \A i \in DOMAIN o.got : Backed(o.got[i], log)
  <2>1. IsRow(o.got) /\ \A i \in DOMAIN o.got : Backed(o.got[i], log)
    BY <1>2 DEF ProcOK, GotOK
  <2>. QED  BY <2>1, LenProperties DEF IsRow
<1>6. ProcOK(q, log', made', lock)
  <2>1. CASE v = Absent
    <3>1. q = Idle
      BY <2>1
    <3>. QED  BY <3>1, IdleOK
  <2>2. CASE v # Absent
    <3>. DEFINE a == Append(o.got, v)
                t == Tail(o.reads)
    <3>1. q = [cmd |-> o.cmd, at |-> o.at, reads |-> t, got |-> a, writes |-> o.writes]
      <4>1. o = [cmd |-> o.cmd, at |-> o.at, reads |-> o.reads, got |-> o.got,
                 writes |-> o.writes]
        BY <1>2 DEF ProcOK
      <4>2. q = [o EXCEPT !.reads = t, !.got = a]
        BY <2>2
      <4>. HIDE DEF o, a, t, q
      <4>. QED  BY <4>1, <4>2
    <3>2. GotOK(a, log)
      <4>. DEFINE s == o.got
      <4>1. IsRow(s) /\ \A i \in DOMAIN s : Backed(s[i], log)
        BY <1>5
      <4>. HIDE DEF s, v
      <4>2. IsRow(Append(s, v)) /\ \A i \in DOMAIN Append(s, v) : Backed(Append(s, v)[i], log)
        BY <4>1, <1>4, RowAppend
      <4>. QED  BY <4>2 DEF GotOK, s
    <3>3. Len(a) + Len(t) = Len(ReadsOf(o.cmd))
      <4>1. Len(a) = Len(o.got) + 1
        <5>. HIDE DEF o, v
        <5>. QED  BY <1>5, RowAppend
      <4>2. Len(t) = Len(o.reads) - 1 /\ Len(o.got) + Len(o.reads) = Len(ReadsOf(o.cmd))
        BY <1>2, <1>3
      <4>3. Len(o.reads) \in Nat /\ Len(o.got) \in Nat
        BY <1>3, <1>5
      <4>. DEFINE g == Len(o.got)
                  r == Len(o.reads)
                  x == Len(a)
                  y == Len(t)
      <4>4. x = g + 1 /\ y = r - 1 /\ g + r = Len(ReadsOf(o.cmd)) /\ g \in Nat /\ r \in Nat
        BY <4>1, <4>2, <4>3
      <4>. HIDE DEF g, r, x, y
      <4>5. x + y = g + r
        BY <4>4
      <4>. QED  BY <4>4, <4>5 DEF x, y
    <3>4. WritesOK(o.writes, log, made, lock)
      BY <1>2 DEF ProcOK
    <3>5. Reading(q)
      <4>. HIDE DEF o, v, q, a, t
      <4>1. q.at = "read" /\ q.cmd = o.cmd /\ q.reads = t /\ q.got = a
        BY <3>1, <1>2
      <4>2. t \in Seq(Paths)
        BY <1>3 DEF t
      <4>. QED  BY <4>1, <4>2, <1>2, <3>3 DEF Reading
    <3>6. /\ q = [cmd |-> q.cmd, at |-> q.at, reads |-> q.reads, got |-> q.got,
                  writes |-> q.writes]
          /\ q.at = "read" /\ q.got = a /\ q.writes = o.writes
      <4>. HIDE DEF o, v, q, a, t
      <4>. QED  BY <3>1, <1>2
    <3>. HIDE DEF o, v, q, a, t
    <3>. QED  BY <1>1, <3>2, <3>4, <3>5, <3>6 DEF ProcOK
  <2>. QED  BY <2>1, <2>2
<1>. HIDE DEF o, v, q
<1>. QED  BY <1>1, <1>6, Stays, Steps DEF Kept

(* The next write of a process, and what is left after it.                 *)
LEMMA NextWrite ==
  ASSUME NEW lock, Kept(log, made, lock), NEW p \in Procs,
         proc[p].at \in {"open", "write", "chmod"}
  PROVE  /\ WriteOK(ThisWrite(p), log, made, lock) /\ proc[p].writes # <<>>
         /\ proc[p].reads = <<>> /\ GotOK(proc[p].got, log)
         /\ WritesOK(proc[p].writes, log, made, lock)
         /\ proc[p] = [cmd |-> proc[p].cmd, at |-> proc[p].at, reads |-> <<>>,
                       got |-> proc[p].got, writes |-> proc[p].writes]
         /\ WritesOK(Tail(proc[p].writes), log, made, lock)
<1>. DEFINE q == proc[p]
<1>1. ProcOK(q, log, made, lock) /\ q.at # "read" /\ q.at \in {"open", "write", "chmod"}
  BY DEF Kept
<1>. HIDE DEF q
<1>2. /\ q.writes # <<>> /\ q.reads = <<>> /\ GotOK(q.got, log)
      /\ WritesOK(q.writes, log, made, lock)
      /\ q = [cmd |-> q.cmd, at |-> q.at, reads |-> q.reads, got |-> q.got, writes |-> q.writes]
  BY <1>1 DEF ProcOK
<1>. DEFINE s == q.writes
<1>3. IsRow(s) /\ s # <<>> /\ \A i \in DOMAIN s : WriteOK(s[i], log, made, lock)
  BY <1>2 DEF WritesOK
<1>. HIDE DEF s
<1>4. WriteOK(Head(s), log, made, lock)
  BY <1>3, RowTail
<1>5. WritesOK(Tail(s), log, made, lock)
  BY <1>3, RowTail DEF WritesOK
<1>. QED  BY <1>2, <1>4, <1>5 DEF ThisWrite, s, q

(* A process that has finished a file goes on to the next.                 *)
LEMMA WrittenOK ==
  ASSUME NEW lock, Kept(log, made, lock), NEW p \in Procs,
         proc[p].at \in {"open", "write", "chmod"}
  PROVE  \E q : Written(p) = [proc EXCEPT ![p] = q] /\ ProcOK(q, log, made, lock)
<1>. DEFINE o == proc[p]
            t == Tail(o.writes)
            r == [o EXCEPT !.at = "open", !.writes = t]
            q == IF t = <<>> THEN Idle ELSE r
<1>1. Written(p) = [proc EXCEPT ![p] = q]
  BY Zenon DEF Written
<1>2. ProcOK(q, log, made, lock)
  <2>1. CASE t = <<>>
    BY <2>1, IdleOK
  <2>2. CASE t # <<>>
    <3>1. /\ WritesOK(t, log, made, lock) /\ GotOK(o.got, log)
          /\ o = [cmd |-> o.cmd, at |-> o.at, reads |-> <<>>, got |-> o.got,
                  writes |-> o.writes]
      BY NextWrite
    <3>. HIDE DEF o, t
    <3>2. r = [cmd |-> o.cmd, at |-> "open", reads |-> <<>>, got |-> o.got, writes |-> t]
      <4>. HIDE DEF q
      <4>. DEFINE y == [o EXCEPT !.at = "open"]
                  z == [y EXCEPT !.writes = t]
      <4>1. y = [cmd |-> o.cmd, at |-> "open", reads |-> <<>>, got |-> o.got,
                 writes |-> o.writes]
        BY <3>1
      <4>2. r = z
        OBVIOUS
      <4>. HIDE DEF y
      <4>3. z = [cmd |-> o.cmd, at |-> "open", reads |-> <<>>, got |-> o.got, writes |-> t]
        BY <4>1
      <4>. QED  BY <4>2, <4>3
    <3>. HIDE DEF r
    <3>3. r.at = "open" /\ r.reads = <<>> /\ r.got = o.got /\ r.writes = t
          /\ r = [cmd |-> r.cmd, at |-> r.at, reads |-> r.reads, got |-> r.got,
                  writes |-> r.writes]
      BY <3>2
    <3>4. ProcOK(r, log, made, lock)
      BY <3>1, <3>3, <2>2 DEF ProcOK, Reading
    <3>. QED  BY <3>4, <2>2
  <2>. QED  BY <2>1, <2>2
<1>. HIDE DEF q
<1>. QED  BY <1>1, <1>2

(* A process that goes on to the next call on its file is in order.        *)
LEMMA MovedOn ==
  ASSUME NEW lock, Kept(log, made, lock), NEW p \in Procs,
         proc[p].at \in {"open", "write", "chmod"}, NEW at \in {"open", "write", "chmod"}
  PROVE  \E q : [proc EXCEPT ![p].at = at] = [proc EXCEPT ![p] = q]
                /\ ProcOK(q, log, made, lock)
<1>. DEFINE o == proc[p]
            q == [o EXCEPT !.at = at]
<1>1. /\ WritesOK(o.writes, log, made, lock) /\ GotOK(o.got, log) /\ o.writes # <<>>
      /\ o = [cmd |-> o.cmd, at |-> o.at, reads |-> <<>>, got |-> o.got,
              writes |-> o.writes]
  BY NextWrite
<1>2. [proc EXCEPT ![p].at = at] = [proc EXCEPT ![p] = q]
  OBVIOUS
<1>. HIDE DEF o
<1>3. q = [cmd |-> o.cmd, at |-> at, reads |-> <<>>, got |-> o.got, writes |-> o.writes]
  BY <1>1
<1>. HIDE DEF q
<1>4. q.at = at /\ q.reads = <<>> /\ q.got = o.got /\ q.writes = o.writes
      /\ q = [cmd |-> q.cmd, at |-> q.at, reads |-> q.reads, got |-> q.got,
              writes |-> q.writes]
  BY <1>3
<1>5. ProcOK(q, log, made, lock)
  BY <1>1, <1>4 DEF ProcOK, Reading
<1>. QED  BY <1>2, <1>5

(* Opening a file truncates it and gives a new one its mode.               *)
LEMMA OpenStep ==
  ASSUME NEW lock, Kept(log, made, lock), NEW p \in Procs, OpenFile(p)
  PROVE  Kept(log, made, lock)'
<1>. DEFINE w == ThisWrite(p)
            mode(f) == IF f.data # Absent THEN f.mode
                       ELSE IF w.private THEN "owner" ELSE "everyone"
            new(f) == [data |-> Blank, mode |-> mode(f)]
<1>1. /\ session' = session /\ log' = log /\ made' = made /\ proc[p].at = "open"
      /\ proc' = [proc EXCEPT ![p].at = "write"]
      /\ files' = [files EXCEPT ![w.path] = new(files[w.path])]
  BY Zenon DEF OpenFile
<1>2. WriteOK(w, log, made, lock)
  BY <1>1, NextWrite
<1>3. PICK q : proc' = [proc EXCEPT ![p] = q] /\ ProcOK(q, log, made, lock)
  BY <1>1, MovedOn
<1>4. DOMAIN files' = Paths
  BY <1>1 DEF Kept
<1>5. ASSUME NEW path \in Paths
      PROVE  files'[path] = files[path] \/ FileOK(path, files'[path], log, made, lock)
  <2>1. CASE path # w.path
    BY <2>1, <1>1 DEF Kept
  <2>2. CASE path = w.path
    <3>. DEFINE f == files[path]
    <3>1. files'[path] = new(f)
      BY <2>2, <1>1 DEF Kept
    <3>2. FileOK(path, f, log, made, lock)
      BY DEF Kept
    <3>. HIDE DEF f
    <3>3. path.name \in PrivateHalves /\ path.at \notin session.loose => mode(f) = "owner"
      <4>1. path.name \in PrivateHalves => w.private
        BY <1>2, <2>2 DEF WriteOK
      <4>2. path.name \in PrivateHalves /\ path.at \notin session.loose => f.mode = "owner"
        BY <3>2 DEF FileOK
      <4>. HIDE DEF w
      <4>. QED  BY <4>1, <4>2, Zenon
    <3>. HIDE DEF mode
    <3>4. /\ new(f).data = Blank /\ new(f).mode = mode(f)
          /\ new(f) = [data |-> new(f).data, mode |-> new(f).mode]
      OBVIOUS
    <3>. HIDE DEF new
    <3>5. Backed(Blank, log) /\ Locked(Blank, made, lock) /\ ~Secret(Blank)
      BY DEF Backed, Locked, Secret, Blank, PrivateHalves
    <3>6. FileOK(path, new(f), log, made, lock)
      BY <3>3, <3>4, <3>5 DEF FileOK
    <3>. QED  BY <3>1, <3>6
  <2>. QED  BY <2>1, <2>2
<1>. QED  BY <1>1, <1>3, <1>4, <1>5, Stays, Steps

(* chmod only tightens the mode of a file.                                 *)
LEMMA ChmodStep ==
  ASSUME NEW lock, Kept(log, made, lock), NEW p \in Procs, Chmod(p)
  PROVE  Kept(log, made, lock)'
<1>. DEFINE x == ThisWrite(p).path
<1>1. PICK mode \in {"owner", files[x].mode} : files' = [files EXCEPT ![x].mode = mode]
  BY DEF Chmod
<1>2. /\ session' = session /\ log' = log /\ made' = made /\ proc[p].at = "chmod"
      /\ proc' = Written(p)
  BY DEF Chmod
<1>3. PICK q : proc' = [proc EXCEPT ![p] = q] /\ ProcOK(q, log, made, lock)
  BY <1>2, WrittenOK
<1>4. DOMAIN files' = Paths
  BY <1>1 DEF Kept
<1>5. ASSUME NEW path \in Paths
      PROVE  files'[path] = files[path] \/ FileOK(path, files'[path], log, made, lock)
  <2>1. CASE path # x
    BY <2>1, <1>1 DEF Kept
  <2>2. CASE path = x
    <3>. DEFINE f == files[path]
    <3>1. files'[path] = [f EXCEPT !.mode = mode] /\ (mode = "owner" \/ mode = f.mode)
      BY <2>2, <1>1 DEF Kept
    <3>2. FileOK(path, f, log, made, lock)
      BY DEF Kept
    <3>. HIDE DEF f
    <3>3. files'[path] = [data |-> f.data, mode |-> mode]
      BY <3>1, <3>2 DEF FileOK
    <3>. DEFINE g == files'[path]
    <3>4. g.data = f.data /\ g.mode = mode /\ g = [data |-> g.data, mode |-> g.mode]
      BY <3>3
    <3>. HIDE DEF g
    <3>5. FileOK(path, g, log, made, lock)
      BY <3>1, <3>2, <3>4 DEF FileOK
    <3>. QED  BY <3>5 DEF g
  <2>. QED  BY <2>1, <2>2
<1>. QED  BY <1>2, <1>3, <1>4, <1>5, Stays, Steps

(* Writing the data, whole or torn, into a file.                           *)
LEMMA WrittenFile ==
  ASSUME NEW lock, Kept(log, made, lock), NEW p \in Procs,
         proc[p].at = "write", NEW v \in {ThisWrite(p).data, Torn(ThisWrite(p).data)},
         files' = [files EXCEPT ![ThisWrite(p).path].data = v], NEW path \in Paths
  PROVE  files'[path] = files[path] \/ FileOK(path, files'[path], log, made, lock)
<1>. DEFINE w == ThisWrite(p)
<1>1. WriteOK(w, log, made, lock)
  BY NextWrite
<1>2. CASE path # w.path
  BY <1>2 DEF Kept
<1>3. CASE path = w.path
  <2>. DEFINE f == files[path]
              g == files'[path]
  <2>1. g = [f EXCEPT !.data = v]
    BY <1>3 DEF Kept
  <2>2. FileOK(path, f, log, made, lock)
    BY DEF Kept
  <2>. HIDE DEF f
  <2>3. g = [data |-> v, mode |-> f.mode]
    BY <2>1, <2>2 DEF FileOK
  <2>. HIDE DEF g
  <2>4. g.data = v /\ g.mode = f.mode /\ g = [data |-> g.data, mode |-> g.mode]
    BY <2>3
  <2>5. /\ Backed(v, log) /\ Locked(v, made, lock)
        /\ Secret(v) => path.name \in PrivateHalves
    <3>1. CASE v = w.data
      BY <3>1, <1>1, <1>3 DEF WriteOK
    <3>2. CASE v = Torn(w.data)
      <4>1. v.kind = "torn" /\ v.was = w.data
        BY <3>2 DEF Torn
      <4>2. Backed(v, log) /\ Locked(v, made, lock)
        BY <4>1, <1>1 DEF WriteOK, Backed, Locked, PrivateHalves
      <4>3. Secret(v) => Secret(w.data)
        BY <4>1 DEF Secret, PrivateHalves
      <4>. QED  BY <4>2, <4>3, <1>1, <1>3 DEF WriteOK
    <3>. QED  BY <3>1, <3>2
  <2>6. FileOK(path, g, log, made, lock)
    BY <2>2, <2>4, <2>5 DEF FileOK
  <2>. QED  BY <2>6 DEF g
<1>. QED  BY <1>2, <1>3

(* Writing keeps the files in order, torn or whole.                        *)
LEMMA WriteStep ==
  ASSUME NEW lock, Kept(log, made, lock), NEW p \in Procs, WriteFile(p)
  PROVE  Kept(log, made, lock)'
<1>. DEFINE w == ThisWrite(p)
<1>1. /\ session' = session /\ log' = log /\ made' = made /\ proc[p].at = "write"
      /\ proc' = [proc EXCEPT ![p].at = "chmod"] \/ proc' = Written(p)
  BY DEF WriteFile
<1>2. PICK v \in {w.data, Torn(w.data)} : files' = [files EXCEPT ![w.path].data = v]
  BY DEF WriteFile
<1>3. PICK q : proc' = [proc EXCEPT ![p] = q] /\ ProcOK(q, log, made, lock)
  BY <1>1, MovedOn, WrittenOK
<1>4. DOMAIN files' = Paths
  BY <1>2 DEF Kept
<1>5. \A path \in Paths :
        files'[path] = files[path] \/ FileOK(path, files'[path], log, made, lock)
  BY <1>1, <1>2, WrittenFile
<1>. QED  BY <1>1, <1>3, <1>4, <1>5, Stays, Steps

(* A process that dies leaves the files in order.                          *)
LEMMA DieStep ==
  ASSUME NEW lock, Kept(log, made, lock), NEW p \in Procs, Die(p)
  PROVE  Kept(log, made, lock)'
<1>. DEFINE w == ThisWrite(p)
<1>1. /\ session' = session /\ log' = log /\ made' = made
      /\ proc' = [proc EXCEPT ![p] = Idle]
      /\ \/ files' = files
         \/ proc[p].at = "write" /\ files' = [files EXCEPT ![w.path].data = Torn(w.data)]
  BY DEF Die
<1>2. DOMAIN files' = Paths
  BY <1>1 DEF Kept
<1>3. \A path \in Paths :
        files'[path] = files[path] \/ FileOK(path, files'[path], log, made, lock)
  BY <1>1, WrittenFile
<1>. HIDE DEF w
<1>4. ProcOK(Idle, log, made, lock)
  BY IdleOK
<1>. QED  BY <1>1, <1>2, <1>3, <1>4, Stays, Steps

-----------------------------------------------------------------------------
(* What each command makes of what it has read.                            *)

EntryOK(o) ==
  /\ o.op = "opened" => \E s \in log : /\ s.op = "sealed" /\ s.of = o.of /\ s.doc = o.doc
                                       /\ o.other # Nobody => s.other = o.other
  /\ o.op = "verified" => [o EXCEPT !.op = "signed"] \in log
ResultOK(r, n, lock) ==
  WritesOK(r.writes, log \union r.log, n, lock) /\ \A o \in r.log : EntryOK(o)

(* A command that refuses writes and says nothing.                         *)
LEMMA Refused == ASSUME NEW n, NEW lock PROVE ResultOK(Refuses, n, lock)
<1>1. Refuses.writes = <<>> /\ Refuses.log = {}
  BY DEF Refuses, Result
<1>. QED  BY <1>1, EmptyRow DEF ResultOK, WritesOK

(* A command that writes one file and logs what it says.                   *)
LEMMA OneWrite ==
  ASSUME NEW w, NEW e, NEW n, NEW lock, WriteOK(w, log \union {e}, n, lock), EntryOK(e)
  PROVE  ResultOK(Result(<<w>>, {e}), n, lock)
<1>1. Result(<<w>>, {e}).writes = <<w>> /\ Result(<<w>>, {e}).log = {e}
  BY DEF Result
<1>2. IsRow(<<w>>) /\ DOMAIN <<w>> = {1} /\ <<w>>[1] = w
  <2>1. <<w>> \in Seq({w}) /\ Len(<<w>>) = 1 /\ <<w>>[1] = w
    OBVIOUS
  <2>2. IsRow(<<w>>) /\ DOMAIN <<w>> = 1 .. Len(<<w>>)
    BY <2>1, RowOf
  <2>3. 1 .. 1 = {1}
    OBVIOUS
  <2>. QED  BY <2>1, <2>2, <2>3
<1>. QED  BY <1>1, <1>2 DEF ResultOK, WritesOK

(* A command that only logs what it says.                                  *)
LEMMA OneEntry ==
  ASSUME NEW e, NEW n, NEW lock, EntryOK(e)
  PROVE  ResultOK(Result(<<>>, {e}), n, lock)
<1>1. Result(<<>>, {e}).writes = <<>> /\ Result(<<>>, {e}).log = {e}
  BY DEF Result
<1>. QED  BY <1>1, EmptyRow DEF ResultOK, WritesOK

(* encrypt writes only what it logs as sealed.                             *)
LEMMA EncryptOK ==
  ASSUME NEW c, NEW got, NEW typed, NEW n, NEW lock
  PROVE  ResultOK(EncryptResult(c, got, typed), n, lock)
<1>1. ASSUME NEW kind \in {"stream", "envelope"}, NEW of, NEW signer, NEW pub, NEW d
      PROVE  ResultOK(Result(<<WriteOf(File("env"), Envelope(kind, of, signer, pub, d), FALSE)>>,
                             {Entry("sealed", of, signer, d)}), n, lock)
  <2>. DEFINE v == Envelope(kind, of, signer, pub, d)
              w == WriteOf(File("env"), v, FALSE)
              e == Entry("sealed", of, signer, d)
  <2>1. /\ v.kind \in {"stream", "envelope"} /\ v.of = of /\ v.signer = signer /\ v.doc = d
        /\ w.data = v /\ w.path.name = "env" /\ e.op = "sealed"
    BY DEF Envelope, WriteOf, Entry, File
  <2>. HIDE DEF v, w
  <2>2. Entry("sealed", v.of, v.signer, v.doc) = e
    BY <2>1
  <2>. HIDE DEF e
  <2>3. WriteOK(w, log \union {e}, n, lock) /\ EntryOK(e)
    BY <2>1, <2>2 DEF WriteOK, EntryOK, Backed, Locked, Secret, PrivateHalves
  <2>. QED  BY <2>3, OneWrite DEF v, w, e
<1>2. \/ EncryptResult(c, got, typed) = Refuses
      \/ \E kind \in {"stream", "envelope"} : \E of, signer, pub, d :
           EncryptResult(c, got, typed)
             = Result(<<WriteOf(File("env"), Envelope(kind, of, signer, pub, d), FALSE)>>,
                      {Entry("sealed", of, signer, d)})
  BY DEF EncryptResult
<1>. QED  BY <1>1, <1>2, Refused

(* sign writes only what it logs as signed.                                *)
LEMMA SignOK ==
  ASSUME NEW c, NEW got, NEW typed, NEW n, NEW lock
  PROVE  ResultOK(SignResult(c, got, typed), n, lock)
<1>. DEFINE of == got[1].of
            v == Detached(of, c.doc)
            w == WriteOf(File("sig"), v, FALSE)
            e == Entry("signed", of, Nobody, c.doc)
<1>1. /\ v.kind = "signature" /\ v.of = of /\ v.doc = c.doc
      /\ w.data = v /\ w.path.name = "sig" /\ e.op = "signed"
  BY DEF Detached, WriteOf, Entry, File
<1>2. SignResult(c, got, typed) \in {Refuses, Result(<<w>>, {e})}
  BY DEF SignResult
<1>. HIDE DEF v, w
<1>3. Entry("signed", v.of, Nobody, v.doc) = e
  BY <1>1
<1>. HIDE DEF e
<1>4. WriteOK(w, log \union {e}, n, lock) /\ EntryOK(e)
  BY <1>1, <1>3 DEF WriteOK, EntryOK, Backed, Locked, Secret, PrivateHalves
<1>. QED  BY <1>2, <1>4, OneWrite, Refused

(* verify says yes only to a signature it has read.                        *)
LEMMA VerifyOK ==
  ASSUME NEW c, NEW got, NEW n, NEW lock, GotOK(got, log), Len(got) = 3
  PROVE  ResultOK(VerifyResult(c, got), n, lock)
<1>. DEFINE of == got[1].of
            e == Entry("verified", of, Nobody, c.doc)
<1>1. VerifyResult(c, got) \in {Refuses, Result(<<>>, {e})}
  BY DEF VerifyResult
<1>2. CASE got[3] = Detached(of, c.doc)
  <2>1. 3 \in DOMAIN got
    <3>1. DOMAIN got = 1 .. Len(got)
      BY LenProperties DEF GotOK, IsRow
    <3>. QED  BY <3>1
  <2>2. Backed(got[3], log)
    BY <2>1 DEF GotOK
  <2>3. got[3].kind = "signature" /\ got[3].of = of /\ got[3].doc = c.doc
    BY <1>2 DEF Detached
  <2>4. Entry("signed", of, Nobody, c.doc) \in log
    BY <2>2, <2>3 DEF Backed
  <2>5. [e EXCEPT !.op = "signed"] = Entry("signed", of, Nobody, c.doc) /\ e.op = "verified"
    BY DEF Entry
  <2>. HIDE DEF e
  <2>6. EntryOK(e)
    BY <2>4, <2>5 DEF EntryOK
  <2>. QED  BY <2>6, <1>1, OneEntry, Refused
<1>3. CASE got[3] # Detached(of, c.doc)
  <2>1. VerifyResult(c, got) = Refuses
    BY <1>3 DEF VerifyResult
  <2>. QED  BY <2>1, Refused
<1>. QED  BY <1>2, <1>3

(* decrypt opens only what it has read.                                    *)
LEMMA DecryptOK ==
  ASSUME NEW c, NEW got, NEW typed, NEW n, NEW lock, GotOK(got, log), Len(got) \in Nat,
         Len(got) >= 2
  PROVE  ResultOK(DecryptResult(c, got, typed), n, lock)
<1>. DEFINE v == got[1]
            key == got[2]
            other == IF c.expect = None THEN Nobody ELSE Owner(got[3])
            w == WriteOf(File("out"), Text(v.doc), FALSE)
            e == Entry("opened", key.of, other, v.doc)
<1>1. \/ DecryptResult(c, got, typed) = Refuses
      \/ /\ DecryptResult(c, got, typed) = Result(<<w>>, {e})
         /\ DecryptAccepts(c, v) /\ key.of = v.of
         /\ v.kind = "envelope" =>
              IF c.expect = None THEN AnySenderFits(v) ELSE SenderFits(v, got[3])
  BY DEF DecryptResult
<1>2. CASE DecryptResult(c, got, typed) = Refuses
  BY <1>2, Refused
<1>3. CASE /\ DecryptResult(c, got, typed) = Result(<<w>>, {e})
           /\ DecryptAccepts(c, v) /\ key.of = v.of
           /\ v.kind = "envelope" =>
                IF c.expect = None THEN AnySenderFits(v) ELSE SenderFits(v, got[3])
  <2>1. v.kind \in {"stream", "envelope"} /\ (c.expect = None \/ v.signer = Owner(got[3]))
    BY <1>3 DEF DecryptAccepts, SenderFits, Owner
  <2>2. Backed(v, log)
    <3>1. DOMAIN got = 1 .. Len(got)
      BY LenProperties DEF GotOK, IsRow
    <3>2. 1 \in DOMAIN got
      BY <3>1
    <3>. QED  BY <3>2 DEF GotOK
  <2>. DEFINE s == Entry("sealed", v.of, v.signer, v.doc)
  <2>3. s \in log
    BY <2>1, <2>2 DEF Backed
  <2>4. /\ s.op = "sealed" /\ s.of = v.of /\ s.other = v.signer /\ s.doc = v.doc
        /\ e.op = "opened" /\ e.of = key.of /\ e.other = other /\ e.doc = v.doc
    BY DEF Entry
  <2>5. other # Nobody => other = v.signer
    BY <2>1
  <2>. HIDE DEF s, other
  <2>6. EntryOK(e)
    <3>. HIDE DEF e, v, key
    <3>. QED  BY <1>3, <2>3, <2>4, <2>5 DEF EntryOK
  <2>7. w.data.kind = "text" /\ w.path.name = "out"
    BY DEF WriteOf, Text, File
  <2>8. WriteOK(w, log \union {e}, n, lock)
    <3>. HIDE DEF w, e
    <3>. QED  BY <2>7 DEF WriteOK, Backed, Locked, Secret, PrivateHalves
  <2>. HIDE DEF w, e
  <2>. QED  BY <1>3, <2>6, <2>8, OneWrite
<1>. QED  BY <1>1, <1>2, <1>3

(* keygen makes two halves of each kind, of one identity.                  *)
LEMMA KeygenOK ==
  ASSUME NEW c, NEW n \in Nat, NEW lock, lock[n] = c.pass
  PROVE  ResultOK(KeygenResult(c, n), n, lock)
<1>. DEFINE ws == [i \in 1 .. 4 |-> KeygenHalf(c, n, Halves[i])]
<1>. DEFINE e == Made(n, c.pass)
<1>1. /\ KeygenResult(c, n).writes = ws /\ KeygenResult(c, n).log = {e}
      /\ EntryOK(e)
  BY DEF KeygenResult, Result, Made, EntryOK
<1>2. IsRow(ws) /\ DOMAIN ws = 1 .. 4
  <2>. DEFINE S == {ws[i] : i \in 1 .. 4}
  <2>1. ws \in [1 .. 4 -> S] /\ 4 \in Nat
    OBVIOUS
  <2>. HIDE DEF ws, S
  <2>2. ws \in Seq(S)
    BY <2>1, SeqDef
  <2>. QED  BY <2>1, <2>2, RowOf
<1>. HIDE DEF e
<1>3. ASSUME NEW i \in 1 .. 4 PROVE WriteOK(ws[i], log \union {e}, n, lock)
  <2>. DEFINE half == Halves[i]
              w == KeygenHalf(c, n, half)
              v == Bundle(half, n, IF half \in PrivateHalves THEN c.pass ELSE NoPass)
  <2>1. half \in {"kem.pub", "kem.key", "sig.pub", "sig.key"}
    BY DEF Halves
  <2>2. ws[i] = w
    OBVIOUS
  <2>. HIDE DEF half
  <2>3. /\ w.path.name = half /\ w.data = v
        /\ v.kind = half /\ v.of = n
        /\ half \in PrivateHalves => v.lock = c.pass
    BY DEF KeygenHalf, WriteOf, Bundle, Key
  <2>4. half \in PrivateHalves => w.private
    BY Zenon DEF KeygenHalf, WriteOf
  <2>. HIDE DEF w, v, ws
  <2>5. /\ Backed(v, log \union {e}) /\ Locked(v, n, lock)
        /\ Secret(v) => half \in PrivateHalves
    BY <2>1, <2>3 DEF Backed, Locked, Secret
  <2>. QED  BY <2>2, <2>3, <2>4, <2>5 DEF WriteOK
<1>. HIDE DEF ws
<1>. QED  BY <1>1, <1>2, <1>3 DEF ResultOK, WritesOK

-----------------------------------------------------------------------------
(* Computing, and the invariant.                                           *)

(* So whatever a command makes of what it has read is in order.            *)
LEMMA Results ==
  ASSUME NEW lock, NEW lock2, NEW n2, NEW c \in CommandLines, NEW got, NEW typed,
         GotOK(got, log), Len(got) = Len(ReadsOf(c)), SessionOK,
         c.name = "keygen" => n2 = made + 1 /\ n2 \in Nat /\ lock2[n2] = c.pass
  PROVE  ResultOK(ResultOf(c, got, typed), n2, lock2)
<1>1. c.name \in {"keygen", "encrypt", "decrypt", "sign", "verify", "info", "demo"}
  BY DEF CommandLines
<1>2. CASE c.name = "keygen"
  <2>1. ResultOf(c, got, typed) = KeygenResult(c, n2)
    BY <1>2 DEF ResultOf
  <2>. QED  BY <1>2, <2>1, KeygenOK
<1>3. CASE c.name = "encrypt"
  BY <1>3, EncryptOK DEF ResultOf
<1>4. CASE c.name = "decrypt"
  <2>1. Len(got) \in Nat /\ Len(got) >= 2
    <3>1. Len(got) \in Nat
      BY LenProperties DEF GotOK, IsRow
    <3>. QED  BY <1>4, <3>1, ReadsArePaths
  <2>. QED  BY <1>4, <2>1, DecryptOK DEF ResultOf
<1>5. CASE c.name = "sign"
  BY <1>5, SignOK DEF ResultOf
<1>6. CASE c.name = "verify"
  BY <1>6, VerifyOK, ReadsArePaths DEF ResultOf
<1>7. CASE c.name = "info"
  BY <1>7, Refused DEF ResultOf
<1>8. CASE c.name = "demo"
  <2>. DEFINE e == Entry(IF c.suite = 3 THEN "demo raised" ELSE "demo shown",
                         Nobody, Nobody, None)
  <2>1. ResultOf(c, got, typed) = Result(<<>>, {e})
    BY <1>8 DEF ResultOf, DemoResult
  <2>2. e.op # "opened" /\ e.op # "verified"
    BY DEF Entry
  <2>. HIDE DEF e
  <2>. QED  BY <2>1, <2>2, OneEntry DEF EntryOK
<1>. QED  BY <1>1, <1>2, <1>3, <1>4, <1>5, <1>6, <1>7, <1>8

(* Only keygen says that an identity was made, and with which passphrase.  *)
LEMMA OnlyKeygenMakes ==
  ASSUME NEW c \in CommandLines, NEW got, NEW typed
  PROVE  LET r == ResultOf(c, got, typed)
         IN  IF c.name = "keygen" THEN r.log = {Made(made + 1, c.pass)}
             ELSE \A e \in r.log : e.op # "made"
<1>. DEFINE r == ResultOf(c, got, typed)
<1>1. c.name \in {"keygen", "encrypt", "decrypt", "sign", "verify", "info", "demo"}
  BY DEF CommandLines
<1>2. Refuses.log = {} /\ \A ws, l : Result(ws, l).log = l
  BY DEF Refuses, Result
<1>3. \A op, id, other, d : Entry(op, id, other, d).op = op
  BY DEF Entry
<1>4. CASE c.name = "keygen"
  BY <1>2, <1>4 DEF ResultOf, KeygenResult
<1>5. CASE c.name = "encrypt"
  <2>1. r = EncryptResult(c, got, typed)
    BY <1>5 DEF ResultOf
  <2>2. r = Refuses \/ \E ws, id, signer : r = Result(ws, {Entry("sealed", id, signer, c.doc)})
    BY <2>1 DEF EncryptResult
  <2>. HIDE DEF r
  <2>3. ASSUME NEW e \in r.log PROVE e.op = "sealed"
    <3>1. r # Refuses
      BY <1>2
    <3>2. PICK ws, id, signer : r = Result(ws, {Entry("sealed", id, signer, c.doc)})
      BY <2>2, <3>1
    <3>3. r.log = {Entry("sealed", id, signer, c.doc)}
      BY <1>2, <3>2
    <3>. QED  BY <1>3, <3>3
  <2>4. \A e \in r.log : e.op # "made"
    BY <2>3
  <2>. QED  BY <1>5, <2>4 DEF r
<1>6. CASE c.name = "decrypt"
  <2>1. r = DecryptResult(c, got, typed)
    BY <1>6 DEF ResultOf
  <2>2. r = Refuses \/ \E ws, id, from, d : r = Result(ws, {Entry("opened", id, from, d)})
    BY <2>1 DEF DecryptResult
  <2>. HIDE DEF r
  <2>3. ASSUME NEW e \in r.log PROVE e.op = "opened"
    <3>1. r # Refuses
      BY <1>2
    <3>2. PICK ws, id, from, d : r = Result(ws, {Entry("opened", id, from, d)})
      BY <2>2, <3>1
    <3>3. r.log = {Entry("opened", id, from, d)}
      BY <1>2, <3>2
    <3>. QED  BY <1>3, <3>3
  <2>4. \A e \in r.log : e.op # "made"
    BY <2>3
  <2>. QED  BY <1>6, <2>4 DEF r
<1>7. CASE c.name = "sign"
  <2>1. r = SignResult(c, got, typed)
    BY <1>7 DEF ResultOf
  <2>2. r = Refuses \/ \E ws, id : r = Result(ws, {Entry("signed", id, Nobody, c.doc)})
    BY <2>1 DEF SignResult
  <2>. HIDE DEF r
  <2>3. ASSUME NEW e \in r.log PROVE e.op = "signed"
    <3>1. r # Refuses
      BY <1>2
    <3>2. PICK ws, id : r = Result(ws, {Entry("signed", id, Nobody, c.doc)})
      BY <2>2, <3>1
    <3>3. r.log = {Entry("signed", id, Nobody, c.doc)}
      BY <1>2, <3>2
    <3>. QED  BY <1>3, <3>3
  <2>4. \A e \in r.log : e.op # "made"
    BY <2>3
  <2>. QED  BY <1>7, <2>4 DEF r
<1>8. CASE c.name = "verify"
  <2>1. r = VerifyResult(c, got)
    BY <1>8 DEF ResultOf
  <2>2. r = Refuses \/ \E ws, id : r = Result(ws, {Entry("verified", id, Nobody, c.doc)})
    BY <2>1 DEF VerifyResult
  <2>. HIDE DEF r
  <2>3. ASSUME NEW e \in r.log PROVE e.op = "verified"
    <3>1. r # Refuses
      BY <1>2
    <3>2. PICK ws, id : r = Result(ws, {Entry("verified", id, Nobody, c.doc)})
      BY <2>2, <3>1
    <3>3. r.log = {Entry("verified", id, Nobody, c.doc)}
      BY <1>2, <3>2
    <3>. QED  BY <1>3, <3>3
  <2>4. \A e \in r.log : e.op # "made"
    BY <2>3
  <2>. QED  BY <1>8, <2>4 DEF r
<1>9. CASE c.name = "info"
  BY <1>2, <1>9 DEF ResultOf
<1>10. CASE c.name = "demo"
  <2>. DEFINE op == IF c.suite = 3 THEN "demo raised" ELSE "demo shown"
  <2>1. r = Result(<<>>, {Entry(op, Nobody, Nobody, None)}) /\ op # "made"
    BY <1>10 DEF ResultOf, DemoResult
  <2>. HIDE DEF r, op
  <2>. QED  BY <1>2, <1>3, <1>10, <2>1 DEF r
<1>. QED  BY <1>1, <1>4, <1>5, <1>6, <1>7, <1>8, <1>9, <1>10

(* The step between reading and writing keeps the invariant.               *)
LEMMA ComputeStep ==
  ASSUME SessionOK, Logged, NEW lock, Kept(log, made, lock), Recorded(log, made, lock),
         NEW p \in Procs, Compute(p)
  PROVE  Logged' /\ \E lock2 : (Kept(log, made, lock2) /\ Recorded(log, made, lock2))'
<1>. DEFINE o == proc[p]
            keygen == o.cmd.name = "keygen"
            more == [i \in Nat |-> IF keygen /\ i = made + 1 THEN o.cmd.pass ELSE lock[i]]
<1>. PICK lock2 : lock2 = more
  OBVIOUS
<1>0. PICK typed \in Passes :
        LET r == ResultOf(o.cmd, o.got, typed)
        IN  /\ proc' = [proc EXCEPT ![p] =
                 IF r.writes = <<>> THEN Idle
                 ELSE [o EXCEPT !.at = "open", !.got = <<>>, !.writes = r.writes]]
            /\ log' = log \union r.log
            /\ made' = IF keygen THEN made + 1 ELSE made
  BY Zenon DEF Compute
<1>. DEFINE r == ResultOf(o.cmd, o.got, typed)
            busy == [o EXCEPT !.at = "open", !.got = <<>>, !.writes = r.writes]
            q == IF r.writes = <<>> THEN Idle ELSE busy
<1>1. /\ session' = session /\ files' = files /\ o.at = "read" /\ o.reads = <<>>
      /\ proc' = [proc EXCEPT ![p] = q] /\ log' = log \union r.log
      /\ made' = IF keygen THEN made + 1 ELSE made
  BY <1>0 DEF Compute
<1>2. /\ ProcOK(o, log, made, lock) /\ o.cmd \in CommandLines /\ GotOK(o.got, log)
      /\ Len(o.got) = Len(ReadsOf(o.cmd))
  <2>1. ProcOK(o, log, made, lock) /\ GotOK(o.got, log) /\ Reading(o)
    BY DEF Kept, ProcOK
  <2>. HIDE DEF o
  <2>2. Len(o.got) \in Nat
    BY <2>1, LenProperties DEF GotOK, IsRow
  <2>3. Len(o.got) + 0 = Len(ReadsOf(o.cmd)) /\ o.cmd \in CommandLines
    BY <1>1, <2>1, EmptyRow DEF Reading
  <2>. QED  BY <2>1, <2>2, <2>3
<1>3. made \in Nat /\ DOMAIN lock = Nat
  BY DEF Kept
<1>4. Grows(log, made, lock, log', made', lock2) /\ DOMAIN lock2 = Nat
  <2>. HIDE DEF o, r, q
  <2>1. made' \in Nat /\ made <= made' /\ log \subseteq log'
    BY <1>1, <1>3
  <2>2. \A i \in 0 .. made : lock2[i] = lock[i]
    BY <1>3
  <2>3. DOMAIN lock2 = Nat
    OBVIOUS
  <2>. QED  BY <2>1, <2>2, <2>3, <1>3 DEF Grows
<1>5. ResultOK(r, made', lock2)
  <2>1. keygen => made' = made + 1 /\ made' \in Nat /\ lock2[made'] = o.cmd.pass
    <3>. HIDE DEF o, r, q
    <3>. QED  BY <1>1, <1>3
  <2>. HIDE DEF more, o
  <2>. QED  BY <1>2, <2>1, Results
<1>6. ProcOK(q, log', made', lock2)
  <2>1. CASE r.writes = <<>>
    <3>. HIDE DEF o, r, more
    <3>. QED  BY <2>1, IdleOK
  <2>2. CASE r.writes # <<>>
    <3>1. WritesOK(r.writes, log', made', lock2)
      <4>. HIDE DEF o, r, more, q
      <4>. QED  BY <1>1, <1>5 DEF ResultOK
    <3>2. o = [cmd |-> o.cmd, at |-> o.at, reads |-> o.reads, got |-> o.got,
               writes |-> o.writes]
      BY <1>2 DEF ProcOK
    <3>3. o.reads = <<>>
      BY <1>1
    <3>. DEFINE w == r.writes
                x == [o EXCEPT !.at = "open"]
                y == [x EXCEPT !.got = <<>>]
                z == [y EXCEPT !.writes = w]
    <3>4. busy = z
      OBVIOUS
    <3>. HIDE DEF o, r, busy, more, q, w
    <3>5. x = [cmd |-> o.cmd, at |-> "open", reads |-> <<>>, got |-> o.got,
               writes |-> o.writes]
      BY <3>2, <3>3
    <3>. HIDE DEF x
    <3>6. y = [cmd |-> o.cmd, at |-> "open", reads |-> <<>>, got |-> <<>>,
               writes |-> o.writes]
      BY <3>5
    <3>. HIDE DEF y
    <3>7. z = [cmd |-> o.cmd, at |-> "open", reads |-> <<>>, got |-> <<>>, writes |-> w]
      BY <3>6
    <3>. HIDE DEF z
    <3>8. /\ z.at = "open" /\ z.reads = <<>> /\ z.got = <<>> /\ z.writes = w
          /\ z = [cmd |-> z.cmd, at |-> z.at, reads |-> z.reads, got |-> z.got,
                  writes |-> z.writes]
      BY <3>7
    <3>9. GotOK(<<>>, log')
      BY EmptyRow DEF GotOK
    <3>10. ProcOK(z, log', made', lock2)
      BY <2>2, <3>1, <3>8, <3>9 DEF ProcOK, Reading, w
    <3>. QED  BY <2>2, <3>4, <3>10 DEF q
  <2>. QED  BY <2>1, <2>2
<1>7. Kept(log, made, lock2)'
  <2>1. DOMAIN files' = Paths /\ \A path \in Paths : files'[path] = files[path]
    BY <1>1 DEF Kept
  <2>2. session' = session /\ proc' = [proc EXCEPT ![p] = q]
    BY <1>1
  <2>3. \A path \in Paths : \/ files'[path] = files[path]
                             \/ FileOK(path, files'[path], log', made', lock2)
    BY <2>1
  <2>. HIDE DEF o, r, q, more
  <2>. QED  BY <1>4, <1>6, <2>1, <2>2, <2>3, Steps
<1>8. Logged'
  <2>1. log' = log \union r.log /\ \A e \in r.log : EntryOK(e)
    BY <1>1, <1>5 DEF ResultOK
  <2>. HIDE DEF o, r, q, more
  <2>2. OpenedWasSealed'
    BY <2>1 DEF Logged, OpenedWasSealed, EntryOK
  <2>3. VerifiedWasSigned'
    BY <2>1 DEF Logged, VerifiedWasSigned, EntryOK
  <2>. QED  BY <2>2, <2>3 DEF Logged
<1>9. Recorded(log', made', lock2)
  <2>1. IF keygen THEN r.log = {Made(made + 1, o.cmd.pass)}
        ELSE \A e \in r.log : e.op # "made"
    <3>. HIDE DEF o
    <3>. QED  BY <1>2, OnlyKeygenMakes
  <2>2. /\ log' = log \union r.log
        /\ made' = IF keygen THEN made + 1 ELSE made
        /\ \A i \in Nat : lock2[i] = IF keygen /\ i = made + 1 THEN o.cmd.pass ELSE lock[i]
    BY <1>1
  <2>. HIDE DEF more, r, q
  <2>3. CASE ~keygen
    <3>1. \A i \in 0 .. made : lock2[i] = lock[i]
      BY <2>2, <2>3, <1>3
    <3>. HIDE DEF o
    <3>. QED  BY <2>1, <2>2, <2>3, <3>1, <1>3 DEF Recorded
  <2>4. CASE keygen
    <3>. DEFINE id == made + 1
    <3>1. lock2[id] = o.cmd.pass /\ \A i \in 0 .. made : lock2[i] = lock[i]
      BY <2>2, <2>4, <1>3
    <3>2. log' = log \union {Made(id, lock2[id])} /\ made' = id
      BY <2>1, <2>2, <2>4, <3>1
    <3>3. Made(id, lock2[id]).of = id /\ Made(id, lock2[id]).pass = lock2[id]
      BY DEF Made
    <3>4. 1 .. id = 1 .. made \union {id} /\ 1 .. made \subseteq 0 .. made
      BY <1>3
    <3>. HIDE DEF o, id
    <3>. QED  BY <3>1, <3>2, <3>3, <3>4, <1>3 DEF Recorded
  <2>. QED  BY <2>3, <2>4
<1>. QED  BY <1>7, <1>8, <1>9

(* The invariant holds initially.                                          *)
LEMMA Initially == Init => IInv
<1>. SUFFICES ASSUME Init PROVE IInv
  OBVIOUS
<1>. DEFINE lock == [i \in Nat |-> NoPass]
<1>1. SessionOK /\ log = {} /\ made = 0
  BY DEF Init, SessionOK
<1>2. Logged
  BY <1>1 DEF Logged, OpenedWasSealed, VerifiedWasSigned
<1>3. ASSUME NEW path \in Paths PROVE FileOK(path, files[path], log, made, lock)
  <2>. DEFINE d == InitialData(path)
  <2>1. files[path] = [data |-> d, mode |-> InitialMode(path)]
    BY DEF Init
  <2>2. path.name \in {"kem.pub", "kem.key", "sig.pub", "sig.key", "doc", "env", "out", "sig"}
    <3>1. HalfNames = {"kem.pub", "kem.key", "sig.pub", "sig.key"}
      BY DEF HalfNames, Halves
    <3>. QED  BY <3>1 DEF Paths, Doc, File
  <2>3. /\ d.kind \in {"text", "empty", "absent"} \/ d = Bundle(path.name, 0, NoPass)
        /\ path.name = "doc" => d.kind = "text"
    BY DEF InitialData, Text, Blank, Absent
  <2>4. d = Bundle(path.name, 0, NoPass) =>
          d.kind = path.name /\ d.of = 0 /\ d.lock = NoPass
    BY DEF Bundle
  <2>5. /\ Backed(d, log) /\ Locked(d, made, lock)
        /\ Secret(d) => path.name \in PrivateHalves
    <3>. HIDE DEF d
    <3>1. 0 \in 0 .. made /\ lock[0] = NoPass
      BY <1>1
    <3>. HIDE DEF lock
    <3>. QED  BY <2>2, <2>3, <2>4, <3>1 DEF Backed, Locked, Secret, PrivateHalves
  <2>6. path.name \in PrivateHalves /\ path.at \notin session.loose
          => InitialMode(path) = "owner"
    BY DEF InitialMode
  <2>. DEFINE f == files[path]
  <2>7. f.data = d /\ f.mode = InitialMode(path) /\ f = [data |-> f.data, mode |-> f.mode]
    BY <2>1
  <2>. HIDE DEF f, d, lock
  <2>8. FileOK(path, f, log, made, lock)
    BY <2>5, <2>6, <2>7 DEF FileOK
  <2>. QED  BY <2>8 DEF f
<1>4. \A p \in Procs : ProcOK(proc[p], log, made, lock)
  <2>1. \A p \in Procs : proc[p] = Idle
    BY DEF Init
  <2>. HIDE DEF lock
  <2>. QED  BY <2>1, IdleOK
<1>5. Kept(log, made, lock)
  <2>1. DOMAIN files = Paths /\ DOMAIN proc = Procs /\ DOMAIN lock = Nat /\ made \in Nat
    BY <1>1 DEF Init
  <2>. HIDE DEF lock
  <2>. QED  BY <1>3, <1>4, <2>1 DEF Kept
<1>6. Recorded(log, made, lock)
  <2>1. lock[0] = NoPass
    OBVIOUS
  <2>. HIDE DEF lock
  <2>. QED  BY <1>1, <2>1 DEF Recorded
<1>. HIDE DEF lock
<1>. QED  BY <1>1, <1>2, <1>5, <1>6 DEF IInv

(* Every step preserves it.                                                *)
LEMMA Inductive == IInv /\ [Next]_vars => IInv'
<1>. SUFFICES ASSUME IInv, [Next]_vars PROVE IInv'
  OBVIOUS
<1>0. SessionOK /\ Logged
  BY DEF IInv
<1>1. PICK lock : Kept(log, made, lock) /\ Recorded(log, made, lock)
  BY DEF IInv
<1>2. CASE UNCHANGED vars
  <2>1. /\ session' = session /\ files' = files /\ proc' = proc /\ log' = log
        /\ made' = made
    BY <1>2 DEF vars
  <2>2. SessionOK' /\ Logged'
    BY <1>0, <2>1, LoggedStays DEF SessionOK
  <2>3. ASSUME NEW path \in Paths PROVE FileOK(path, files[path], log, made, lock)'
    BY <1>1, <2>1 DEF Kept, FileOK
  <2>4. ASSUME NEW p \in Procs PROVE ProcOK(proc[p], log, made, lock)'
    <3>1. ProcOK(proc[p], log, made, lock)
      BY <1>1 DEF Kept
    <3>. QED  BY <2>1, <3>1, SameSession DEF ProcOK, Reading
  <2>5. Kept(log, made, lock)'
    BY <1>1, <2>1, <2>3, <2>4 DEF Kept
  <2>6. Recorded(log, made, lock)'
    BY <1>1, <2>1 DEF Recorded
  <2>. QED  BY <2>2, <2>5, <2>6 DEF IInv
<1>3. ASSUME NEW p \in Procs,
             Start(p) \/ Read(p) \/ Compute(p) \/ OpenFile(p) \/ WriteFile(p) \/ Chmod(p) \/ Die(p)
      PROVE  IInv'
  <2>1. SessionOK'
    BY <1>0, <1>3 DEF SessionOK, Start, Read, Compute, OpenFile, WriteFile, Chmod, Die
  <2>2. CASE Compute(p)
    BY <1>0, <1>1, <2>1, <2>2, ComputeStep DEF IInv
  <2>3. CASE Start(p) \/ Read(p) \/ OpenFile(p) \/ WriteFile(p) \/ Chmod(p) \/ Die(p)
    <3>1. Kept(log, made, lock)'
      BY <1>0, <1>1, <2>3, StartStep, ReadStep, OpenStep, WriteStep, ChmodStep, DieStep
    <3>2. Logged'
      BY <1>0, <2>3, LoggedStays DEF Start, Read, OpenFile, WriteFile, Chmod, Die
    <3>3. Recorded(log, made, lock)'
      BY <1>1, <2>3 DEF Recorded, Start, Read, OpenFile, WriteFile, Chmod, Die
    <3>. QED  BY <2>1, <3>1, <3>2, <3>3 DEF IInv
  <2>. QED  BY <1>3, <2>2, <2>3
<1>. QED  BY <1>2, <1>3 DEF Next

(* It holds throughout.                                                    *)
LEMMA Invariance == Spec => []IInv
BY Initially, Inductive, PTL DEF Spec

-----------------------------------------------------------------------------
(* The halves of a prefix.  A keygen that is alone on its prefix writes    *)
(* them in their order, as one identity newer than all that is there; a    *)
(* death anywhere leaves the first of them newer than the rest.            *)

In(F, prefix, i) == F[Key(prefix, Halves[i])].data
Holds(F, prefix, i) == In(F, prefix, i).kind = Halves[i]
InOrder(F, prefix) ==
  \A i, j \in 1 .. 4 :
    i < j /\ Holds(F, prefix, i) /\ Holds(F, prefix, j)
      => In(F, prefix, i).of >= In(F, prefix, j).of
KnownIds(F, n, prefix) ==
  \A i \in 1 .. 4 : Holds(F, prefix, i) => In(F, prefix, i).of \in 0 .. n

(* What keygen has still to write, from its k-th file on.                  *)
HalvesFrom(c, id, k) == [i \in 1 .. 5 - k |-> KeygenHalf(c, id, Halves[k + i - 1])]

(* The first k halves are of this identity, none is of a later one.        *)
Newest(F, prefix, id, k) ==
  /\ \A i \in 1 .. 4 : Holds(F, prefix, i) => In(F, prefix, i).of <= id
  /\ \A i \in 1 .. k : Holds(F, prefix, i) => In(F, prefix, i).of >= id

(* A process that writes: a keygen is at some file of its row, the others  *)
(* write no key file.  V is the prefixes on which keygens have overlapped. *)
AtHalf(q, F, n, V) ==
  \E id \in 1 .. n, k \in 1 .. 4 :
    /\ q.writes = HalvesFrom(q.cmd, id, k)
    /\ q.cmd.at \notin V =>
         Newest(F, q.cmd.at, id, IF q.at = "chmod" THEN k ELSE k - 1)
Writing(q, F, n, V) ==
  q.at \in {"open", "write", "chmod"} =>
    IF q.cmd.name = "keygen" THEN q.cmd.at \in Prefixes /\ AtHalf(q, F, n, V)
    ELSE \A i \in DOMAIN q.writes : q.writes[i].path.at = None

Alone(prefix) == \A p, o \in Keygens(prefix) : p = o

OrderInv ==
  /\ \A prefix \in Prefixes : KnownIds(files, made, prefix)
  /\ \A prefix \in Prefixes \ overlaid : InOrder(files, prefix) /\ Alone(prefix)
  /\ \A p \in Procs : Writing(proc[p], files, made, overlaid)

(* The names of the halves are four, and a key file is of one prefix.      *)
LEMMA HalfNamesDiffer ==
  /\ \A i, j \in 1 .. 4 : Halves[i] = Halves[j] => i = j
  /\ \A i \in 1 .. 4 : /\ Halves[i] \in {"kem.pub", "kem.key", "sig.pub", "sig.key"}
                       /\ \A prefix \in Prefixes : Key(prefix, Halves[i]) \in Paths
  /\ \A a, b, x, y : Key(a, x) = Key(b, y) => a = b /\ x = y
  /\ \A a, x : Key(a, x).at = a
<1>1. /\ Halves[1] = "kem.pub" /\ Halves[2] = "kem.key"
      /\ Halves[3] = "sig.pub" /\ Halves[4] = "sig.key"
  BY DEF Halves
<1>2. \A i \in 1 .. 4 : i = 1 \/ i = 2 \/ i = 3 \/ i = 4
  OBVIOUS
<1>3. \A i, j \in 1 .. 4 : Halves[i] = Halves[j] => i = j
  BY <1>1, <1>2
<1>4. \A i \in 1 .. 4 : Halves[i] \in {"kem.pub", "kem.key", "sig.pub", "sig.key"}
  BY <1>1, <1>2
<1>5. \A a, b, x, y : Key(a, x) = Key(b, y) => a = b /\ x = y
  BY DEF Key
<1>6. \A a, x : Key(a, x).at = a
  BY DEF Key
<1>. QED  BY <1>3, <1>4, <1>5, <1>6, PathNames

(* What keygen has still to write after its k-th file.                     *)
LEMMA RestOfHalves ==
  ASSUME NEW c, NEW id, NEW k \in 1 .. 4
  PROVE  /\ HalvesFrom(c, id, k) # <<>>
         /\ Head(HalvesFrom(c, id, k)) = KeygenHalf(c, id, Halves[k])
         /\ Tail(HalvesFrom(c, id, k)) = HalvesFrom(c, id, k + 1)
         /\ k = 4 <=> HalvesFrom(c, id, k + 1) = <<>>
<1>. DEFINE S == {KeygenHalf(c, id, Halves[i]) : i \in 1 .. 4}
            From(n) == HalvesFrom(c, id, n)
<1>1. ASSUME NEW n \in 1 .. 5
      PROVE  /\ From(n) \in Seq(S) /\ Len(From(n)) = 5 - n
             /\ DOMAIN From(n) = 1 .. 5 - n
             /\ \A i \in 1 .. 5 - n : From(n)[i] = KeygenHalf(c, id, Halves[n + i - 1])
  <2>1. \A i \in 1 .. 5 - n : n + i - 1 \in 1 .. 4
    OBVIOUS
  <2>2. From(n) \in [1 .. 5 - n -> S]
    BY <2>1 DEF HalvesFrom
  <2>3. From(n) \in Seq(S) /\ 5 - n \in Nat
    BY <2>2, SeqDef
  <2>. QED  BY <2>2, <2>3, LenProperties DEF HalvesFrom
<1>. HIDE DEF From, S
<1>2. k \in 1 .. 5 /\ k + 1 \in 1 .. 5
  OBVIOUS
<1>3. From(k) # <<>> /\ (k = 4 <=> From(k + 1) = <<>>)
  BY <1>1, <1>2, EmptySeq, LenProperties
<1>4. Head(From(k)) = KeygenHalf(c, id, Halves[k])
  BY <1>1, <1>2, <1>3, HeadTailProperties
<1>5. Tail(From(k)) = From(k + 1)
  <2>1. /\ Tail(From(k)) \in Seq(S) /\ Len(Tail(From(k))) = 5 - (k + 1)
        /\ \A i \in 1 .. 5 - (k + 1) : Tail(From(k))[i] = From(k)[i + 1]
    <3>. DEFINE s == From(k)
    <3>1. s \in Seq(S) /\ s # <<>> /\ Len(s) = 5 - k
      BY <1>1, <1>2, <1>3
    <3>2. (5 - k) - 1 = 5 - (k + 1)
      OBVIOUS
    <3>. HIDE DEF s
    <3>3. /\ Tail(s) \in Seq(S) /\ Len(Tail(s)) = Len(s) - 1
          /\ \A i \in 1 .. Len(s) - 1 : Tail(s)[i] = s[i + 1]
      BY <3>1, HeadTailProperties
    <3>. QED  BY <3>1, <3>2, <3>3 DEF s
  <2>2. ASSUME NEW i \in 1 .. 5 - (k + 1)
        PROVE  From(k)[i + 1] = From(k + 1)[i]
    <3>1. /\ i + 1 \in 1 .. 5 - k /\ i \in 1 .. 5 - (k + 1)
          /\ k + (i + 1) - 1 = (k + 1) + i - 1
      OBVIOUS
    <3>2. From(k)[i + 1] = KeygenHalf(c, id, Halves[k + (i + 1) - 1])
      BY <1>1, <1>2, <3>1
    <3>3. From(k + 1)[i] = KeygenHalf(c, id, Halves[(k + 1) + i - 1])
      BY <1>1, <1>2, <3>1
    <3>. QED  BY <3>1, <3>2, <3>3
  <2>3. /\ From(k + 1) \in Seq(S) /\ Len(From(k + 1)) = 5 - (k + 1)
    BY <1>1, <1>2
  <2>. QED  BY <2>1, <2>2, <2>3, SeqEqual
<1>. QED  BY <1>3, <1>4, <1>5 DEF From

(* A step of one process, which changes the halves of one prefix at most,  *)
(* and only if it is a keygen on it.                                       *)
LEMMA OrderStep ==
  ASSUME IInv, OrderInv, made' \in Nat, made <= made', overlaid \subseteq overlaid',
         NEW p \in Procs, NEW q, proc' = [proc EXCEPT ![p] = q],
         Writing(q, files', made', overlaid'), NEW own,
         \A prefix \in Prefixes \ {own} : \A i \in 1 .. 4 :
           In(files', prefix, i) = In(files, prefix, i),
         own \in Prefixes => /\ p \in Keygens(own) /\ KnownIds(files', made', own)
                             /\ own \notin overlaid' => InOrder(files', own),
         \A prefix \in Prefixes \ overlaid' : Alone(prefix)'
  PROVE  OrderInv'
<1>1. made \in Nat /\ DOMAIN proc = Procs
  BY DEF IInv, Kept
<1>2. ASSUME NEW prefix \in Prefixes, prefix # own, NEW i \in 1 .. 4
      PROVE  /\ In(files', prefix, i) = In(files, prefix, i)
             /\ Holds(files', prefix, i) <=> Holds(files, prefix, i)
  <2>1. In(files', prefix, i) = In(files, prefix, i)
    BY <1>2
  <2>. QED  BY <2>1 DEF Holds
<1>3. ASSUME NEW prefix \in Prefixes PROVE KnownIds(files', made', prefix)
  <2>1. CASE prefix # own
    <3>1. KnownIds(files, made, prefix)
      BY DEF OrderInv
    <3>2. \A n \in 0 .. made : n \in 0 .. made'
      BY <1>1
    <3>. QED  BY <3>1, <3>2, <2>1, <1>2 DEF KnownIds
  <2>. QED  BY <2>1
<1>4. ASSUME NEW prefix \in Prefixes \ overlaid'
      PROVE  InOrder(files', prefix) /\ Alone(prefix)'
  <2>1. CASE prefix # own
    <3>1. InOrder(files, prefix)
      BY DEF OrderInv
    <3>. QED  BY <3>1, <2>1, <1>2 DEF InOrder
  <2>. QED  BY <2>1
<1>5. ASSUME NEW o \in Procs PROVE Writing(proc'[o], files', made', overlaid')
  <2>1. CASE o = p
    <3>1. proc'[o] = q
      BY <2>1, <1>1
    <3>. QED  BY <3>1
  <2>2. CASE o # p
    <3>. DEFINE r == proc[o]
    <3>1. proc'[o] = r /\ Writing(r, files, made, overlaid)
      BY <2>2, <1>1 DEF OrderInv
    <3>2. ASSUME r.at \in {"open", "write", "chmod"}, r.cmd.name = "keygen"
          PROVE  r.cmd.at \in Prefixes /\ AtHalf(r, files', made', overlaid')
      <4>. DEFINE prefix == r.cmd.at
      <4>1. prefix \in Prefixes /\ AtHalf(r, files, made, overlaid)
        BY <3>1, <3>2 DEF Writing
      <4>. DEFINE reach(k) == IF r.at = "chmod" THEN k ELSE k - 1
      <4>2. PICK id \in 1 .. made, k \in 1 .. 4 :
              /\ r.writes = HalvesFrom(r.cmd, id, k)
              /\ prefix \notin overlaid => Newest(files, prefix, id, reach(k))
        BY <4>1 DEF AtHalf
      <4>3. id \in 1 .. made' /\ reach(k) \in 0 .. 4
        BY <1>1
      <4>4. ASSUME prefix \notin overlaid' PROVE Newest(files', prefix, id, reach(k))
        <5>1. r # Idle
          BY <3>2 DEF Idle
        <5>2. o \in Keygens(prefix)
          BY <5>1, <3>2 DEF Keygens
        <5>3. prefix \notin overlaid
          BY <4>4
        <5>4. prefix # own
          BY <5>2, <5>3, <2>2, <4>1 DEF OrderInv, Alone
        <5>5. \A i \in 1 .. reach(k) : i \in 1 .. 4
          BY <4>3
        <5>6. Newest(files, prefix, id, reach(k))
          BY <4>2, <5>3
        <5>. HIDE DEF prefix, reach
        <5>. QED  BY <5>4, <5>5, <5>6, <4>1, <1>2 DEF Newest
      <4>5. AtHalf(r, files', made', overlaid')
        BY <4>2, <4>3, <4>4 DEF AtHalf
      <4>. QED  BY <4>1, <4>5
    <3>. HIDE DEF r
    <3>. QED  BY <3>1, <3>2 DEF Writing
  <2>. QED  BY <2>1, <2>2
<1>. QED  BY <1>3, <1>4, <1>5 DEF OrderInv

(* Most steps make no identity and let no keygen overlap another.          *)
LEMMA QuietStep ==
  ASSUME IInv, OrderInv, made' = made, overlaid' = overlaid,
         NEW p \in Procs, NEW q, proc' = [proc EXCEPT ![p] = q],
         Writing(q, files', made, overlaid), NEW own,
         \A prefix \in Prefixes \ {own} : \A i \in 1 .. 4 :
           In(files', prefix, i) = In(files, prefix, i),
         own \in Prefixes => /\ p \in Keygens(own) /\ KnownIds(files', made, own)
                             /\ own \notin overlaid => InOrder(files', own),
         \A prefix \in Prefixes \ overlaid' : Alone(prefix)'
  PROVE  OrderInv'
<1>1. made' \in Nat /\ made <= made' /\ overlaid \subseteq overlaid'
  BY DEF IInv, Kept
<1>2. Writing(q, files', made', overlaid')
  OBVIOUS
<1>3. own \in Prefixes => /\ p \in Keygens(own) /\ KnownIds(files', made', own)
                          /\ own \notin overlaid' => InOrder(files', own)
  OBVIOUS
<1>. QED  BY <1>1, <1>2, <1>3, OrderStep

(* A process that ends or goes on with the command it has leaves every     *)
(* keygen that was alone on its prefix alone.                              *)
LEMMA AloneStays ==
  ASSUME IInv, OrderInv, NEW p \in Procs, NEW q, proc' = [proc EXCEPT ![p] = q],
         q = Idle \/ (proc[p] # Idle /\ q.cmd = proc[p].cmd),
         NEW prefix \in Prefixes \ overlaid
  PROVE  Alone(prefix)'
<1>1. DOMAIN proc = Procs
  BY DEF IInv, Kept
<1>2. ASSUME NEW o \in Keygens(prefix)' PROVE o \in Keygens(prefix)
  <2>1. o \in Procs /\ proc'[o] # Idle /\ proc'[o].cmd.name = "keygen" /\ proc'[o].cmd.at = prefix
    BY DEF Keygens
  <2>2. CASE o = p
    <3>1. proc'[o] = q
      BY <1>1, <2>2
    <3>. QED  BY <2>1, <2>2, <3>1 DEF Keygens
  <2>3. CASE o # p
    <3>1. proc'[o] = proc[o]
      BY <1>1, <2>3
    <3>. QED  BY <2>1, <3>1 DEF Keygens
  <2>. QED  BY <2>2, <2>3
<1>3. Alone(prefix)
  BY DEF OrderInv
<1>. QED  BY <1>2, <1>3 DEF Alone

(* No file changed its contents: no prefix was touched.                    *)
LEMMA Untouched ==
  ASSUME \A path \in Paths : files'[path].data = files[path].data
  PROVE  \A prefix \in Prefixes \ {None} : \A i \in 1 .. 4 :
           In(files', prefix, i) = In(files, prefix, i)
BY HalfNamesDiffer DEF In

(* A second keygen on a prefix marks it as overlaid.                       *)
LEMMA StartOrder ==
  ASSUME IInv, OrderInv, NEW p \in Procs, Start(p)
  PROVE  OrderInv'
<1>1. PICK c \in CommandLines :
        /\ proc' = [proc EXCEPT ![p] =
             [cmd |-> c, at |-> "read", reads |-> ReadsOf(c), got |-> <<>>, writes |-> <<>>]]
        /\ overlaid' = overlaid \union
             (IF c.name = "keygen" /\ Keygens(c.at) # {} THEN {c.at} ELSE {})
  BY DEF Start
<1>. DEFINE q == [cmd |-> c, at |-> "read", reads |-> ReadsOf(c), got |-> <<>>, writes |-> <<>>]
<1>2. /\ proc' = [proc EXCEPT ![p] = q] /\ files' = files /\ made' = made
      /\ q.at = "read" /\ q.cmd = c
  BY <1>1 DEF Start
<1>3. Writing(q, files', made', overlaid')
  <2>. HIDE DEF q
  <2>. QED  BY <1>2 DEF Writing
<1>4. DOMAIN proc = Procs /\ made \in Nat /\ overlaid \subseteq overlaid'
  BY <1>1 DEF IInv, Kept
<1>5. ASSUME NEW prefix \in Prefixes \ overlaid' PROVE Alone(prefix)'
  <2>. HIDE DEF q
  <2>1. Alone(prefix)
    BY <1>4 DEF OrderInv
  <2>2. ASSUME NEW o \in Keygens(prefix)'
        PROVE  \/ o = p /\ Keygens(prefix) = {}
               \/ o # p /\ o \in Keygens(prefix)
    <3>1. /\ o \in Procs /\ proc'[o] # Idle
          /\ proc'[o].cmd.name = "keygen" /\ proc'[o].cmd.at = prefix
      BY DEF Keygens
    <3>2. CASE o = p
      <4>1. c.name = "keygen" /\ c.at = prefix
        BY <1>2, <1>4, <3>1, <3>2
      <4>. QED  BY <3>2, <4>1, <1>1
    <3>3. CASE o # p
      <4>1. proc'[o] = proc[o]
        BY <1>2, <1>4, <3>3
      <4>. QED  BY <3>1, <3>3, <4>1 DEF Keygens
    <3>. QED  BY <3>2, <3>3
  <2>. QED  BY <2>1, <2>2 DEF Alone
<1>6. \A path \in Paths : files'[path].data = files[path].data
  BY <1>2
<1>7. made' \in Nat /\ made <= made'
  BY <1>2, <1>4
<1>. HIDE DEF q
<1>. QED  BY <1>2, <1>3, <1>4, <1>5, <1>6, <1>7, Untouched, OrderStep, CommandLineAssumption

(* Reading changes no file, and nothing is written yet.                    *)
LEMMA ReadOrder ==
  ASSUME IInv, OrderInv, NEW p \in Procs, Read(p)
  PROVE  OrderInv'
<1>. DEFINE o == proc[p]
            v == files[Head(o.reads)].data
            more == [o EXCEPT !.reads = Tail(o.reads), !.got = Append(o.got, v)]
            q == IF v = Absent THEN Idle ELSE more
<1>1. /\ files' = files /\ made' = made /\ overlaid' = overlaid /\ o.reads # <<>>
      /\ proc' = [proc EXCEPT ![p] = q]
  <2>1. proc' = [proc EXCEPT ![p] = q]
    BY Zenon DEF Read
  <2>. QED  BY <2>1 DEF Read
<1>2. /\ o = [cmd |-> o.cmd, at |-> o.at, reads |-> o.reads, got |-> o.got, writes |-> o.writes]
      /\ o.at = "read" /\ made \in Nat
  BY <1>1 DEF IInv, Kept, ProcOK
<1>3. more.at = "read" /\ more.cmd = o.cmd
  <2>. HIDE DEF o, v
  <2>. QED  BY <1>2
<1>4. Writing(q, files', made', overlaid') /\ (q = Idle \/ (o # Idle /\ q.cmd = o.cmd))
  <2>. HIDE DEF o, v, more
  <2>1. Idle.at = "idle"
    BY DEF Idle
  <2>. QED  BY <1>2, <1>3, <2>1 DEF Writing
<1>5. made' \in Nat /\ made <= made' /\ \A path \in Paths : files'[path].data = files[path].data
  BY <1>1, <1>2
<1>. HIDE DEF q, more, o
<1>6. \A prefix \in Prefixes \ overlaid' : Alone(prefix)'
  BY <1>1, <1>4, AloneStays DEF o
<1>. QED  BY <1>1, <1>4, <1>5, <1>6, Untouched, OrderStep, CommandLineAssumption

(* What the commands other than keygen write is no key file.               *)
LEMMA OtherWrites ==
  ASSUME NEW c \in CommandLines, c.name # "keygen", NEW got, NEW typed
  PROVE  \A i \in DOMAIN ResultOf(c, got, typed).writes :
           ResultOf(c, got, typed).writes[i].path.at = None
<1>. DEFINE Elsewhere(r) == \A i \in DOMAIN r.writes : r.writes[i].path.at = None
<1>0. Refuses.writes = <<>> /\ DOMAIN <<>> = {}
  BY EmptyRow DEF Refuses, Result
<1>1. Elsewhere(Refuses)
  BY <1>0
<1>2. ASSUME NEW name, NEW v, NEW e
      PROVE  Elsewhere(Result(<<WriteOf(File(name), v, FALSE)>>, e))
  <2>. DEFINE w == WriteOf(File(name), v, FALSE)
  <2>1. w.path.at = None /\ Result(<<w>>, e).writes = <<w>>
    BY DEF WriteOf, File, Result
  <2>. HIDE DEF w
  <2>2. DOMAIN <<w>> = {1} /\ <<w>>[1] = w
    OBVIOUS
  <2>. QED  BY <2>1, <2>2 DEF w
<1>3. ASSUME NEW e PROVE Elsewhere(Result(<<>>, e))
  BY <1>0 DEF Result
<1>4. c.name \in {"encrypt", "decrypt", "sign", "verify", "info", "demo"}
  BY DEF CommandLines
<1>5. Elsewhere(EncryptResult(c, got, typed))
  <2>1. \/ EncryptResult(c, got, typed) = Refuses
        \/ \E v, e : EncryptResult(c, got, typed)
                       = Result(<<WriteOf(File("env"), v, FALSE)>>, e)
    BY DEF EncryptResult
  <2>. HIDE DEF Elsewhere
  <2>. QED  BY <2>1, <1>1, <1>2
<1>6. Elsewhere(DecryptResult(c, got, typed))
  <2>1. \/ DecryptResult(c, got, typed) = Refuses
        \/ \E v, e : DecryptResult(c, got, typed)
                       = Result(<<WriteOf(File("out"), v, FALSE)>>, e)
    BY DEF DecryptResult
  <2>. HIDE DEF Elsewhere
  <2>. QED  BY <2>1, <1>1, <1>2
<1>7. Elsewhere(SignResult(c, got, typed))
  <2>1. \/ SignResult(c, got, typed) = Refuses
        \/ \E v, e : SignResult(c, got, typed)
                       = Result(<<WriteOf(File("sig"), v, FALSE)>>, e)
    BY DEF SignResult
  <2>. HIDE DEF Elsewhere
  <2>. QED  BY <2>1, <1>1, <1>2
<1>8. Elsewhere(VerifyResult(c, got))
  <2>1. \/ VerifyResult(c, got) = Refuses
        \/ \E e : VerifyResult(c, got) = Result(<<>>, e)
    BY DEF VerifyResult
  <2>. HIDE DEF Elsewhere
  <2>. QED  BY <2>1, <1>1, <1>3
<1>9. Elsewhere(DemoResult(c))
  <2>1. \E e : DemoResult(c) = Result(<<>>, e)
    BY DEF DemoResult
  <2>. HIDE DEF Elsewhere
  <2>. QED  BY <2>1, <1>3
<1>10. ResultOf(c, got, typed) \in
         {EncryptResult(c, got, typed), DecryptResult(c, got, typed),
          SignResult(c, got, typed), VerifyResult(c, got), Refuses, DemoResult(c)}
  BY <1>4 DEF ResultOf
<1>11. Elsewhere(ResultOf(c, got, typed))
  <2>. HIDE DEF Elsewhere
  <2>. QED  BY <1>1, <1>5, <1>6, <1>7, <1>8, <1>9, <1>10
<1>. QED  BY <1>11

(* keygen's identity is newer than all that is there.                      *)
LEMMA ComputeOrder ==
  ASSUME IInv, OrderInv, NEW p \in Procs, Compute(p)
  PROVE  OrderInv'
<1>. DEFINE o == proc[p]
            c == o.cmd
            keygen == c.name = "keygen"
<1>0. PICK typed \in Passes :
        LET r == ResultOf(c, o.got, typed)
        IN  /\ proc' = [proc EXCEPT ![p] =
                 IF r.writes = <<>> THEN Idle
                 ELSE [o EXCEPT !.at = "open", !.got = <<>>, !.writes = r.writes]]
            /\ made' = IF keygen THEN made + 1 ELSE made
  BY Zenon DEF Compute
<1>. DEFINE r == ResultOf(c, o.got, typed)
            busy == [o EXCEPT !.at = "open", !.got = <<>>, !.writes = r.writes]
            q == IF r.writes = <<>> THEN Idle ELSE busy
<1>1. /\ files' = files /\ overlaid' = overlaid /\ o.at = "read"
      /\ proc' = [proc EXCEPT ![p] = q]
      /\ made' = IF keygen THEN made + 1 ELSE made
  BY <1>0 DEF Compute
<1>2. /\ o = [cmd |-> o.cmd, at |-> o.at, reads |-> o.reads, got |-> o.got, writes |-> o.writes]
      /\ c \in CommandLines /\ made \in Nat
  BY <1>1 DEF IInv, Kept, ProcOK, Reading
<1>3. busy.at = "open" /\ busy.cmd = c /\ busy.writes = r.writes
  <2>. DEFINE w == r.writes
  <2>. HIDE DEF o, r, w
  <2>. QED  BY <1>2 DEF w
<1>4. ASSUME keygen PROVE Writing(busy, files', made', overlaid')
  <2>. DEFINE id == made + 1
  <2>1. c.at \in Prefixes
    BY <1>2, <1>4, CommandLineAssumption DEF CommandLines, IInv, SessionOK
  <2>2. r.writes = HalvesFrom(c, id, 1)
    <3>1. r.writes = [i \in 1 .. 4 |-> KeygenHalf(c, id, Halves[i])]
      BY <1>4 DEF ResultOf, KeygenResult, Result
    <3>2. /\ \A i \in 1 .. 4 : 1 + i - 1 = i
          /\ 5 - 1 = 4
      OBVIOUS
    <3>. HIDE DEF o, r
    <3>. QED  BY <3>1, <3>2 DEF HalvesFrom
  <2>3. Newest(files', c.at, id, 1 - 1)
    <3>1. KnownIds(files', made, c.at)
      BY <2>1, <1>1 DEF OrderInv
    <3>. HIDE DEF o
    <3>. QED  BY <3>1, <1>2 DEF KnownIds, Newest
  <2>4. id \in 1 .. made' /\ 1 \in 1 .. 4
    BY <1>1, <1>2, <1>4
  <2>. HIDE DEF busy, o, r, id
  <2>5. AtHalf(busy, files', made', overlaid')
    BY <1>3, <2>2, <2>3, <2>4 DEF AtHalf
  <2>. QED  BY <1>3, <1>4, <2>1, <2>5 DEF Writing
<1>5. ASSUME ~keygen PROVE Writing(busy, files', made', overlaid')
  <2>1. \A i \in DOMAIN r.writes : r.writes[i].path.at = None
    BY <1>2, <1>5, OtherWrites
  <2>. HIDE DEF busy, o, r
  <2>. QED  BY <1>3, <1>5, <2>1 DEF Writing
<1>6. Writing(q, files', made', overlaid') /\ (q = Idle \/ (o # Idle /\ q.cmd = c))
  <2>1. Idle.at = "idle" /\ Writing(Idle, files', made', overlaid')
    BY DEF Idle, Writing
  <2>. HIDE DEF busy, o, r
  <2>. QED  BY <1>1, <1>3, <1>4, <1>5, <2>1
<1>7. made' \in Nat /\ made <= made'
  BY <1>1, <1>2
<1>8. \A path \in Paths : files'[path].data = files[path].data
  BY <1>1
<1>. HIDE DEF q, busy, r, o
<1>9. \A prefix \in Prefixes \ overlaid' : Alone(prefix)'
  BY <1>1, <1>6, AloneStays DEF o
<1>. QED  BY <1>1, <1>6, <1>7, <1>8, <1>9, Untouched, OrderStep, CommandLineAssumption

(* Where a process that writes goes next: on with its file, or to its next *)
(* one, or it ends.                                                        *)
LEMMA NextCall ==
  ASSUME IInv, NEW p \in Procs, proc[p].at \in {"open", "write", "chmod"}
  PROVE  /\ \A at \in {"write", "chmod"} : \E q :
              /\ [proc EXCEPT ![p].at = at] = [proc EXCEPT ![p] = q]
              /\ q.cmd = proc[p].cmd /\ q.at = at /\ q.writes = proc[p].writes
         /\ \E q : /\ Written(p) = [proc EXCEPT ![p] = q]
                   /\ \/ q = Idle
                      \/ /\ q.cmd = proc[p].cmd /\ q.at = "open"
                         /\ q.writes = Tail(proc[p].writes) /\ q.writes # <<>>
<1>. DEFINE o == proc[p]
            t == Tail(o.writes)
<1>1. o = [cmd |-> o.cmd, at |-> o.at, reads |-> o.reads, got |-> o.got, writes |-> o.writes]
  BY DEF IInv, Kept, ProcOK
<1>2. ASSUME NEW at \in {"write", "chmod"}
      PROVE  \E q : /\ [proc EXCEPT ![p].at = at] = [proc EXCEPT ![p] = q]
                    /\ q.cmd = o.cmd /\ q.at = at /\ q.writes = o.writes
  <2>. DEFINE q == [o EXCEPT !.at = at]
  <2>1. [proc EXCEPT ![p].at = at] = [proc EXCEPT ![p] = q]
    OBVIOUS
  <2>2. q.cmd = o.cmd /\ q.at = at /\ q.writes = o.writes
    <3>. HIDE DEF o
    <3>. QED  BY <1>1
  <2>. HIDE DEF q
  <2>. QED  BY <2>1, <2>2
<1>3. \E q : /\ Written(p) = [proc EXCEPT ![p] = q]
             /\ \/ q = Idle
                \/ q.cmd = o.cmd /\ q.at = "open" /\ q.writes = t /\ q.writes # <<>>
  <2>. DEFINE r == [o EXCEPT !.at = "open", !.writes = t]
              q == IF t = <<>> THEN Idle ELSE r
  <2>1. Written(p) = [proc EXCEPT ![p] = q]
    BY Zenon DEF Written
  <2>2. r.cmd = o.cmd /\ r.at = "open" /\ r.writes = t
    <3>. HIDE DEF o, t
    <3>. QED  BY <1>1
  <2>. HIDE DEF r, t
  <2>. QED  BY <2>1, <2>2
<1>. QED  BY <1>2, <1>3

(* A keygen whose k-th file is written may close it and go on to the next. *)
LEMMA NextHalf ==
  ASSUME NEW q, NEW F, NEW n \in Nat, NEW V, q.cmd.at \in Prefixes,
         NEW id \in 1 .. n, NEW k \in 1 .. 4,
         q.cmd.at \notin V => Newest(F, q.cmd.at, id, k),
         \/ q.writes = HalvesFrom(q.cmd, id, k) /\ q.at \in {"write", "chmod"}
         \/ q.writes = Tail(HalvesFrom(q.cmd, id, k)) /\ q.at = "open" /\ q.writes # <<>>
  PROVE  AtHalf(q, F, n, V)
<1>1. CASE q.writes = HalvesFrom(q.cmd, id, k) /\ q.at \in {"write", "chmod"}
  <2>1. q.cmd.at \notin V => Newest(F, q.cmd.at, id, k - 1)
    BY DEF Newest
  <2>. QED  BY <1>1, <2>1 DEF AtHalf
<1>2. CASE q.writes = Tail(HalvesFrom(q.cmd, id, k)) /\ q.at = "open" /\ q.writes # <<>>
  <2>0. q.writes = HalvesFrom(q.cmd, id, k + 1) /\ (k = 4 <=> HalvesFrom(q.cmd, id, k + 1) = <<>>)
    BY <1>2, RestOfHalves
  <2>1. q.writes = HalvesFrom(q.cmd, id, k + 1) /\ k + 1 \in 1 .. 4 /\ (k + 1) - 1 = k
    BY <1>2, <2>0
  <2>. QED  BY <1>2, <2>1 DEF AtHalf
<1>. QED  BY <1>1, <1>2

(* So too, whatever command it is, once the k-th of its files is written.  *)
OneMore(o, F, own) ==
  IF o.cmd.name = "keygen"
  THEN /\ own = o.cmd.at /\ own \in Prefixes
       /\ \E id \in 1 .. made, k \in 1 .. 4 :
            /\ o.writes = HalvesFrom(o.cmd, id, k)
            /\ own \notin overlaid => Newest(F, own, id, k)
  ELSE own = None /\ \A i \in DOMAIN o.writes : o.writes[i].path.at = None

(* Such a process may go on, whatever its command is.                      *)
LEMMA GoesOn ==
  ASSUME IInv, NEW p \in Procs, NEW F, NEW own, OneMore(proc[p], F, own),
         proc[p].at \in {"open", "write", "chmod"}, NEW q, q.cmd = proc[p].cmd,
         \/ q.writes = proc[p].writes /\ q.at \in {"write", "chmod"}
         \/ q.writes = Tail(proc[p].writes) /\ q.at = "open" /\ q.writes # <<>>
  PROVE  Writing(q, F, made, overlaid)
<1>. DEFINE o == proc[p]
<1>0. made \in Nat /\ IsRow(o.writes) /\ o.writes # <<>>
  BY DEF IInv, Kept, ProcOK, WritesOK
<1>. HIDE DEF o
<1>1. CASE o.cmd.name = "keygen"
  <2>1. PICK id \in 1 .. made, k \in 1 .. 4 :
          /\ o.writes = HalvesFrom(o.cmd, id, k)
          /\ o.cmd.at \notin overlaid => Newest(F, o.cmd.at, id, k)
    BY <1>1 DEF OneMore, o
  <2>2. o.cmd.at \in Prefixes
    BY <1>1 DEF OneMore, o
  <2>3. AtHalf(q, F, made, overlaid)
    BY <1>0, <2>1, <2>2, NextHalf DEF o
  <2>. QED  BY <1>1, <2>2, <2>3 DEF Writing, o
<1>2. CASE o.cmd.name # "keygen"
  <2>1. \A i \in DOMAIN o.writes : o.writes[i].path.at = None
    BY <1>2 DEF OneMore, o
  <2>2. \A i \in DOMAIN Tail(o.writes) : Tail(o.writes)[i].path.at = None
    BY <1>0, <2>1, RowTail
  <2>3. \A i \in DOMAIN q.writes : q.writes[i].path.at = None
    BY <2>1, <2>2 DEF o
  <2>. QED  BY <1>2, <2>3 DEF Writing, o
<1>. QED  BY <1>1, <1>2

(* The file that a process has open: a keygen's is the next of its halves. *)
LEMMA OpenedHalf ==
  ASSUME IInv, OrderInv, NEW p \in Procs, proc[p].at \in {"open", "write", "chmod"}
  PROVE  IF proc[p].cmd.name = "keygen"
         THEN /\ proc[p].cmd.at \in Prefixes /\ p \in Keygens(proc[p].cmd.at)
              /\ \E id \in 1 .. made, k \in 1 .. 4 :
                   /\ proc[p].writes = HalvesFrom(proc[p].cmd, id, k)
                   /\ ThisWrite(p).path = Key(proc[p].cmd.at, Halves[k])
                   /\ ThisWrite(p).data.kind = Halves[k] /\ ThisWrite(p).data.of = id
                   /\ proc[p].cmd.at \notin overlaid =>
                        Newest(files, proc[p].cmd.at, id, IF proc[p].at = "chmod" THEN k ELSE k - 1)
         ELSE /\ ThisWrite(p).path.at = None
              /\ \A i \in DOMAIN proc[p].writes : proc[p].writes[i].path.at = None
<1>. DEFINE o == proc[p]
<1>0. Writing(o, files, made, overlaid) /\ IsRow(o.writes) /\ o.writes # <<>> /\ o # Idle
  BY DEF OrderInv, IInv, Kept, ProcOK, WritesOK, Idle
<1>1. ThisWrite(p) = Head(o.writes) /\ o.at \in {"open", "write", "chmod"}
  BY DEF ThisWrite
<1>2. CASE o.cmd.name = "keygen"
  <2>1. o.cmd.at \in Prefixes /\ AtHalf(o, files, made, overlaid)
    BY <1>0, <1>1, <1>2 DEF Writing
  <2>2. p \in Keygens(o.cmd.at)
    BY <1>0, <1>2 DEF Keygens
  <2>3. PICK id \in 1 .. made, k \in 1 .. 4 :
          /\ o.writes = HalvesFrom(o.cmd, id, k)
          /\ o.cmd.at \notin overlaid =>
               Newest(files, o.cmd.at, id, IF o.at = "chmod" THEN k ELSE k - 1)
    BY <2>1 DEF AtHalf
  <2>. DEFINE w == KeygenHalf(o.cmd, id, Halves[k])
  <2>4. ThisWrite(p) = w
    BY <1>1, <2>3, RestOfHalves
  <2>5. w.path = Key(o.cmd.at, Halves[k]) /\ w.data.kind = Halves[k] /\ w.data.of = id
    BY DEF KeygenHalf, WriteOf, Bundle
  <2>. HIDE DEF o, w
  <2>. QED  BY <1>2, <2>1, <2>2, <2>3, <2>4, <2>5 DEF o
<1>3. CASE o.cmd.name # "keygen"
  <2>1. \A i \in DOMAIN o.writes : o.writes[i].path.at = None
    BY <1>0, <1>1, <1>3 DEF Writing
  <2>. HIDE DEF o
  <2>2. Head(o.writes).path.at = None
    BY <1>0, <2>1, RowTail
  <2>. QED  BY <1>1, <1>3, <2>1, <2>2 DEF o
<1>. QED  BY <1>2, <1>3

(* Opening or writing it, whole or torn, leaves a lone keygen's prefix in  *)
(* order, with that half of the newest identity or of none.                *)
LEMMA HalfChanged ==
  ASSUME IInv, OrderInv, NEW p \in Procs, proc[p].at \in {"open", "write"}, NEW v, NEW F,
         v = ThisWrite(p).data \/ v.kind \notin {"kem.pub", "kem.key", "sig.pub", "sig.key"},
         \A path \in Paths :
           F[path].data = IF path = ThisWrite(p).path THEN v ELSE files[path].data
  PROVE  \E own :
           /\ OneMore(proc[p], F, own)
           /\ \A prefix \in Prefixes \ {own} : \A i \in 1 .. 4 :
                In(F, prefix, i) = In(files, prefix, i)
           /\ own \in Prefixes => /\ p \in Keygens(own) /\ KnownIds(F, made, own)
                                  /\ own \notin overlaid => InOrder(F, own)
<1>. DEFINE o == proc[p]
            x == ThisWrite(p).path
<1>0. made \in Nat /\ \A prefix \in Prefixes : KnownIds(files, made, prefix)
  BY DEF IInv, Kept, OrderInv
<1>1. CASE o.cmd.name = "keygen"
  <2>. DEFINE own == o.cmd.at
  <2>0. own \in Prefixes /\ p \in Keygens(own)
    BY <1>1, OpenedHalf
  <2>1. PICK id \in 1 .. made, k \in 1 .. 4 :
          /\ o.writes = HalvesFrom(o.cmd, id, k) /\ x = Key(own, Halves[k])
          /\ ThisWrite(p).data.kind = Halves[k] /\ ThisWrite(p).data.of = id
          /\ own \notin overlaid => Newest(files, own, id, k - 1)
    BY <1>1, OpenedHalf
  <2>. HIDE DEF o, own, x
  <2>2. ASSUME NEW prefix \in Prefixes, NEW i \in 1 .. 4, prefix # own \/ i # k
        PROVE  In(F, prefix, i) = In(files, prefix, i)
    <3>1. Key(prefix, Halves[i]) \in Paths /\ Key(prefix, Halves[i]) # x
      BY <2>1, <2>2, HalfNamesDiffer
    <3>. QED  BY <3>1 DEF In, x
  <2>3. In(F, own, k) = v
    <3>1. Key(own, Halves[k]) \in Paths
      BY <2>0, HalfNamesDiffer
    <3>. QED  BY <3>1, <2>1 DEF In, x
  <2>4. Holds(F, own, k) => In(F, own, k).of = id
    <3>1. Halves[k] \in {"kem.pub", "kem.key", "sig.pub", "sig.key"}
      BY HalfNamesDiffer
    <3>. QED  BY <2>1, <2>3, <3>1 DEF Holds
  <2>5. ASSUME NEW i \in 1 .. 4, i # k
        PROVE  In(F, own, i) = In(files, own, i) /\ (Holds(F, own, i) <=> Holds(files, own, i))
    BY <2>0, <2>2, <2>5 DEF Holds
  <2>6. KnownIds(F, made, own)
    BY <1>0, <2>0, <2>4, <2>5 DEF KnownIds
  <2>7. ASSUME own \notin overlaid PROVE InOrder(F, own) /\ Newest(F, own, id, k)
    <3>1. InOrder(files, own) /\ Newest(files, own, id, k - 1)
      BY <2>0, <2>1, <2>7 DEF OrderInv
    <3>2. \A i \in 1 .. 4 : Holds(F, own, i) =>
            /\ In(F, own, i).of \in Nat /\ In(F, own, i).of <= id
            /\ i <= k => In(F, own, i).of = id
      <4>. SUFFICES ASSUME NEW i \in 1 .. 4, Holds(F, own, i)
                    PROVE  /\ In(F, own, i).of \in Nat /\ In(F, own, i).of <= id
                           /\ i <= k => In(F, own, i).of = id
        OBVIOUS
      <4>1. In(F, own, i).of \in 0 .. made
        BY <2>6 DEF KnownIds
      <4>2. CASE i = k
        BY <4>1, <4>2, <2>4
      <4>3. CASE i # k
        <5>1. In(F, own, i).of <= id /\ (i \in 1 .. k - 1 => In(F, own, i).of >= id)
          BY <4>3, <2>5, <3>1 DEF Newest
        <5>2. i <= k => i \in 1 .. k - 1
          BY <4>3
        <5>. QED  BY <4>1, <5>1, <5>2
      <4>. QED  BY <4>2, <4>3
    <3>3. Newest(F, own, id, k)
      BY <3>2 DEF Newest
    <3>4. ASSUME NEW i \in 1 .. 4, NEW j \in 1 .. 4, i < j, Holds(F, own, i), Holds(F, own, j)
          PROVE  In(F, own, i).of >= In(F, own, j).of
      <4>1. CASE i <= k
        BY <4>1, <3>2, <3>4
      <4>2. CASE ~(i <= k)
        <5>1. i # k /\ j # k
          BY <4>2, <3>4
        <5>. QED  BY <5>1, <2>5, <3>1, <3>4 DEF InOrder
      <4>. QED  BY <4>1, <4>2
    <3>. QED  BY <3>3, <3>4 DEF InOrder
  <2>8. OneMore(o, F, own)
    BY <1>1, <2>0, <2>1, <2>7 DEF OneMore, own
  <2>. QED  BY <2>0, <2>2, <2>6, <2>7, <2>8 DEF o
<1>2. CASE o.cmd.name # "keygen"
  <2>1. x.at = None /\ \A i \in DOMAIN o.writes : o.writes[i].path.at = None
    BY <1>2, OpenedHalf
  <2>2. ASSUME NEW prefix \in Prefixes, NEW i \in 1 .. 4
        PROVE  In(F, prefix, i) = In(files, prefix, i)
    <3>1. Key(prefix, Halves[i]) \in Paths /\ Key(prefix, Halves[i]) # x
      BY <2>1, HalfNamesDiffer, CommandLineAssumption
    <3>. QED  BY <3>1 DEF In
  <2>3. OneMore(o, F, None) /\ None \notin Prefixes
    BY <1>2, <2>1, CommandLineAssumption DEF OneMore
  <2>. HIDE DEF o, x
  <2>. QED  BY <2>2, <2>3 DEF o
<1>. QED  BY <1>1, <1>2

(* An opened file is empty.                                                *)
LEMMA OpenOrder ==
  ASSUME IInv, OrderInv, NEW p \in Procs, OpenFile(p)
  PROVE  OrderInv'
<1>. DEFINE x == ThisWrite(p).path
<1>1. /\ proc[p].at = "open" /\ proc' = [proc EXCEPT ![p].at = "write"]
      /\ made' = made /\ overlaid' = overlaid /\ made \in Nat
      /\ \A path \in Paths : files'[path].data = IF path = x THEN Blank ELSE files[path].data
  <2>1. /\ proc[p].at = "open" /\ proc' = [proc EXCEPT ![p].at = "write"]
        /\ made' = made /\ overlaid' = overlaid /\ made \in Nat
    BY DEF OpenFile, IInv, Kept
  <2>2. DOMAIN files = Paths
    BY DEF IInv, Kept
  <2>3. PICK mode : files' = [files EXCEPT ![x] = [data |-> Blank, mode |-> mode]]
    BY DEF OpenFile
  <2>. HIDE DEF x
  <2>4. \A path \in Paths : files'[path].data = IF path = x THEN Blank ELSE files[path].data
    BY <2>2, <2>3
  <2>. QED  BY <2>1, <2>4
<1>2. Blank.kind \notin {"kem.pub", "kem.key", "sig.pub", "sig.key"}
  BY DEF Blank
<1>3. PICK own :
        /\ OneMore(proc[p], files', own)
        /\ \A prefix \in Prefixes \ {own} : \A i \in 1 .. 4 :
             In(files', prefix, i) = In(files, prefix, i)
        /\ own \in Prefixes => /\ p \in Keygens(own) /\ KnownIds(files', made, own)
                               /\ own \notin overlaid => InOrder(files', own)
  BY <1>1, <1>2, HalfChanged
<1>4. PICK q : /\ [proc EXCEPT ![p].at = "write"] = [proc EXCEPT ![p] = q]
               /\ q.cmd = proc[p].cmd /\ q.at = "write" /\ q.writes = proc[p].writes
  BY <1>1, NextCall
<1>5. Writing(q, files', made, overlaid)
  BY <1>1, <1>3, <1>4, GoesOn
<1>6. \A prefix \in Prefixes \ overlaid' : Alone(prefix)'
  <2>1. proc[p] # Idle
    BY <1>1 DEF Idle
  <2>. QED  BY <2>1, <1>1, <1>4, AloneStays
<1>. QED  BY <1>1, <1>3, <1>4, <1>5, <1>6, QuietStep

(* The data of a file, once written into it.                               *)
LEMMA DataWritten ==
  ASSUME IInv, NEW x, NEW v, files' = [files EXCEPT ![x].data = v]
  PROVE  \A path \in Paths : files'[path].data = IF path = x THEN v ELSE files[path].data
<1>1. DOMAIN files = Paths
  BY DEF IInv, Kept
<1>2. ASSUME NEW path \in Paths, path = x PROVE files'[path].data = v
  <2>. DEFINE f == files[path]
  <2>1. f = [data |-> f.data, mode |-> f.mode]
    BY DEF IInv, Kept, FileOK
  <2>2. files'[path] = [f EXCEPT !.data = v]
    BY <1>1, <1>2
  <2>. HIDE DEF f
  <2>3. [f EXCEPT !.data = v].data = v
    BY <2>1
  <2>. QED  BY <2>2, <2>3
<1>. QED  BY <1>1, <1>2

(* Writing its data, whole or behind what another process has left.        *)
LEMMA WriteOrder ==
  ASSUME IInv, OrderInv, NEW p \in Procs, WriteFile(p)
  PROVE  OrderInv'
<1>. DEFINE w == ThisWrite(p)
<1>1. /\ proc[p].at = "write" /\ made' = made /\ overlaid' = overlaid /\ made \in Nat
      /\ proc' = IF w.private THEN [proc EXCEPT ![p].at = "chmod"] ELSE Written(p)
  BY DEF WriteFile, IInv, Kept
<1>2. PICK v \in {w.data, Torn(w.data)} : files' = [files EXCEPT ![w.path].data = v]
  BY DEF WriteFile
<1>3. v = w.data \/ v.kind \notin {"kem.pub", "kem.key", "sig.pub", "sig.key"}
  BY <1>2 DEF Torn
<1>4. \A path \in Paths : files'[path].data = IF path = w.path THEN v ELSE files[path].data
  <2>. DEFINE x == w.path
  <2>1. files' = [files EXCEPT ![x].data = v]
    BY <1>2
  <2>. HIDE DEF x
  <2>2. \A path \in Paths : files'[path].data = IF path = x THEN v ELSE files[path].data
    BY <2>1, DataWritten
  <2>. QED  BY <2>2 DEF x
<1>5. PICK own :
        /\ OneMore(proc[p], files', own)
        /\ \A prefix \in Prefixes \ {own} : \A i \in 1 .. 4 :
             In(files', prefix, i) = In(files, prefix, i)
        /\ own \in Prefixes => /\ p \in Keygens(own) /\ KnownIds(files', made, own)
                               /\ own \notin overlaid => InOrder(files', own)
  BY <1>1, <1>3, <1>4, HalfChanged
<1>6. PICK q : /\ proc' = [proc EXCEPT ![p] = q]
               /\ \/ q = Idle
                  \/ /\ q.cmd = proc[p].cmd
                     /\ \/ q.writes = proc[p].writes /\ q.at \in {"write", "chmod"}
                        \/ q.writes = Tail(proc[p].writes) /\ q.at = "open" /\ q.writes # <<>>
  BY <1>1, NextCall, Zenon
<1>7. Writing(q, files', made, overlaid)
  <2>1. CASE q = Idle
    BY <2>1 DEF Writing, Idle
  <2>2. CASE q # Idle
    BY <2>2, <1>1, <1>5, <1>6, GoesOn
  <2>. QED  BY <2>1, <2>2
<1>8. \A prefix \in Prefixes \ overlaid' : Alone(prefix)'
  <2>1. proc[p] # Idle
    BY <1>1 DEF Idle
  <2>. QED  BY <2>1, <1>1, <1>6, AloneStays
<1>. QED  BY <1>1, <1>5, <1>6, <1>7, <1>8, QuietStep

(* chmod changes no data.                                                  *)
LEMMA ChmodOrder ==
  ASSUME IInv, OrderInv, NEW p \in Procs, Chmod(p)
  PROVE  OrderInv'
<1>. DEFINE x == ThisWrite(p).path
            o == proc[p]
<1>1. /\ o.at = "chmod" /\ made' = made /\ overlaid' = overlaid /\ made \in Nat
      /\ proc' = Written(p)
  BY DEF Chmod, IInv, Kept
<1>2. \A path \in Paths : files'[path].data = files[path].data
  <2>1. PICK mode : files' = [files EXCEPT ![x].mode = mode]
    BY DEF Chmod
  <2>2. DOMAIN files = Paths
    BY DEF IInv, Kept
  <2>3. ASSUME NEW path \in Paths PROVE files'[path].data = files[path].data
    <3>. DEFINE f == files[path]
    <3>1. f = [data |-> f.data, mode |-> f.mode]
      BY DEF IInv, Kept, FileOK
    <3>2. files'[path] = f \/ files'[path] = [f EXCEPT !.mode = mode]
      BY <2>1, <2>2
    <3>. HIDE DEF f
    <3>3. [f EXCEPT !.mode = mode].data = f.data
      BY <3>1
    <3>. QED  BY <3>2, <3>3 DEF f
  <2>. QED  BY <2>3
<1>3. \A prefix \in Prefixes : \A i \in 1 .. 4 : In(files', prefix, i) = In(files, prefix, i)
  BY <1>2, HalfNamesDiffer DEF In
<1>4. \E own : OneMore(o, files', own)
  <2>1. CASE o.cmd.name = "keygen"
    <3>1. o.cmd.at \in Prefixes /\ \E id \in 1 .. made, k \in 1 .. 4 :
            /\ o.writes = HalvesFrom(o.cmd, id, k)
            /\ o.cmd.at \notin overlaid => Newest(files, o.cmd.at, id, k)
      BY <1>1, <2>1, OpenedHalf
    <3>2. ASSUME NEW id, NEW k \in 1 .. 4, Newest(files, o.cmd.at, id, k)
          PROVE  Newest(files', o.cmd.at, id, k)
      <4>1. \A i \in 1 .. k : i \in 1 .. 4
        OBVIOUS
      <4>. HIDE DEF o
      <4>. QED  BY <1>3, <3>1, <3>2, <4>1 DEF Newest, Holds
    <3>. HIDE DEF o
    <3>. QED  BY <2>1, <3>1, <3>2 DEF OneMore
  <2>2. CASE o.cmd.name # "keygen"
    BY <1>1, <2>2, OpenedHalf DEF OneMore
  <2>. QED  BY <2>1, <2>2
<1>5. PICK q : /\ proc' = [proc EXCEPT ![p] = q]
               /\ \/ q = Idle
                  \/ /\ q.cmd = o.cmd /\ q.at = "open"
                     /\ q.writes = Tail(o.writes) /\ q.writes # <<>>
  BY <1>1, NextCall
<1>6. Writing(q, files', made, overlaid)
  <2>1. CASE q = Idle
    BY <2>1 DEF Writing, Idle
  <2>2. CASE q # Idle
    BY <2>2, <1>1, <1>4, <1>5, GoesOn
  <2>. QED  BY <2>1, <2>2
<1>7. \A prefix \in Prefixes \ overlaid' : Alone(prefix)'
  <2>1. o # Idle
    BY <1>1 DEF Idle
  <2>. QED  BY <2>1, <1>1, <1>5, AloneStays
<1>8. \A prefix \in Prefixes \ {None} : \A i \in 1 .. 4 :
        In(files', prefix, i) = In(files, prefix, i)
  BY <1>3
<1>. HIDE DEF o, x
<1>. QED  BY <1>1, <1>5, <1>6, <1>7, <1>8, QuietStep, CommandLineAssumption

(* A process that dies over a file leaves it as it was, or torn.           *)
LEMMA DieOrder ==
  ASSUME IInv, OrderInv, NEW p \in Procs, Die(p)
  PROVE  OrderInv'
<1>. DEFINE w == ThisWrite(p)
<1>1. /\ proc[p] # Idle /\ proc' = [proc EXCEPT ![p] = Idle]
      /\ made' = made /\ overlaid' = overlaid /\ made \in Nat
  BY DEF Die, IInv, Kept
<1>2. Writing(Idle, files', made', overlaid')
  BY DEF Writing, Idle
<1>3. \A prefix \in Prefixes \ overlaid' : Alone(prefix)'
  BY <1>1, AloneStays
<1>4. CASE files' = files
  <2>1. \A path \in Paths : files'[path].data = files[path].data
    BY <1>4
  <2>. QED  BY <1>1, <1>2, <1>3, <2>1, Untouched, QuietStep, CommandLineAssumption
<1>5. CASE /\ proc[p].at = "write"
           /\ files' = [files EXCEPT ![w.path].data = Torn(w.data)]
  <2>1. Torn(w.data).kind \notin {"kem.pub", "kem.key", "sig.pub", "sig.key"}
    BY DEF Torn
  <2>2. \A path \in Paths :
          files'[path].data = IF path = w.path THEN Torn(w.data) ELSE files[path].data
    <3>. DEFINE x == w.path
                v == Torn(w.data)
    <3>1. files' = [files EXCEPT ![x].data = v]
      BY <1>5
    <3>. HIDE DEF x, v
    <3>2. \A path \in Paths : files'[path].data = IF path = x THEN v ELSE files[path].data
      BY <3>1, DataWritten, Zenon
    <3>. QED  BY <3>2 DEF x, v
  <2>3. PICK own :
          /\ \A prefix \in Prefixes \ {own} : \A i \in 1 .. 4 :
               In(files', prefix, i) = In(files, prefix, i)
          /\ own \in Prefixes => /\ p \in Keygens(own) /\ KnownIds(files', made, own)
                                 /\ own \notin overlaid => InOrder(files', own)
    BY <1>5, <2>1, <2>2, HalfChanged
  <2>. QED  BY <1>1, <1>2, <1>3, <2>3, QuietStep
<1>. QED  BY <1>4, <1>5 DEF Die

(* The order holds initially: what is there is of identity 0.              *)
LEMMA InitOrder ==
  ASSUME Init PROVE OrderInv
<1>1. made = 0 /\ \A p \in Procs : proc[p] = Idle
  BY DEF Init
<1>2. ASSUME NEW prefix \in Prefixes, NEW i \in 1 .. 4, Holds(files, prefix, i)
      PROVE  In(files, prefix, i).of = 0
  <2>. DEFINE path == Key(prefix, Halves[i])
              d == InitialData(path)
  <2>1. path \in Paths /\ Halves[i] \in {"kem.pub", "kem.key", "sig.pub", "sig.key"}
    BY HalfNamesDiffer
  <2>2. In(files, prefix, i) = d
    BY <2>1 DEF In, Init
  <2>3. path.name = Halves[i]
    BY DEF Key
  <2>. HIDE DEF path
  <2>4. d.kind \in {"text", "empty", "absent"} \/ d = Bundle(path.name, 0, NoPass)
    BY DEF InitialData, Text, Blank, Absent
  <2>5. Bundle(path.name, 0, NoPass).of = 0
    BY DEF Bundle
  <2>. HIDE DEF d
  <2>6. d.kind = Halves[i]
    BY <1>2, <2>2 DEF Holds
  <2>. QED  BY <2>1, <2>2, <2>4, <2>5, <2>6
<1>3. ASSUME NEW prefix \in Prefixes
      PROVE  KnownIds(files, made, prefix) /\ InOrder(files, prefix) /\ Alone(prefix)
  <2>1. KnownIds(files, made, prefix) /\ InOrder(files, prefix)
    BY <1>1, <1>2 DEF KnownIds, InOrder
  <2>2. Keygens(prefix) = {}
    BY <1>1 DEF Keygens
  <2>. QED  BY <2>1, <2>2 DEF Alone
<1>4. Writing(Idle, files, made, overlaid)
  BY DEF Writing, Idle
<1>. QED  BY <1>1, <1>3, <1>4 DEF OrderInv

(* It holds throughout.                                                    *)
LEMMA OrderInvariance == Spec => []OrderInv
<1>1. Init => OrderInv
  BY InitOrder
<1>2. IInv /\ OrderInv /\ [Next]_vars => OrderInv'
  <2>. SUFFICES ASSUME IInv, OrderInv, [Next]_vars PROVE OrderInv'
    OBVIOUS
  <2>1. ASSUME NEW p \in Procs,
               \/ Start(p) \/ Read(p) \/ Compute(p)
               \/ OpenFile(p) \/ WriteFile(p) \/ Chmod(p) \/ Die(p)
        PROVE  OrderInv'
    BY <2>1, StartOrder, ReadOrder, ComputeOrder, OpenOrder, WriteOrder, ChmodOrder, DieOrder
  <2>2. CASE UNCHANGED vars
    BY <2>2 DEF vars, OrderInv, Alone, Keygens
  <2>. QED  BY <2>1, <2>2 DEF Next
<1>. QED  BY <1>1, <1>2, Invariance, PTL DEF Spec

-----------------------------------------------------------------------------
(* The theorems.                                                           *)

(* A private key, wrapped or not, whole or in part, is never in a file     *)
(* that others may read, unless the file was there before and was theirs   *)
(* to read: however many processes overlap or die (__main__.py:37-47).     *)
THEOREM SecretsKept == Spec => []SecretsOwnerOnly
<1>1. IInv => SecretsOwnerOnly
  BY DEF IInv, Kept, FileOK, SecretsOwnerOnly
<1>. QED  BY <1>1, Invariance, PTL

(* A private half on disk, whole or in part, is under the passphrase that  *)
(* its keygen was given: with --passphrase neither half is ever in a file  *)
(* in the clear (__main__.py:84-87).                                       *)
THEOREM LockedAlike == Spec => []OneLock
<1>1. ASSUME IInv, NEW path \in Paths, Content(path).kind \in PrivateHalves
      PROVE  Asked(Content(path).of) = {Content(path).lock}
  <2>1. PICK lock : Kept(log, made, lock) /\ Recorded(log, made, lock)
    BY <1>1 DEF IInv
  <2>. DEFINE v == Content(path)
  <2>2. v.of \in 0 .. made /\ v.lock = lock[v.of] /\ made \in Nat
    BY <1>1, <2>1 DEF Kept, FileOK, Locked, Content
  <2>. HIDE DEF v
  <2>3. CASE v.of = 0
    <3>1. ~\E e \in log : e.op = "made" /\ e.of = 0
      BY <2>1, <2>2 DEF Recorded
    <3>. QED  BY <2>1, <2>2, <2>3, <3>1 DEF Recorded, Asked, v
  <2>4. CASE v.of \in 1 .. made
    <3>. DEFINE m == Made(v.of, v.lock)
    <3>1. m \in log /\ m.op = "made" /\ m.of = v.of /\ m.pass = v.lock
      BY <2>1, <2>2, <2>4 DEF Recorded, Made
    <3>2. \A e \in log : e.op = "made" /\ e.of = v.of => e.pass = v.lock
      BY <2>1, <2>2 DEF Recorded
    <3>3. v.of # 0
      BY <2>2, <2>4
    <3>. HIDE DEF m
    <3>. QED  BY <3>1, <3>2, <3>3 DEF Asked, v
  <2>. QED  BY <2>2, <2>3, <2>4
<1>2. IInv => OneLock
  BY <1>1 DEF OneLock
<1>. QED  BY <1>2, Invariance, PTL

(* What decrypt writes was sealed for its key, by the sender it was told   *)
(* to expect (__main__.py:120-130).                                        *)
THEOREM OpenedIsSealed == Spec => []OpenedWasSealed
<1>1. IInv => OpenedWasSealed
  BY DEF IInv, Logged
<1>. QED  BY <1>1, Invariance, PTL

(* verify says yes only to what the private half of that key has signed.   *)
THEOREM VerifiedIsSigned == Spec => []VerifiedWasSigned
<1>1. IInv => VerifiedWasSigned
  BY DEF IInv, Logged
<1>. QED  BY <1>1, Invariance, PTL

(* A keygen that dies leaves the earlier halves of a prefix of a later     *)
(* identity than the others, never an older public key beside a newer      *)
(* private one, as long as two keygens have not overlapped on it           *)
(* (__main__.py:86-87).                                                    *)
THEOREM HalvesStayInOrder == Spec => []HalvesInOrder
<1>1. OrderInv => HalvesInOrder
  BY DEF OrderInv, InOrder, Holds, In, HalvesInOrder, Contents
<1>. QED  BY <1>1, OrderInvariance, PTL
=============================================================================
