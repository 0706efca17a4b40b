----------------------------- MODULE CommandLine -----------------------------
(***************************************************************************)
(* vorlath_shield/__main__.py: the commands, as processes that read and    *)
(* write the same files.  Each read of a file is a step; writing one is    *)
(* three: open (which creates it, or empties it and keeps its mode), write *)
(* and, for a private key, chmod.  A process may die, or its write may     *)
(* fail, at any step.  What shield.py does with the bytes is one step, and *)
(* is what ShieldEnvelope shows of it.                                     *)
(***************************************************************************)
EXTENDS Naturals, Sequences

CONSTANTS
  Procs,       \* processes running the program
  Prefixes,    \* what --prefix may be: four key files each
  Docs,        \* files to seal or to sign; nothing here writes them
  Passphrases, \* non-empty passphrases
  NoPass,      \* no --passphrase, or an empty one
  None,        \* option not given
  Sessions,    \* what a behaviour may start from; bounds what it can do
  MaxCommands  \* bound on the commands started

(* The files of a prefix, in the order in which keygen writes them.        *)
Halves == <<"kem.pub", "kem.key", "sig.pub", "sig.key">>
PrivateHalves == {"kem.key", "sig.key"}

(* A session: the commands in use; the prefixes whose four files are those *)
(* of identity 0; those whose private key files are there, empty, for all  *)
(* to read; those that commands name; the passphrases that users choose.   *)
SessionFields == {"offered", "existing", "loose", "prefixes", "passes"}

ASSUME CommandLineAssumption ==
  /\ \A s \in Sessions : /\ DOMAIN s = SessionFields
                         /\ s.existing \union s.loose \union s.prefixes \subseteq Prefixes
                         /\ s.passes \subseteq Passphrases
  /\ MaxCommands \in Nat
  /\ NoPass \notin Passphrases /\ None \notin Prefixes

VARIABLES
  session,  \* one of Sessions, as long as the behaviour lasts
  files,    \* contents and mode of each path
  proc,     \* each process: its command, and what is left of it
  made,     \* how many identities keygen has generated
  started,  \* how many commands have been started
  log,      \* what commands have made, sealed, opened, signed, verified, shown
  died,     \* prefixes on which a keygen has died
  overlaid  \* prefixes on which two keygens have run at once

vars == <<session, files, proc, made, started, log, died, overlaid>>

-----------------------------------------------------------------------------
(* Paths and contents.                                                     *)

Key(prefix, half) == [at |-> prefix, name |-> half]
Doc(d) == [at |-> d, name |-> "doc"]
File(name) == [at |-> None, name |-> name]
HalfNames == {Halves[i] : i \in 1..4}
Paths == [at : Prefixes, name : HalfNames] \union {Doc(d) : d \in Docs}
         \union {File(name) : name \in {"env", "out", "sig"}}

Absent == [kind |-> "absent"]
Blank  == [kind |-> "empty"]
Torn(v) == [kind |-> "torn", was |-> v]
Text(d) == [kind |-> "text", doc |-> d]

(* A key bundle; lock is the passphrase that wraps it, or NoPass.          *)
Bundle(half, id, lock) == [kind |-> half, of |-> id, lock |-> lock]

(* encrypt takes any bytes for the sender's public half; the envelope says *)
(* whose it is, or Nobody when it is not a signing public key.             *)
Nobody == MaxCommands + 1
Owner(v) == IF v.kind = "sig.pub" THEN v.of ELSE Nobody
Envelope(kind, to, signer, pub, d) ==
  [kind |-> kind, of |-> to, signer |-> signer, pub |-> pub, doc |-> d]
Detached(by, d) == [kind |-> "signature", of |-> by, doc |-> d]

Secret(v) == v.kind \in PrivateHalves \/ (v.kind = "torn" /\ v.was.kind \in PrivateHalves)

(* _maybe_unwrap: unwrapped data as it is, wrapped data under its own      *)
(* passphrase; without --passphrase the user is asked, and types one.      *)
Unlocks(v, pass, typed) ==
  v.lock = NoPass \/ v.lock = (IF pass = NoPass THEN typed ELSE pass)

-----------------------------------------------------------------------------
(* The command lines that main accepts.                                    *)

Passes == session.passes \union {NoPass}
SomePrefix == session.prefixes \union {None}
CommandLines ==
  LET at == session.prefixes
  IN  { c \in   [name : {"keygen"}, at : at, pass : Passes]
         \union [name : {"encrypt"}, at : at, doc : Docs, stream : BOOLEAN,
                 signKey : SomePrefix, signPub : SomePrefix, pass : Passes]
         \union [name : {"decrypt"}, at : at, expect : SomePrefix, pass : Passes]
         \union [name : {"sign"}, at : at, doc : Docs, pass : Passes]
         \union [name : {"verify"}, at : at, doc : Docs]
         \union [name : {"info"}]
         \union [name : {"demo"}, suite : {1, 2, 3}] : c.name \in session.offered }

(* What a command reads, in order.                                         *)
SignerReads(c) == IF c.signKey = None \/ c.signPub = None \/ c.stream THEN <<>>
                  ELSE <<Key(c.signKey, "sig.key"), Key(c.signPub, "sig.pub")>>
ReadsOf(c) ==
  CASE c.name = "encrypt" -> <<Doc(c.doc)>> \o SignerReads(c) \o <<Key(c.at, "kem.pub")>>
    [] c.name = "decrypt" -> <<File("env"), Key(c.at, "kem.key")>> \o
         (IF c.expect = None THEN <<>> ELSE <<Key(c.expect, "sig.pub")>>)
    [] c.name = "sign"    -> <<Key(c.at, "sig.key"), Doc(c.doc)>>
    [] c.name = "verify"  -> <<Key(c.at, "sig.pub"), Doc(c.doc), File("sig")>>
    [] c.name = "info"    -> <<File("env")>>
    [] OTHER              -> <<>>

-----------------------------------------------------------------------------
(* What a command makes of what it has read.  A result is the sequence of  *)
(* its writes and its entry in the log.                                    *)

WriteOf(path, v, private) == [path |-> path, data |-> v, private |-> private]
Entry(op, id, other, d) == [op |-> op, of |-> id, other |-> other, doc |-> d]
Made(id, pass) == [op |-> "made", of |-> id, pass |-> pass]
Result(writes, entry) == [writes |-> writes, log |-> entry]
Refuses == Result(<<>>, {})

(* cmd_keygen.  With a passphrase both private halves are wrapped.         *)
KeygenHalfPublicSig(c, id, half) ==
  WriteOf(Key(c.at, half),
          Bundle(half, id, IF half \in PrivateHalves THEN c.pass ELSE NoPass),
          half = "kem.key")
KeygenHalfInClear(c, id, half) ==
  WriteOf(Key(c.at, half), Bundle(half, id, NoPass), half \in PrivateHalves)
KeygenHalf(c, id, half) ==
  WriteOf(Key(c.at, half),
          Bundle(half, id, IF half \in PrivateHalves THEN c.pass ELSE NoPass),
          half \in PrivateHalves)
KeygenPrivateFirst(c, id) ==
  Result(<<KeygenHalf(c, id, "kem.key"), KeygenHalf(c, id, "kem.pub"),
           KeygenHalf(c, id, "sig.pub"), KeygenHalf(c, id, "sig.key")>>, {Made(id, c.pass)})
KeygenSigInClear(c, id) ==
  Result([i \in 1..4 |-> IF i = 4 THEN KeygenHalf([c EXCEPT !.pass = NoPass], id, Halves[4])
                         ELSE KeygenHalf(c, id, Halves[i])], {Made(id, c.pass)})
KeygenResult(c, id) ==
  Result([i \in 1..4 |-> KeygenHalf(c, id, Halves[i])], {Made(id, c.pass)})

(* cmd_encrypt.                                                            *)
SignRefused(c) == c.signKey # None /\ (c.stream \/ c.signPub = None)
EncryptResult(c, got, typed) ==
  LET to == got[Len(got)]
      signed == c.signKey # None
  IN  IF \/ SignRefused(c)
         \/ to.kind # "kem.pub"
         \/ signed /\ got[2].kind # "sig.key"
         \/ signed /\ ~Unlocks(got[2], c.pass, typed)
      THEN Refuses
      ELSE LET signer == IF signed THEN got[2].of ELSE Nobody
               pub    == IF signed THEN Owner(got[3]) ELSE Nobody
               kind   == IF c.stream THEN "stream" ELSE "envelope"
           IN  Result(<<WriteOf(File("env"), Envelope(kind, to.of, signer, pub, c.doc), FALSE)>>,
                      {Entry("sealed", to.of, signer, c.doc)})

(* cmd_decrypt: a stream is refused when a sender is expected; an envelope *)
(* opens as decrypt says.                                                  *)
SenderFits(e, expected) ==
  /\ e.signer # Nobody => e.pub = e.signer
  /\ expected.kind = "sig.pub" /\ e.signer = expected.of
AnySenderFits(e) == e.signer # Nobody => e.pub = e.signer

DecryptAcceptsAnyStream(c, e) == e.kind \in {"stream", "envelope"}
DecryptAccepts(c, e) ==
  \/ e.kind = "stream" /\ c.expect = None
  \/ e.kind = "envelope"

DecryptResult(c, got, typed) ==
  LET e == got[1]  key == got[2]
  IN  IF /\ DecryptAccepts(c, e)
         /\ key.kind = "kem.key" /\ Unlocks(key, c.pass, typed)
         /\ key.of = e.of
         /\ e.kind = "envelope" =>
              IF c.expect = None THEN AnySenderFits(e) ELSE SenderFits(e, got[3])
      THEN Result(<<WriteOf(File("out"), Text(e.doc), FALSE)>>,
                  {Entry("opened", key.of, IF c.expect = None THEN Nobody ELSE Owner(got[3]), e.doc)})
      ELSE Refuses

(* cmd_sign and cmd_verify.                                                *)
SignResult(c, got, typed) ==
  IF got[1].kind = "sig.key" /\ Unlocks(got[1], c.pass, typed)
  THEN Result(<<WriteOf(File("sig"), Detached(got[1].of, c.doc), FALSE)>>,
              {Entry("signed", got[1].of, Nobody, c.doc)})
  ELSE Refuses

VerifyResultAnyKey(c, got) ==
  IF got[1].kind = "sig.pub" /\ got[3].kind = "signature" /\ got[3].doc = c.doc
  THEN Result(<<>>, {Entry("verified", got[1].of, Nobody, c.doc)})
  ELSE Refuses
VerifyResult(c, got) ==
  IF got[1].kind = "sig.pub" /\ got[3] = Detached(got[1].of, c.doc)
  THEN Result(<<>>, {Entry("verified", got[1].of, Nobody, c.doc)})
  ELSE Refuses

(* cmd_demo shows everything in memory; the classical-only contrast comes  *)
(* first and raises for the suite that has no classical leg.               *)
DemoResult(c) ==
  Result(<<>>, {Entry(IF c.suite = 3 THEN "demo raised" ELSE "demo shown",
                      Nobody, Nobody, None)})

ResultOf(c, got, typed) ==
  CASE c.name = "keygen"  -> KeygenResult(c, made + 1)
    [] c.name = "encrypt" -> EncryptResult(c, got, typed)
    [] c.name = "decrypt" -> DecryptResult(c, got, typed)
    [] c.name = "sign"    -> SignResult(c, got, typed)
    [] c.name = "verify"  -> VerifyResult(c, got)
    [] c.name = "info"    -> Refuses
    [] c.name = "demo"    -> DemoResult(c)

-----------------------------------------------------------------------------
(* The steps of a process.                                                 *)

Idle == [cmd |-> None, at |-> "idle", reads |-> <<>>, got |-> <<>>, writes |-> <<>>]

Keygens(prefix) == {p \in Procs : /\ proc[p] # Idle
                                  /\ proc[p].cmd.name = "keygen"
                                  /\ proc[p].cmd.at = prefix}

Start(p) ==
  /\ proc[p] = Idle /\ started < MaxCommands
  /\ started' = started + 1
  /\ \E c \in CommandLines :
       /\ proc' = [proc EXCEPT ![p] =
            [cmd |-> c, at |-> "read", reads |-> ReadsOf(c), got |-> <<>>, writes |-> <<>>]]
       /\ overlaid' = overlaid \union
            (IF c.name = "keygen" /\ Keygens(c.at) # {} THEN {c.at} ELSE {})
  /\ UNCHANGED <<session, files, made, log, died>>

(* A file that is not there ends the command; so does base64 that is not.  *)
Read(p) ==
  /\ proc[p].reads # <<>>
  /\ LET q == proc[p]
         v == files[Head(q.reads)].data
     IN  proc' = [proc EXCEPT ![p] =
           IF v = Absent THEN Idle
           ELSE [q EXCEPT !.reads = Tail(q.reads), !.got = Append(q.got, v)]]
  /\ UNCHANGED <<session, files, made, started, log, died, overlaid>>

Compute(p) ==
  /\ proc[p].at = "read" /\ proc[p].reads = <<>>
  /\ \E typed \in Passes :
       LET r == ResultOf(proc[p].cmd, proc[p].got, typed)
       IN  /\ proc' = [proc EXCEPT ![p] =
                IF r.writes = <<>> THEN Idle
                ELSE [proc[p] EXCEPT !.at = "open", !.got = <<>>, !.writes = r.writes]]
           /\ log' = log \union r.log
           /\ made' = IF proc[p].cmd.name = "keygen" THEN made + 1 ELSE made
  /\ UNCHANGED <<session, files, started, died, overlaid>>

ThisWrite(p) == Head(proc[p].writes)
Written(p) ==
  LET q == proc[p]
  IN  [proc EXCEPT ![p] = IF Tail(q.writes) = <<>> THEN Idle
                          ELSE [q EXCEPT !.at = "open", !.writes = Tail(q.writes)]]

(* _w: a new private file is 0600 from the start, an existing file keeps   *)
(* its mode.                                                               *)
OpenFile(p) ==
  /\ proc[p].at = "open"
  /\ LET w == ThisWrite(p)
     IN  files' = [files EXCEPT ![w.path] =
           [data |-> Blank,
            mode |-> IF @.data # Absent THEN @.mode
                     ELSE IF w.private THEN "owner" ELSE "everyone"]]
  /\ proc' = [proc EXCEPT ![p].at = "write"]
  /\ UNCHANGED <<session, made, started, log, died, overlaid>>

(* Another process may have written since: what is longer than the new     *)
(* text stays behind it.                                                   *)
WriteFile(p) ==
  /\ proc[p].at = "write"
  /\ LET w == ThisWrite(p)
     IN  /\ \E v \in {w.data} \union (IF files[w.path].data = Blank THEN {} ELSE {Torn(w.data)}) :
              files' = [files EXCEPT ![w.path].data = v]
         /\ proc' = IF w.private THEN [proc EXCEPT ![p].at = "chmod"] ELSE Written(p)
  /\ UNCHANGED <<session, made, started, log, died, overlaid>>

(* chmod itself may fail: the code ignores it.                             *)
Chmod(p) ==
  /\ proc[p].at = "chmod"
  /\ \E mode \in {"owner", files[ThisWrite(p).path].mode} :
       files' = [files EXCEPT ![ThisWrite(p).path].mode = mode]
  /\ proc' = Written(p)
  /\ UNCHANGED <<session, made, started, log, died, overlaid>>

(* The process dies, or the disk is full: part of the data may be there.   *)
Die(p) ==
  /\ proc[p] # Idle
  /\ proc' = [proc EXCEPT ![p] = Idle]
  /\ \E partly \in BOOLEAN :
       files' = IF partly /\ proc[p].at = "write"
                THEN [files EXCEPT ![ThisWrite(p).path].data = Torn(ThisWrite(p).data)]
                ELSE files
  /\ died' = died \union (IF proc[p].cmd.name = "keygen" THEN {proc[p].cmd.at} ELSE {})
  /\ UNCHANGED <<session, made, started, log, overlaid>>

-----------------------------------------------------------------------------
InitialData(path) ==
  IF path.name = "doc" THEN Text(path.at)
  ELSE IF path.at \in session.existing THEN Bundle(path.name, 0, NoPass)
  ELSE IF path.at \in session.loose /\ path.name \in PrivateHalves THEN Blank
  ELSE Absent
InitialMode(path) ==
  IF path.at \notin session.loose /\ path.name \in PrivateHalves THEN "owner" ELSE "everyone"

Init ==
  /\ session \in Sessions
  /\ files = [path \in Paths |-> [data |-> InitialData(path), mode |-> InitialMode(path)]]
  /\ proc = [p \in Procs |-> Idle]
  /\ made = 0 /\ started = 0
  /\ log = {} /\ died = {} /\ overlaid = {}

Next == \E p \in Procs : \/ Start(p) \/ Read(p) \/ Compute(p)
                         \/ OpenFile(p) \/ WriteFile(p) \/ Chmod(p) \/ Die(p)

Spec == Init /\ [][Next]_vars

-----------------------------------------------------------------------------
(* Properties.                                                             *)

Contents(prefix, i) == files[Key(prefix, Halves[i])].data

(* A private key, wrapped or not, whole or in part, is never in a file     *)
(* that others may read, whoever dies and whatever overlaps - unless that  *)
(* file was there before and was theirs to read (__main__.py:37-38).       *)
SecretsOwnerOnly ==
  \A path \in Paths :
    Secret(files[path].data) /\ path.at \notin session.loose => files[path].mode = "owner"

(* The halves of a prefix are of one identity, or the earlier in the order *)
(* of writing are of a later one: a private key on disk never lacks a      *)
(* public half that was already there, and a keygen that died shows as a   *)
(* key-id mismatch, never as an older public key beside a newer private    *)
(* one (__main__.py:86-87).                                                *)
HalvesInOrder ==
  \A prefix \in Prefixes \ overlaid : \A i, j \in 1..4 :
    i < j /\ Contents(prefix, i).kind = Halves[i] /\ Contents(prefix, j).kind = Halves[j]
      => Contents(prefix, i).of >= Contents(prefix, j).of

(* A private half on disk, whole or in part, is under the passphrase that  *)
(* its keygen was given, and in the clear only if it was given none:       *)
(* neither half of an identity that was to be wrapped is ever in a file    *)
(* unwrapped, whoever dies, whatever overlaps and whoever made the keys    *)
(* that were there before (__main__.py:84-87).                             *)
Asked(id) == {m.pass : m \in {e \in log : e.op = "made" /\ e.of = id}}
             \union (IF id = 0 THEN {NoPass} ELSE {})
Content(path) == IF files[path].data.kind = "torn" THEN files[path].data.was ELSE files[path].data
OneLock ==
  \A path \in Paths :
    Content(path).kind \in PrivateHalves => Asked(Content(path).of) = {Content(path).lock}

(* What decrypt has written was sealed for the key it read, and by the     *)
(* sender it was told to expect: a stream put in the place of a signed     *)
(* envelope does not pass for one, whoever is rewriting the key files      *)
(* meanwhile (__main__.py:120-130).                                        *)
OpenedWasSealed ==
  \A o \in log : o.op = "opened" =>
    \E s \in log : /\ s.op = "sealed" /\ s.of = o.of /\ s.doc = o.doc
                   /\ o.other # Nobody => s.other = o.other

(* verify says yes only to what the private half of that key has signed.   *)
VerifiedWasSigned ==
  \A v \in log : v.op = "verified" => [v EXCEPT !.op = "signed"] \in log
=============================================================================
