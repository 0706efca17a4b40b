---------------------------- MODULE MCCommandLine ----------------------------
(* Sessions for TLC, on one prefix: keygen over and over; messages, while  *)
(* keygen replaces the keys; signatures, and commands that only show.      *)
EXTENDS CommandLine, TLC

CONSTANTS p1, p2, alice, text, pw

MCProcs == {p1, p2}
MCDocs == {text}
MCPassphrases == {pw}

Session(offered, existing, loose, prefixes, passes) ==
  [offered |-> offered, existing |-> existing, loose |-> loose, prefixes |-> prefixes,
   passes |-> passes]
MCSessions ==
  { Session({"keygen"}, {}, {}, {alice}, {pw}),
    Session({"keygen"}, {}, {alice}, {alice}, {pw}),
    Session({"keygen", "encrypt", "decrypt"}, {alice}, {}, {alice}, {}),
    Session({"keygen", "sign", "verify", "info", "demo"}, {alice}, {}, {alice}, {pw}) }

Interchangeable == Permutations(MCProcs)
=============================================================================
