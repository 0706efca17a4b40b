--------------------------- MODULE MCPstvStreams ---------------------------
(* seal_stream, open_stream and the streams of the corpus, for TLC.        *)
EXTENDS PstvStreams

CONSTANTS r1, r2, r3, a, b, s1

(* Two identities of a suite in scope of altcodec, and one out of it.      *)
MCSuiteOf == (r1 :> 2) @@ (r2 :> 3) @@ (r3 :> 2)

(* From empty to one byte more than the counter can number at chunk size 1.*)
MCLengths == {<<>>, <<a>>, <<a, b>>, <<b, b, a>>, <<a, b, a, b>>,
              <<a, b, a, a, b>>, <<a, b, b, a, a, b>>}
MCPlaintext == <<a, b, a, a, b>>
=============================================================================
