---------------------------- MODULE MCLmsRelease ----------------------------
(***************************************************************************)
(* Instances of LmsRelease for TLC.                                        *)
(***************************************************************************)
EXTENDS LmsRelease, TLC

(* Runs are interchangeable, and so are the digests of two builds.         *)
MCSymmetry == Permutations(Runs) \union Permutations(Digests)
=============================================================================
