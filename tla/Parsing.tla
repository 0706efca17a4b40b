------------------------------- MODULE Parsing -------------------------------
(***************************************************************************)
(* How the parsers of vorlath_shield/shield.py and interop/altcodec.py     *)
(* refuse: each is a sequence of checks, and raises at the first that does *)
(* not pass.                                                               *)
(***************************************************************************)
EXTENDS Naturals, Sequences

(* A check is "none" or the error it raises.                               *)
Check(error, passed) == IF passed THEN "none" ELSE error

FirstFailure(checks) ==
  LET failed == {i \in 1..Len(checks) : checks[i] # "none"}
  IN  IF failed = {} THEN "none"
      ELSE checks[CHOOSE i \in failed : \A j \in failed : i <= j]
=============================================================================
