--------------------------- MODULE OneTimeSigning ---------------------------
(***************************************************************************)
(* What release/sign_lms.py promises about its one-time keys, with no file *)
(* access, leaf index or concurrent run in sight: a key is minted only     *)
(* when no other is held, is spent before it signs, signs one payload with *)
(* its first leaf, and stays held until it can sign no more; and what is   *)
(* published whole is touched only by a key that is held and has signed.   *)
(***************************************************************************)
EXTENDS Naturals

CONSTANTS
  Keys,      \* one for each run
  Payloads,  \* what may be signed
  None       \* not a key

VARIABLES
  stage,       \* how far each key has come
  held,        \* the key whose private half exists, or None
  signatures,  \* all that were ever made
  published    \* the key whose release lies there whole and verifies, or None

To(k, next) == stage' = [stage EXCEPT ![k] = next]

Init == /\ stage = [k \in Keys |-> "unborn"]
        /\ held = None
        /\ signatures = {}
        /\ published = None

Mint(k) == /\ stage[k] = "unborn" /\ held = None
           /\ To(k, "fresh") /\ held' = k
           /\ UNCHANGED <<signatures, published>>

Spend(k) == /\ stage[k] = "fresh" /\ held = k
            /\ To(k, "spent")
            /\ UNCHANGED <<held, signatures, published>>

Sign(k) == /\ stage[k] = "spent" /\ held = k
           /\ To(k, "signed")
           /\ \E d \in Payloads, good \in BOOLEAN :
                signatures' = signatures \union
                                {[key |-> k, leaf |-> 0, digest |-> d, good |-> good]}
           /\ UNCHANGED <<held, published>>

(* Its release becomes whole, or another one's no longer is.               *)
Publish(k) == /\ stage[k] = "signed" /\ held = k
              /\ \/ published' = None
                 \/ /\ published' = k
                    /\ \E s \in signatures : s.key = k /\ s.good
              /\ UNCHANGED <<stage, held, signatures>>

(* Success is reported of a release that lies there whole.                 *)
Pass(k) == /\ stage[k] = "signed" /\ held = k /\ published = k
           /\ To(k, "passed") /\ held' \in {None, k}
           /\ UNCHANGED <<signatures, published>>

(* A key that will not be used further, or not at all: what it was writing *)
(* may be left torn.                                                       *)
Abandon(k) == /\ stage[k] \in {"unborn", "fresh", "spent", "signed"}
              /\ To(k, "abandoned")
              /\ published' \in IF stage[k] = "signed" THEN {None, published}
                                ELSE {published}
              /\ UNCHANGED <<held, signatures>>

Remove == /\ held # None /\ stage[held] \in {"passed", "abandoned"}
          /\ held' = None
          /\ UNCHANGED <<stage, signatures, published>>

Next == \/ \E k \in Keys : \/ Mint(k) \/ Spend(k) \/ Sign(k)
                           \/ Publish(k) \/ Pass(k) \/ Abandon(k)
        \/ Remove

Spec == Init /\ [][Next]_<<stage, held, signatures, published>>
=============================================================================
