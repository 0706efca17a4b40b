-------------------------- MODULE EnvelopeTransfer --------------------------
(***************************************************************************)
(* What encrypt and decrypt of vorlath_shield/shield.py promise, with no   *)
(* header, key or stored byte in sight: a sealed message is final, and a   *)
(* call that opens returns one sealed message, whole, to a caller whose    *)
(* demands (sender, pre-shared key, policy) that message meets; or it      *)
(* refuses.                                                                *)
(***************************************************************************)
CONSTANTS
  Calls,     \* one name per encrypt call
  Demands,   \* the arguments of decrypt calls
  Facts,     \* what encrypt calls were given
  Meets(_, _), \* whether a message sealed with facts f meets demands d
  None       \* neither of these

VARIABLES
  sent,   \* the facts of each finished encrypt call
  result  \* the decrypt call: its phase, its demands, and what it returned

Result(phase, demands, from) ==
  [phase |-> phase, demands |-> demands, from |-> from]

Init == /\ sent = [c \in Calls |-> None]
        /\ result = Result("idle", None, None)

Send == \E c \in Calls, f \in Facts :
  /\ sent[c] = None
  /\ sent' = [sent EXCEPT ![c] = f]
  /\ UNCHANGED result

Begin == /\ result.phase = "idle"
         /\ \E d \in Demands : result' = Result("pending", d, None)
         /\ UNCHANGED sent

Deliver == \E c \in Calls :
  /\ result.phase = "pending"
  /\ sent[c] # None
  /\ Meets(sent[c], result.demands)
  /\ result' = Result("delivered", result.demands, c)
  /\ UNCHANGED sent

Refuse == /\ result.phase = "pending"
          /\ result' = Result("refused", result.demands, None)
          /\ UNCHANGED sent

Return == /\ result.phase \in {"delivered", "refused"}
          /\ result' = Result("idle", None, None)
          /\ UNCHANGED sent

Next == Send \/ Begin \/ Deliver \/ Refuse \/ Return

Spec == Init /\ [][Next]_<<sent, result>>
=============================================================================
