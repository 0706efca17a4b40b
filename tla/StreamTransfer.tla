--------------------------- MODULE StreamTransfer ---------------------------
(***************************************************************************)
(* What seal_stream and open_stream of vorlath_shield/shield.py promise    *)
(* their callers, with no chunk, key or stored byte in sight: a sent       *)
(* message is final, and a call that opens either refuses or returns one   *)
(* sent message, whole.                                                    *)
(***************************************************************************)
CONSTANTS
  Streams,   \* one name per seal_stream call
  Messages,  \* what is sent
  None       \* not a message, and not a stream

VARIABLES
  sent,    \* the message of each finished seal_stream call
  result   \* the open_stream call: its phase, and what it returned

Phase(p) == [phase |-> p, from |-> None, msg |-> None]

Init == /\ sent = [s \in Streams |-> None]
        /\ result = Phase("idle")

Send == \E s \in Streams, m \in Messages :
  /\ sent[s] = None
  /\ sent' = [sent EXCEPT ![s] = m]
  /\ UNCHANGED result

Begin == /\ result = Phase("idle")
         /\ result' = Phase("pending")
         /\ UNCHANGED sent

Deliver == \E s \in Streams :
  /\ result = Phase("pending")
  /\ sent[s] # None
  /\ result' = [phase |-> "delivered", from |-> s, msg |-> sent[s]]
  /\ UNCHANGED sent

Refuse == /\ result = Phase("pending")
          /\ result' = Phase("refused")
          /\ UNCHANGED sent

Return == /\ result.phase \in {"delivered", "refused"}
          /\ result' = Phase("idle")
          /\ UNCHANGED sent

Next == Send \/ Begin \/ Deliver \/ Refuse \/ Return

Spec == /\ Init
        /\ [][Next]_<<sent, result>>
        /\ WF_<<sent, result>>(Deliver \/ Refuse)
=============================================================================
