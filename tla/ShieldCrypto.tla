---------------------------- MODULE ShieldCrypto ----------------------------
(***************************************************************************)
(* What vorlath_shield/shield.py gets from its cryptography, as terms.     *)
(* The suites, the transcript and the key combiner are the code's own; the *)
(* primitives below them (X25519/X448, ML-KEM, AES-256-GCM) are libraries, *)
(* taken to be ideal: equal terms are equal bytes, and what is made of     *)
(* different fresh values is different.                                    *)
(***************************************************************************)
EXTENDS Parsing

CONSTANTS
  Recipients,  \* the hybrid KEM identities (generate_recipient_keys calls)
  SuiteOf,     \* the suite each identity was generated for
  Bad,         \* a byte string that storage or transport has damaged
  Empty        \* b""

SuiteIds == {1, 2, 3}

ASSUME SuiteOfAssumption == SuiteOf \in [Recipients -> SuiteIds]

(* Suite 3 has no classical leg: its adapter is _NullX.                    *)
HasClassicalLeg(suite) == suite # 3

(* eph_pub of the n-th handshake: fresh, or b"" without a classical leg.   *)
EphPublic(suite, n) == IF HasClassicalLeg(suite) THEN n ELSE Empty

(* The ECDH secret between identity r and the ephemeral key behind eph.    *)
(* Both ends compute it; _NullX.exchange is b"" whatever it is given.      *)
Exchange(r, eph) == IF HasClassicalLeg(SuiteOf[r]) THEN <<"ecdh", r, eph>>
                                                   ELSE Empty

(* The ML-KEM secret behind ciphertext ct under identity r.  A damaged ct  *)
(* does not raise: implicit rejection yields another secret.               *)
Decaps(r, ct) == <<"kem", r, ct>>

(* The transcript: the fields in a row, with no length before any of them. *)
(* The row does not say where a field ends: a header may cut the same row  *)
(* elsewhere (ShieldEnvelope), and the transcript stays what it was.       *)
PreAuth(suite, flags, kid, eph, ct, nonce) ==
  <<suite, flags, kid, eph, ct, nonce>>

(* The key combiner: the secrets are length-framed, the transcript and the *)
(* sender's key-id are the HKDF info.                                      *)
DeriveKey(suite, classical, pq, preAuth, ppk, senderKid) ==
  [ikm |-> <<classical, pq, ppk>>, info |-> <<suite, preAuth, senderKid>>]

(* AES-256-GCM: the tag opens under the sealing key, nonce and associated  *)
(* data, and under nothing else.                                           *)
AeadSeal(key, nonce, aad, plaintext) ==
  [key |-> key, nonce |-> nonce, aad |-> aad, plaintext |-> plaintext]

AeadOpens(key, nonce, aad, sealed) ==
  /\ sealed # Bad
  /\ sealed.key = key
  /\ sealed.nonce = nonce
  /\ sealed.aad = aad
=============================================================================
