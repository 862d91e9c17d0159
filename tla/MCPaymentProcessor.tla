-------------------------- MODULE MCPaymentProcessor --------------------------
(***************************************************************************)
(* PaymentProcessor for TLC.  The submissions: the owner of r1 pays with   *)
(* key k1, another user tries to pay r1, and the owner of r2 uses the key  *)
(* k1 again; or the same submission twice.                                 *)
(***************************************************************************)
EXTENDS PaymentProcessor, TLC

CONSTANTS r1, r2, u1, u2, k1, k2, m1, m2, m3

Owners == (r1 :> u1) @@ (r2 :> u2)
MixedCommands == (m1 :> [res |-> r1, user |-> u1, key |-> k1])
              @@ (m2 :> [res |-> r1, user |-> u2, key |-> k2])
              @@ (m3 :> [res |-> r2, user |-> u2, key |-> k1])

OneOwner == r1 :> u1
Repeated == (m1 :> [res |-> r1, user |-> u1, key |-> k1])
         @@ (m2 :> [res |-> r1, user |-> u1, key |-> k1])
OneCommand == m1 :> [res |-> r1, user |-> u1, key |-> k1]

Replicas == Permutations(Worker)
=============================================================================
