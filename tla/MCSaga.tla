-------------------------------- MODULE MCSaga --------------------------------
(***************************************************************************)
(* Saga for TLC.  Two users want the only seat of an event, and each pays  *)
(* for its reservation under the same key; the second user also tries to   *)
(* pay the reservation of the first.                                       *)
(***************************************************************************)
EXTENDS Saga, TLC

CONSTANTS e1, u1, u2, r1, r2, p1, p2, p3, k1, k2, t1, t2

Seats == e1 :> 1
Tokens == (t1 :> u1) @@ (t2 :> u2)
Submissions ==
    LET call == (p1 :> [res |-> r1, key |-> k1]) @@ (p2 :> [res |-> r2, key |-> k1])
             @@ (p3 :> [res |-> r1, key |-> k2])
    IN [p \in Pay |-> call[p]]

Requests == [r \in ResId |-> [event |-> e1, user |-> IF r = r1 THEN u1 ELSE u2, quantity |-> 1]]
Callers == (r1 :> t1) @@ (r2 :> t2) @@ (p1 :> t1) @@ (p2 :> t2) @@ (p3 :> t2)
=============================================================================
