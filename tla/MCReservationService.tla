------------------------ MODULE MCReservationService ------------------------
(***************************************************************************)
(* ReservationService for TLC: one event with two tickets and two          *)
(* reservations for it, either of two users who together ask for three     *)
(* tickets, or of one user who may only have one of them alive.            *)
(***************************************************************************)
EXTENDS ReservationService, TLC

CONSTANTS e1, u1, u2, r1, r2

TwoRequests == (r1 :> [event |-> e1, user |-> u1, quantity |-> 1])
            @@ (r2 :> [event |-> e1, user |-> u2, quantity |-> 2])
RivalRequests == (r1 :> [event |-> e1, user |-> u1, quantity |-> 1])
              @@ (r2 :> [event |-> e1, user |-> u1, quantity |-> 1])
OneRequest == r1 :> [event |-> e1, user |-> u1, quantity |-> 2]
SmallHall == [e \in EventId |-> 2]

Replicas == Permutations(Worker)
=============================================================================
