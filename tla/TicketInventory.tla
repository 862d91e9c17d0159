--------------------------- MODULE TicketInventory ---------------------------
(***************************************************************************)
(* What pulsar-core promises about the ticket pool, with every use case    *)
(* one indivisible step: no transactions, locks, versions, counters or     *)
(* replicas.  A reservation is created while enough tickets are left,      *)
(* decided once, and every change of a reservation announces itself in the *)
(* outbox in the same step.  ReservationService is shown to implement this *)
(* specification.                                                          *)
(***************************************************************************)
EXTENDS Tickets

VARIABLES
    status,     \* the status of each reservation
    announced   \* the outbox events of each reservation, in commit order

vars == <<status, announced>>

Init ==
    /\ status = [r \in ResId |-> Absent]
    /\ announced = [r \in ResId |-> <<>>]

Enter(r, s) ==
    /\ status' = [status EXCEPT ![r] = s]
    /\ announced' = [announced EXCEPT ![r] = Append(@, Announcement[s])]

Reserve(r) ==
    LET e == Request[r].event IN
    /\ status[r] = Absent
    /\ ~Rival(status, r)
    /\ Cardinality(TicketsIn(status, e, Active)) + Request[r].quantity <= Capacity[e]
    /\ Enter(r, "PENDING")

Decide(r, s) ==
    /\ status[r] = "PENDING"
    /\ Enter(r, s)

Next == \E r \in ResId :
    \/ Reserve(r)
    \/ \E s \in Decided : Decide(r, s)

Spec == Init /\ [][Next]_vars
=============================================================================
