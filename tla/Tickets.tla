------------------------------- MODULE Tickets -------------------------------
(***************************************************************************)
(* The vocabulary shared by the specifications of pulsar-core: events with *)
(* a capacity, reservations with a status, the tickets a set of            *)
(* reservations holds, and the outbox event each change of status carries. *)
(***************************************************************************)
EXTENDS Naturals, FiniteSets, Sequences

CONSTANTS
    ResId,      \* reservation identifiers, minted by the gateway
    EventId,    \* events on sale
    UserId,     \* users
    MaxQty,     \* the largest quantity of one reservation
    Capacity,   \* events.capacity
    Request     \* the reserve command that carries each reservation id

\* events.capacity is positive, a command asks for at least one ticket, and a
\* reservation id names one command: the gateway mints a fresh id for each.
ASSUME TicketsAssumption ==
    /\ IsFiniteSet(ResId)
    /\ MaxQty \in Nat \ {0}
    /\ Capacity \in [EventId -> Nat \ {0}]
    /\ Request \in [ResId -> [event : EventId, user : UserId, quantity : 1..MaxQty]]

\* ReservationStatus, plus the status of an id that has no row yet.
Absent   == "NONE"
Released == {"EXPIRED", "FAILED", "CANCELLED"}
Active   == {"PENDING", "CONFIRMED"}
Decided  == Released \cup {"CONFIRMED"}
Status   == Released \cup Active \cup {Absent}

EventType == {"ticket.reserved", "ticket.confirmed", "ticket.released(expired)",
              "ticket.released(payment_failed)", "ticket.released(cancelled)"}

\* The outbox event that a reservation's entry into a status produces; the
\* reason of a ticket.released is part of its payload.
Announcement == [s \in Decided \cup {"PENDING"} |->
                    CASE s = "PENDING"   -> "ticket.reserved"
                      [] s = "CONFIRMED" -> "ticket.confirmed"
                      [] s = "EXPIRED"   -> "ticket.released(expired)"
                      [] s = "FAILED"    -> "ticket.released(payment_failed)"
                      [] s = "CANCELLED" -> "ticket.released(cancelled)"]

\* A ticket is a pair <<r, i>>, the i-th ticket of reservation r.
TicketsOf(r) == {r} \X (1..Request[r].quantity)

\* The tickets of event e held by reservations whose status, under the status
\* function st, is in S.
TicketsIn(st, e, S) ==
    {t \in ResId \X (1..MaxQty) :
        /\ Request[t[1]].event = e
        /\ st[t[1]] \in S
        /\ t[2] <= Request[t[1]].quantity}

\* Another live reservation of the same user for the same event (the partial
\* unique index reservations_one_active_per_user).
Rival(st, r) ==
    \E q \in ResId \ {r} :
        /\ Request[q].event = Request[r].event
        /\ Request[q].user = Request[r].user
        /\ st[q] \in Active
=============================================================================
