------------------------------- MODULE Payments -------------------------------
(***************************************************************************)
(* The vocabulary shared by the specifications of pulsar-payment: payment  *)
(* commands, the payment row of an idempotency key, and outcome events.    *)
(***************************************************************************)
EXTENDS Naturals

CONSTANTS
    ResId,          \* reservations
    UserId,         \* users
    Key,            \* values of the Idempotency-Key header
    Msg,            \* payment.process messages
    None,           \* no message, no reservation
    Owner,          \* the user of each reservation, carried by ticket.reserved
    Command         \* what each message asks for

ASSUME PaymentAssumption ==
    /\ None \notin Msg \cup ResId
    /\ Owner \in [ResId -> UserId]
    /\ Command \in [Msg -> [res : ResId, user : UserId, key : Key]]

PaymentStatus == {"PENDING", "SUCCEEDED", "FAILED"}
Settled       == {"SUCCEEDED", "FAILED"}
NoPayment     == [res |-> None, status |-> "NONE"]
Payment       == [res : ResId, status : PaymentStatus]
Outcome       == [key : Key, res : ResId, status : Settled]
=============================================================================
