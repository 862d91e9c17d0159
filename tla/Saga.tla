--------------------------------- MODULE Saga ---------------------------------
(***************************************************************************)
(* The booking saga: gateway, pulsar-core, pulsar-payment and              *)
(* pulsar-chrono, composed.  pulsar-core is TicketInventory and            *)
(* pulsar-payment is PaymentLedger, which their detailed specifications    *)
(* implement.                                                              *)
(*                                                                         *)
(* The streams and outboxes between them only grow here: what OutboxRelay  *)
(* and EventBus show is that a message may be delivered late, again and in *)
(* any order, and so it may be handled here at any time after it was sent, *)
(* any number of times.  Only the deliveries of a reserve command are      *)
(* counted: it is the one that can be used up before anything has come of  *)
(* it.                                                                     *)
(***************************************************************************)
EXTENDS Tickets

CONSTANTS
    Pay,            \* calls of POST /v1/reservations/{id}/payment
    Key,            \* values of the Idempotency-Key header of such a call
    None,           \* no reservation, no user
    AuthTokens,     \* the gateway's token table
    Caller,         \* the bearer token of each call
    WellFormed,     \* calls with an Idempotency-Key and a valid body
    Submission,     \* the reservation and the key of each payment call
    MaxDeliver      \* deliveries of a reserve command before it is dead-lettered

\* The user in a reserve command is the one of the token it came with.
ASSUME SagaAssumption ==
    /\ None \notin Pay \cup ResId \cup UserId
    /\ ResId \cap Pay = {}
    /\ \A t \in DOMAIN AuthTokens : AuthTokens[t] \in UserId
    /\ Submission \in [Pay -> [res : ResId, key : Key]]
    /\ \A r \in ResId : Caller[r] \in DOMAIN AuthTokens => Request[r].user = AuthTokens[Caller[r]]
    /\ MaxDeliver \in Nat \ {0}

VARIABLES
    commands, submitted, answer,
    status, announced,
    contexts, elapsed, payments, outbox, charged, underway,
    left,       \* deliveries still to come of each reserve command
    expired     \* reservation.expired events in the stream

gate   == <<commands, submitted, answer>>
core   == <<status, announced>>
ledger == <<contexts, elapsed, payments, outbox, charged, underway>>
vars   == <<commands, submitted, answer, status, announced, contexts, elapsed, payments,
            outbox, charged, underway, left, expired>>

Owner == [r \in ResId |-> Request[r].user]

\* The command of a payment call: its user comes from the token table.
Command == [p \in Pay |-> [res  |-> Submission[p].res,
                           user |-> IF Caller[p] \in DOMAIN AuthTokens
                                    THEN AuthTokens[Caller[p]] ELSE None,
                           key  |-> Submission[p].key]]

Gate   == INSTANCE Gateway
Core   == INSTANCE TicketInventory
Ledger == INSTANCE PaymentLedger WITH Msg <- Pay

TypeOK ==
    /\ commands \subseteq ResId /\ submitted \subseteq Pay
    /\ answer \in [ResId -> Gate!Answer]
    /\ status \in [ResId -> Status]
    /\ announced \in [ResId -> Seq(EventType)]
    /\ contexts \subseteq ResId /\ elapsed \subseteq ResId
    /\ payments \in [Key -> Ledger!Payment \cup {Ledger!NoPayment}]
    /\ outbox \subseteq Ledger!Outcome
    /\ charged \subseteq Pay
    /\ underway \subseteq Pay \X Ledger!Step
    /\ left \in [ResId -> 0..MaxDeliver] /\ expired \subseteq ResId

Init ==
    /\ Gate!Init /\ Core!Init /\ Ledger!Init
    /\ left = [r \in ResId |-> 0] /\ expired = {}

-----------------------------------------------------------------------------
Create(r) ==
    /\ Gate!Create(r)
    /\ left' = IF commands' = commands THEN left ELSE [left EXCEPT ![r] = MaxDeliver]
    /\ UNCHANGED <<core, ledger, expired>>

\* The id of a reservation is known from the answer to the call that made it.
ConfirmPayment(p) ==
    /\ answer[Submission[p].res] = "202"
    /\ Gate!ConfirmPayment(p)
    /\ UNCHANGED <<core, ledger, left, expired>>

\* One delivery to onReserve.  A reservation that is made, that was made before or
\* that finds the event sold out is acknowledged: no delivery follows but those
\* under way already, and those of an acknowledgement that is lost.  Every other
\* error is a NAK: a live reservation of the same user, a sale that is not open,
\* an unknown event, a store that fails.
OnReserve(r) ==
    LET e == Request[r].event
        soldOut == Cardinality(TicketsIn(status, e, Active)) + Request[r].quantity > Capacity[e]
    IN
    /\ left[r] > 0
    /\ \/ /\ \/ Core!Reserve(r)
             \/ (status[r] # Absent \/ soldOut) /\ UNCHANGED core
          /\ \E n \in 0..(left[r] - 1) : left' = [left EXCEPT ![r] = n]
       \/ /\ left' = [left EXCEPT ![r] = @ - 1]
          /\ UNCHANGED core
    /\ UNCHANGED <<gate, ledger, expired>>

\* Slip: both subjects are registered with onPaymentFailed.
OnOutcomeFailing(o) ==
    /\ o \in outbox
    /\ Core!Decide(o.res, "FAILED")
    /\ UNCHANGED <<gate, ledger, left, expired>>

\* onPaymentSucceeded and onPaymentFailed.
OnOutcome(o) ==
    /\ o \in outbox
    /\ Core!Decide(o.res, IF o.status = "SUCCEEDED" THEN "CONFIRMED" ELSE "FAILED")
    /\ UNCHANGED <<gate, ledger, left, expired>>

OnReservationExpired(r) ==
    /\ r \in expired
    /\ Core!Decide(r, "EXPIRED")
    /\ UNCHANGED <<gate, ledger, left, expired>>

\* ticket.reserved reaches the projection of pulsar-payment.
OnTicketReserved(r) ==
    /\ announced[r] # <<>>
    /\ Ledger!Project(r)
    /\ UNCHANGED <<gate, core, left, expired>>

\* A retention window is over; it starts with the reservation.
Elapse(r) ==
    /\ announced[r] # <<>>
    /\ Ledger!Elapse(r)
    /\ UNCHANGED <<gate, core, left, expired>>

\* onPaymentProcess begins, or an attempt of it goes on.
OnPaymentProcess(p) ==
    /\ (p \in submitted /\ Ledger!Begin(p)) \/ Ledger!Attempt(p)
    /\ UNCHANGED <<gate, core, left, expired>>

\* The sweeper announces an overdue reservation.
Sweep(r) ==
    /\ status[r] = "PENDING" /\ r \in elapsed
    /\ expired' = expired \cup {r}
    /\ UNCHANGED <<gate, core, ledger, left>>

Next ==
    \/ \E r \in ResId :
          \/ Create(r) \/ OnReserve(r) \/ OnTicketReserved(r)
          \/ Elapse(r) \/ Sweep(r) \/ OnReservationExpired(r)
    \/ \E p \in Pay : ConfirmPayment(p) \/ OnPaymentProcess(p)
    \/ \E o \in outbox : OnOutcome(o)

Spec == Init /\ [][Next]_vars

\* The broker goes on delivering a reserve command while it has deliveries left
\* (MessageSettles of EventBus), whatever becomes of them.  Time passes, and the
\* sweeper announces an overdue reservation until a compensation event is handled
\* (NoSeatLeaks of Sweeper).  Nobody has to pay, and no payment has to come to its
\* end.
FairSpec ==
    /\ Spec
    /\ \A r \in ResId :
          /\ WF_vars(OnReserve(r)) /\ WF_vars(Elapse(r))
          /\ WF_vars(Sweep(r)) /\ WF_vars(OnReservationExpired(r))

-----------------------------------------------------------------------------
(* Properties. *)

\* The payment row under the key of call p.
Row(p) == payments[Submission[p].key]

\* Call p came with a token of the user whose reservation it names.
OwnCall(p) ==
    /\ Caller[p] \in DOMAIN AuthTokens
    /\ AuthTokens[Caller[p]] = Request[Submission[p].res].user

\* Nobody gets a ticket that was not paid for: a confirmed reservation has a
\* payment row of its own, and the acquirer charged on a call with the key of that
\* row, through late, repeated and reordered outcomes and keys that are used again.
ConfirmedWasCharged ==
    \A r \in ResId : status[r] = "CONFIRMED" => \E p \in charged : Row(p).res = r

\* The call a charge is taken on is itself the owner's: its token belongs to the
\* user of the reservation it names (auth.go resolveIdentity, processor.go Handle),
\* and pulsar-core made that reservation, although the payment service only knows
\* its projection.  What is paid for is that reservation too, unless calls about
\* different reservations carry the same key.
ChargedOnOwnCall ==
    \A p \in charged :
        /\ p \in submitted /\ OwnCall(p)
        /\ status[Submission[p].res] # Absent
        /\ Row(p) # Ledger!NoPayment
        /\ \/ Row(p).res = Submission[p].res
           \/ \E q \in submitted : /\ Submission[q].key = Submission[p].key
                                   /\ Submission[q].res # Submission[p].res

\* The owner of reservation r pays it under one Idempotency-Key.
OneKey(r) ==
    \A p, q \in Pay :
        /\ Submission[p].res = r /\ OwnCall(p)
        /\ Submission[q].res = r /\ OwnCall(q)
        => Submission[p].key = Submission[q].key

\* Payments are unique per key and not per reservation (processor.go Handle, the
\* payments table).  With one key for a reservation there is one account of it: it
\* is charged under no other key, and if it failed although it was charged, an
\* attempt under that very key was recorded as failed.
OneAccount ==
    \A r \in ResId : OneKey(r) =>
        \A p \in charged : Row(p).res = r =>
            /\ \A q \in charged : Row(q).res = r => Submission[q].key = Submission[p].key
            /\ status[r] = "FAILED" =>
                  [key |-> Submission[p].key, res |-> r, status |-> "FAILED"] \in outbox

\* A reserve command whose deliveries are used up without a reservation: turned
\* down because the event was sold out, or dead-lettered.
GivenUp(r) == r \in commands /\ left[r] = 0 /\ status[r] = Absent

\* What the gateway accepted comes to an end and stays there, and so does a command
\* that was stored although the client was told 503: its seats are sold or free
\* again, or there was a command and it never took any (handler.go Create,
\* subscribers.go onReserve, sweeper.go).
AcceptedSettles ==
    \A r \in ResId :
        (answer[r] = "202" \/ r \in commands) ~> [](status[r] \in Decided \/ GivenUp(r))

\* What service.go confirm relies on: the payment service only charges inside the
\* retention window, so a succeeded payment is honored even past ExpiresAt.
SuccessHonored ==
    \A o \in outbox : o.status = "SUCCEEDED" => status[o.res] # "EXPIRED"
=============================================================================
