--------------------------- MODULE PaymentProcessor ---------------------------
(***************************************************************************)
(* pulsar-payment: the projection of ticket.reserved                       *)
(* (internal/payment/subscribers.go) and the handler of payment.process    *)
(* (internal/payment/processor.go), run by the consumers of any number of  *)
(* replicas against the payment database and an external acquirer.         *)
(*                                                                         *)
(* Unlike pulsar-core, the handler is not one transaction: every statement *)
(* before finish commits on its own, and the charge is taken between them. *)
(* A payment row is identified by its idempotency key, which is unique.    *)
(*                                                                         *)
(* The broker delivers a message up to MaxDeliver times until it is        *)
(* acknowledged; a delivery that outlives AckWait is repeated while its    *)
(* handler still runs.                                                     *)
(***************************************************************************)
EXTENDS Payments, FiniteSets

CONSTANTS
    Worker,         \* consumer goroutines of all replicas
    MaxWait,        \* contextWaitAttempts
    MaxDeliver,     \* deliveries of one message before the dead-letter queue
    Faults          \* whether replicas die, statements fail and acks get lost

ASSUME ProcessorAssumption ==
    /\ MaxWait \in Nat
    /\ MaxDeliver \in Nat \ {0}
    /\ Faults \in BOOLEAN

VARIABLES
    contexts,   \* reservation_context: the reservations projected so far
    elapsed,    \* reservations whose expires_at has passed
    payments,   \* payments: the row of each idempotency key
    outbox,     \* outbox_events: the outcomes recorded
    ledger,     \* how often the acquirer charged on each message's token and reservation
    delivered,  \* deliveries of each message so far
    acked,      \* messages whose acknowledgement reached the broker
    pc,         \* where each worker is
    job         \* its message, re-reads, copy of the payment and charge result

store  == <<contexts, payments, outbox>>
broker == <<delivered, acked>>
vars   == <<contexts, elapsed, payments, outbox, ledger, delivered, acked, pc, job>>

Pc    == {"idle", "context", "payment", "window", "charge", "finish", "record"}
NoJob == [msg |-> None, waits |-> 0, pay |-> NoPayment, verdict |-> "NONE"]
Job   == [msg : Msg, waits : 0..MaxWait, pay : Payment \cup {NoPayment},
          verdict : Settled \cup {"NONE"}]

cmd(w) == Command[job[w].msg]

TypeOK ==
    /\ contexts \subseteq ResId
    /\ elapsed \subseteq ResId
    /\ payments \in [Key -> Payment \cup {NoPayment}]
    /\ outbox \subseteq Outcome
    /\ ledger \in [Msg -> Nat]
    /\ delivered \in [Msg -> 0..MaxDeliver]
    /\ acked \subseteq Msg
    /\ pc \in [Worker -> Pc]
    /\ job \in [Worker -> Job \cup {NoJob}]
    /\ \A w \in Worker : pc[w] # "idle" => job[w] \in Job

Init ==
    /\ contexts = {}
    /\ elapsed = {}
    /\ payments = [k \in Key |-> NoPayment]
    /\ outbox = {}
    /\ ledger = [m \in Msg |-> 0]
    /\ delivered = [m \in Msg |-> 0]
    /\ acked = {}
    /\ pc = [w \in Worker |-> "idle"]
    /\ job = [w \in Worker |-> NoJob]

-----------------------------------------------------------------------------
(* The surroundings. *)

\* onTicketReserved: every ticket.reserved of a reservation carries the same
\* values, so a repeated upsert changes nothing.
Project(r) ==
    /\ r \notin contexts
    /\ contexts' = contexts \cup {r}
    /\ UNCHANGED <<elapsed, payments, outbox, ledger, broker, pc, job>>

Elapse(r) ==
    /\ r \notin elapsed
    /\ elapsed' = elapsed \cup {r}
    /\ UNCHANGED <<store, ledger, broker, pc, job>>

-----------------------------------------------------------------------------
(* The handler. *)

\* onPaymentProcess.
Deliver(w, m) ==
    /\ pc[w] = "idle"
    /\ m \notin acked /\ delivered[m] < MaxDeliver
    /\ delivered' = [delivered EXCEPT ![m] = @ + 1]
    /\ pc' = [pc EXCEPT ![w] = "context"]
    /\ job' = [job EXCEPT ![w] = [NoJob EXCEPT !.msg = m]]
    /\ UNCHANGED <<store, elapsed, ledger, acked>>

\* The handler returns an error: the message stays with the broker.
Nak(w) ==
    /\ pc' = [pc EXCEPT ![w] = "idle"]
    /\ job' = [job EXCEPT ![w] = NoJob]

\* The handler returns nil: the message is acknowledged, if the ack arrives.
Ack(w) ==
    /\ Nak(w)
    /\ \/ acked' = acked \cup {job[w].msg}
       \/ Faults /\ UNCHANGED acked

\* Slip: whoever submits the payment is taken for the owner.
WaitContextOfAnyone(w) ==
    /\ pc[w] = "context"
    /\ \/ /\ cmd(w).res \in contexts
          /\ pc' = [pc EXCEPT ![w] = "payment"]
          /\ job' = [job EXCEPT ![w].waits = 0]
       \/ /\ cmd(w).res \notin contexts
          /\ IF job[w].waits < MaxWait
             THEN job' = [job EXCEPT ![w].waits = @ + 1] /\ UNCHANGED pc
             ELSE Nak(w)
    /\ UNCHANGED <<store, elapsed, ledger, broker>>

\* Slip: the wait for the projection has no end.
WaitContextForever(w) ==
    /\ pc[w] = "context"
    /\ \/ /\ cmd(w).res \in contexts /\ Owner[cmd(w).res] = cmd(w).user
          /\ pc' = [pc EXCEPT ![w] = "payment"]
          /\ job' = [job EXCEPT ![w].waits = 0]
       \/ /\ cmd(w).res \in contexts /\ Owner[cmd(w).res] # cmd(w).user
          /\ Nak(w)
    /\ UNCHANGED <<store, elapsed, ledger, broker>>

\* waitContext and the ownership check: the projection is read again up to
\* MaxWait times before the command goes back to the broker.
WaitContext(w) ==
    /\ pc[w] = "context"
    /\ \/ /\ cmd(w).res \in contexts /\ Owner[cmd(w).res] = cmd(w).user
          /\ pc' = [pc EXCEPT ![w] = "payment"]
          /\ job' = [job EXCEPT ![w].waits = 0]
       \/ /\ cmd(w).res \in contexts /\ Owner[cmd(w).res] # cmd(w).user
          /\ Nak(w)
       \/ /\ cmd(w).res \notin contexts
          /\ IF job[w].waits < MaxWait
             THEN job' = [job EXCEPT ![w].waits = @ + 1] /\ UNCHANGED pc
             ELSE Nak(w)
    /\ UNCHANGED <<store, elapsed, ledger, broker>>

\* Slip: an existing payment is resumed whatever its status.
ResumeAlways(w) ==
    LET k == cmd(w).key IN
    /\ pc[w] = "payment"
    /\ payments' = IF payments[k] = NoPayment
                   THEN [payments EXCEPT ![k] = [res |-> cmd(w).res, status |-> "PENDING"]]
                   ELSE payments
    /\ job' = [job EXCEPT ![w].pay = payments'[k]]
    /\ pc' = [pc EXCEPT ![w] = "window"]
    /\ UNCHANGED <<contexts, elapsed, outbox, ledger, broker>>

\* INSERT a pending payment, or load the one that has this key, for whichever
\* reservation it was created.
LoadOrCreate(w) ==
    LET k == cmd(w).key IN
    /\ pc[w] = "payment"
    /\ payments' = IF payments[k] = NoPayment
                   THEN [payments EXCEPT ![k] = [res |-> cmd(w).res, status |-> "PENDING"]]
                   ELSE payments
    /\ job' = [job EXCEPT ![w].pay = payments'[k]]
    /\ pc' = [pc EXCEPT ![w] = IF payments'[k].status = "PENDING" THEN "window" ELSE "record"]
    /\ UNCHANGED <<contexts, elapsed, outbox, ledger, broker>>

\* The window looked at is that of the reservation the command names.
CheckWindow(w) ==
    /\ pc[w] = "window"
    /\ IF cmd(w).res \in elapsed
       THEN /\ pc' = [pc EXCEPT ![w] = "finish"]
            /\ job' = [job EXCEPT ![w].verdict = "FAILED"]
       ELSE /\ pc' = [pc EXCEPT ![w] = "charge"]
            /\ UNCHANGED job
    /\ UNCHANGED <<store, elapsed, ledger, broker>>

\* Slip: an error of the acquirer goes unnoticed.
ChargeUnchecked(w) ==
    /\ pc[w] = "charge"
    /\ \/ ledger' = [ledger EXCEPT ![job[w].msg] = @ + 1]
       \/ UNCHANGED ledger
    /\ job' = [job EXCEPT ![w].verdict = "SUCCEEDED"]
    /\ pc' = [pc EXCEPT ![w] = "finish"]
    /\ UNCHANGED <<store, elapsed, broker>>

\* Slip: an unclear answer of the acquirer makes the handler ask again.
ChargeAgain(w) ==
    /\ pc[w] = "charge"
    /\ \E again \in BOOLEAN :
          /\ ledger' = [ledger EXCEPT ![job[w].msg] = @ + 1]
          /\ job' = IF again THEN job ELSE [job EXCEPT ![w].verdict = "SUCCEEDED"]
          /\ pc' = IF again THEN pc ELSE [pc EXCEPT ![w] = "finish"]
    /\ UNCHANGED <<store, elapsed, broker>>

\* The acquirer charges, for the reservation and on the token of the command,
\* whichever command the row was created for; or it declines.  Any error it
\* returns ends in FAILED, also one that comes after it has charged.
Charge(w) ==
    /\ pc[w] = "charge"
    /\ \/ /\ ledger' = [ledger EXCEPT ![job[w].msg] = @ + 1]
          /\ job' = [job EXCEPT ![w].verdict = "SUCCEEDED"]
       \/ /\ ledger' \in {ledger, [ledger EXCEPT ![job[w].msg] = @ + 1]}
          /\ job' = [job EXCEPT ![w].verdict = "FAILED"]
    /\ pc' = [pc EXCEPT ![w] = "finish"]
    /\ UNCHANGED <<store, elapsed, broker>>

\* Slip: the outcome is written outside the transaction and may get lost.
FinishApart(w) ==
    LET k == cmd(w).key
        o == [key |-> k, res |-> job[w].pay.res, status |-> job[w].verdict]
    IN  /\ pc[w] = "finish"
        /\ payments' = [payments EXCEPT ![k].status = job[w].verdict]
        /\ \/ outbox' = outbox \cup {o} /\ Ack(w)
           \/ Faults /\ Nak(w) /\ UNCHANGED <<outbox, acked>>
        /\ UNCHANGED <<contexts, elapsed, ledger, delivered>>

\* Slip: the outcome names the reservation of the command.
FinishOfCommand(w) ==
    LET k == cmd(w).key IN
    /\ pc[w] = "finish"
    /\ payments' = [payments EXCEPT ![k].status = job[w].verdict]
    /\ outbox' = outbox \cup {[key |-> k, res |-> cmd(w).res, status |-> job[w].verdict]}
    /\ Ack(w)
    /\ UNCHANGED <<contexts, elapsed, ledger, delivered>>

\* finish: status, whatever it was, and outcome in one transaction.
Finish(w) ==
    LET k == cmd(w).key IN
    /\ pc[w] = "finish"
    /\ payments' = [payments EXCEPT ![k].status = job[w].verdict]
    /\ outbox' = outbox \cup {[key |-> k, res |-> job[w].pay.res, status |-> job[w].verdict]}
    /\ Ack(w)
    /\ UNCHANGED <<contexts, elapsed, ledger, delivered>>

\* recordOutcome: the outcome of a decided payment again, from the copy read.
RecordOutcome(w) ==
    LET p == job[w].pay IN
    /\ pc[w] = "record"
    /\ outbox' = outbox \cup {[key |-> cmd(w).key, res |-> p.res, status |-> p.status]}
    /\ Ack(w)
    /\ UNCHANGED <<contexts, elapsed, payments, ledger, delivered>>

\* The replica dies, the wait is cancelled or a statement fails; whatever was
\* committed, and charged, before remains.
GivesUp(w) ==
    /\ Faults
    /\ pc[w] # "idle"
    /\ Nak(w)
    /\ UNCHANGED <<store, elapsed, ledger, broker>>

-----------------------------------------------------------------------------
Handle(w) ==
    \/ WaitContext(w) \/ LoadOrCreate(w) \/ CheckWindow(w)
    \/ Charge(w) \/ Finish(w) \/ RecordOutcome(w)

Next ==
    \/ \E r \in ResId : Project(r) \/ Elapse(r)
    \/ \E w \in Worker :
          \/ \E m \in Msg : Deliver(w, m)
          \/ Handle(w)
          \/ GivesUp(w)

Spec == Init /\ [][Next]_vars

\* A running handler comes to its end, and the broker offers a message that is
\* not acknowledged until its deliveries are used up.
FairSpec ==
    /\ Spec
    /\ \A w \in Worker : WF_vars(Handle(w))
    /\ \A m \in Msg : WF_vars(\E w \in Worker : Deliver(w, m))

-----------------------------------------------------------------------------
(* Properties. *)

\* A payment is decided together with its outcome: as soon as the row says
\* SUCCEEDED or FAILED, the event that tells pulsar-core is in the outbox,
\* whatever fails or dies around it (processor.go finish).
DecidedAnnounced ==
    \A k \in Key : payments[k].status \in Settled =>
        [key |-> k, res |-> payments[k].res, status |-> payments[k].status] \in outbox

\* The acquirer took a charge on a command with key k.
Charged(k) == \E m \in Msg : Command[m].key = k /\ ledger[m] > 0

\* pulsar-core is told payment.succeeded only for a key the acquirer charged,
\* through redeliveries that re-record outcomes from an older read.
SuccessWasCharged == \A o \in outbox : o.status = "SUCCEEDED" => Charged(o.key)

\* An outcome is about the reservation its payment was created for, even when
\* the key is used again for another reservation (processor.go record).
OutcomeBelongs == \A o \in outbox : payments[o.key].res = o.res

\* A payment row exists only for a reservation that pulsar-core announced, and was
\* created on the request of the user who made it (processor.go Handle, the
\* ownership check).  It is the row and not the charge: a later command of another
\* user with the same key resumes the row.
RowOfOwner ==
    \A k \in Key : payments[k] # NoPayment =>
        /\ payments[k].res \in contexts
        /\ \E m \in Msg : Command[m] = [res |-> payments[k].res, key |-> k,
                                        user |-> Owner[payments[k].res]]

\* How far the workers have got, as attempts of PaymentLedger.
Reached(w) == IF pc[w] = "finish" THEN job[w].verdict ELSE pc[w]

Underway == {<<job[w].msg, Reached(w)>> : w \in {v \in Worker : pc[v] \in {"window", "charge", "finish"}}}

Ledger == INSTANCE PaymentLedger WITH
    charged  <- {m \in Msg : ledger[m] > 0},
    underway <- Underway

\* Workers, deliveries, waits, crashes and lost acks add nothing to what
\* PaymentLedger allows: in particular a re-recorded outcome is one that was
\* recorded before, and no charge is taken without a window check.
Refinement == Ledger!Spec

\* No key has both payment.succeeded and payment.failed in the outbox.
OneOutcome ==
    \A o, p \in outbox : o.key = p.key => o.status = p.status

\* processor.go: redelivered commands resume from the stored payment instead of
\* charging again; so no key is charged twice, on one command or on two.
ChargedOnce ==
    \A m, n \in Msg :
        /\ ledger[m] <= 1
        /\ ledger[m] > 0 /\ ledger[n] > 0 /\ Command[m].key = Command[n].key => m = n

\* How much crashes, redeliveries and overlaps can cost: a command is charged at
\* most once for each of its deliveries (processor.go Handle).
ChargesBounded == \A m \in Msg : ledger[m] <= delivered[m]

\* The deliveries of a message are used up and no handler is at it any more.
DeadLettered(m) ==
    /\ m \notin acked
    /\ delivered[m] = MaxDeliver
    /\ \A w \in Worker : job[w].msg # m

\* No payment command is lost in silence, nor left waiting: not by an owner whose
\* reservation the projection does not have yet, not by a handler that dies
\* between the charge and the outcome.  It is acknowledged with its payment
\* decided, or it ends in the dead-letter queue (processor.go waitContext, Handle).
CommandSettles ==
    \A m \in Msg :
        delivered[m] > 0 ~>
            \/ m \in acked /\ payments[Command[m].key].status \in Settled
            \/ DeadLettered(m)
=============================================================================
