---------------------------- MODULE PaymentLedger ----------------------------
(***************************************************************************)
(* What pulsar-payment promises, without workers, deliveries, waits or     *)
(* acknowledgements: a command is an attempt that goes from the payment    *)
(* row to the window, the charge and the outcome.  Attempts of one command *)
(* overlap and are given up anywhere, and what an attempt has found out    *)
(* stays good for as long as it goes on.  PaymentProcessor is shown to     *)
(* implement this specification.                                           *)
(***************************************************************************)
EXTENDS Payments

VARIABLES
    contexts,   \* reservation_context: the reservations projected so far
    elapsed,    \* reservations whose expires_at has passed
    payments,   \* payments: the row of each idempotency key
    outbox,     \* outbox_events: the outcomes recorded
    charged,    \* commands on which the acquirer took a charge
    underway    \* how far attempts at each command have got

vars == <<contexts, elapsed, payments, outbox, charged, underway>>

\* An attempt is about to look at the window, to charge, or to record an outcome.
Step == {"window", "charge"} \cup Settled

Init ==
    /\ contexts = {}
    /\ elapsed = {}
    /\ payments = [k \in Key |-> NoPayment]
    /\ outbox = {}
    /\ charged = {}
    /\ underway = {}

Project(r) ==
    /\ r \notin contexts
    /\ contexts' = contexts \cup {r}
    /\ UNCHANGED <<elapsed, payments, outbox, charged, underway>>

Elapse(r) ==
    /\ r \notin elapsed
    /\ elapsed' = elapsed \cup {r}
    /\ UNCHANGED <<contexts, payments, outbox, charged, underway>>

\* Slip: whoever submits the payment is taken for the owner.
BeginOfAnyone(m) ==
    LET c == Command[m] IN
    /\ c.res \in contexts
    /\ payments[c.key] = NoPayment \/ payments[c.key].status = "PENDING"
    /\ payments' = IF payments[c.key] = NoPayment
                   THEN [payments EXCEPT ![c.key] = [res |-> c.res, status |-> "PENDING"]]
                   ELSE payments
    /\ underway' = underway \cup {<<m, "window">>}
    /\ UNCHANGED <<contexts, elapsed, outbox, charged>>

\* The row of the key is created for the command, or resumed while undecided.
Begin(m) ==
    LET c == Command[m] IN
    /\ c.res \in contexts /\ Owner[c.res] = c.user
    /\ payments[c.key] = NoPayment \/ payments[c.key].status = "PENDING"
    /\ payments' = IF payments[c.key] = NoPayment
                   THEN [payments EXCEPT ![c.key] = [res |-> c.res, status |-> "PENDING"]]
                   ELSE payments
    /\ underway' = underway \cup {<<m, "window">>}
    /\ UNCHANGED <<contexts, elapsed, outbox, charged>>

\* An attempt gets on; another one may still be where it was.
Goes(m, from, to) ==
    /\ <<m, from>> \in underway
    /\ \E left \in {underway, underway \ {<<m, from>>}} : underway' = left \cup to

CheckWindow(m) ==
    /\ Goes(m, "window",
            {<<m, IF Command[m].res \in elapsed THEN "FAILED" ELSE "charge">>})
    /\ UNCHANGED <<contexts, elapsed, payments, outbox, charged>>

\* The acquirer charges on what the command carries, or declines; an error it
\* returns after it has charged counts as a refusal all the same.
Charge(m) ==
    /\ \/ /\ Goes(m, "charge", {<<m, "SUCCEEDED">>})
          /\ charged' = charged \cup {m}
       \/ /\ Goes(m, "charge", {<<m, "FAILED">>})
          /\ charged' \in {charged, charged \cup {m}}
    /\ UNCHANGED <<contexts, elapsed, payments, outbox>>

\* Slip: the outcome names the reservation of the command.
FinishOfCommand(m, s) ==
    LET k == Command[m].key IN
    /\ Goes(m, s, {})
    /\ payments' = [payments EXCEPT ![k].status = s]
    /\ outbox' = outbox \cup {[key |-> k, res |-> Command[m].res, status |-> s]}
    /\ UNCHANGED <<contexts, elapsed, charged>>

\* The row and its outcome, which is about the reservation of the row.
Finish(m, s) ==
    LET k == Command[m].key IN
    /\ Goes(m, s, {})
    /\ payments' = [payments EXCEPT ![k].status = s]
    /\ outbox' = outbox \cup {[key |-> k, res |-> payments[k].res, status |-> s]}
    /\ UNCHANGED <<contexts, elapsed, charged>>

GiveUp(m, s) ==
    /\ <<m, s>> \in underway
    /\ underway' = underway \ {<<m, s>>}
    /\ UNCHANGED <<contexts, elapsed, payments, outbox, charged>>

Attempt(m) ==
    \/ CheckWindow(m) \/ Charge(m)
    \/ \E s \in Settled : Finish(m, s)
    \/ \E s \in Step : GiveUp(m, s)

Next ==
    \/ \E r \in ResId : Project(r) \/ Elapse(r)
    \/ \E m \in Msg : Begin(m) \/ Attempt(m)

Spec == Init /\ [][Next]_vars
=============================================================================
