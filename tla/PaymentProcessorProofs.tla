------------------------ MODULE PaymentProcessorProofs ------------------------
(***************************************************************************)
(* Proofs about PaymentProcessor, for any number of workers, messages,     *)
(* keys and reservations, and whatever is redelivered, fails or dies.      *)
(*                                                                         *)
(* A handler works on a copy of the payment that it read some steps ago,   *)
(* and carries a charge result.  Both are good when they are used, because *)
(* the reservation of a payment row never changes and the acquirer's       *)
(* ledger only grows (CopyInv, VerdictInv).                                *)
(*                                                                         *)
(* Of what it costs that the charge is taken before anything is stored     *)
(* about it: every charge was preceded by a delivery of its own            *)
(* (BudgetOf); one key gets two outcomes only where handlers of it         *)
(* overlap, and two charges only there or where something fails.           *)
(***************************************************************************)
EXTENDS PaymentProcessor, TLAPS, FiniteSetTheorems

\* A handler past the ownership check serves the owner of a known reservation.
OwnerInv ==
    \A w \in Worker : pc[w] \notin {"idle", "context"} =>
        cmd(w).res \in contexts /\ Owner[cmd(w).res] = cmd(w).user

\* Its copy of the payment is for the reservation of the row.
CopyInv ==
    \A w \in Worker : pc[w] \in {"window", "charge", "finish", "record"} =>
        /\ job[w].pay \in Payment
        /\ payments[cmd(w).key] \in Payment
        /\ job[w].pay.res = payments[cmd(w).key].res

\* The status a handler is about to announce is decided, and a success charged.
VerdictInv ==
    \A w \in Worker :
        /\ pc[w] = "finish" =>
              /\ job[w].verdict \in Settled
              /\ job[w].verdict = "SUCCEEDED" => Charged(cmd(w).key)
        /\ pc[w] = "record" =>
              /\ job[w].pay.status \in Settled
              /\ job[w].pay.status = "SUCCEEDED" => Charged(cmd(w).key)

\* A payment that succeeded was charged.
ChargeInv == \A k \in Key : payments[k].status = "SUCCEEDED" => Charged(k)

IInv ==
    /\ TypeOK /\ OwnerInv /\ CopyInv /\ VerdictInv /\ ChargeInv
    /\ DecidedAnnounced /\ SuccessWasCharged /\ OutcomeBelongs /\ RowOfOwner

-----------------------------------------------------------------------------
\* A busy worker works on a known message.
LEMMA CommandTypes ==
    ASSUME TypeOK, NEW w \in Worker, pc[w] # "idle"
    PROVE  /\ job[w] \in Job /\ job[w].msg \in Msg
           /\ Command[job[w].msg] \in [res : ResId, user : UserId, key : Key]
           /\ cmd(w).res \in ResId /\ cmd(w).user \in UserId /\ cmd(w).key \in Key
<1>1. job[w] \in Job
    BY DEF TypeOK
<1>2. job[w].msg \in Msg
    BY <1>1 DEF Job
<1> QED BY <1>1, <1>2, PaymentAssumption DEF cmd

\* No reservation is called None, so a payment row is not NoPayment.
LEMMA NoPaymentApart == NoPayment \notin Payment /\ NoPayment.status = "NONE" /\ NoPayment.res = None
BY PaymentAssumption DEF NoPayment, Payment

\* What leaving the handler does to the types.
LEMMA NakTypes ==
    ASSUME TypeOK, NEW w \in Worker, Nak(w)
    PROVE  /\ pc' \in [Worker -> Pc]
           /\ job' \in [Worker -> Job \cup {NoJob}]
           /\ \A v \in Worker : pc'[v] # "idle" => job'[v] \in Job
BY DEF TypeOK, Nak, Pc

\* What acknowledging does to the types.
LEMMA AckTypes ==
    ASSUME TypeOK, NEW w \in Worker, pc[w] # "idle", Ack(w)
    PROVE  /\ acked' \subseteq Msg
           /\ pc' \in [Worker -> Pc]
           /\ job' \in [Worker -> Job \cup {NoJob}]
           /\ \A v \in Worker : pc'[v] # "idle" => job'[v] \in Job
BY NakTypes, CommandTypes DEF Ack, TypeOK

\* Every step keeps the types; a handler about to finish has a verdict.
LEMMA TypeStep == TypeOK /\ OwnerInv /\ CopyInv /\ VerdictInv /\ [Next]_vars => TypeOK'
<1> SUFFICES ASSUME TypeOK, OwnerInv, CopyInv, VerdictInv, [Next]_vars PROVE TypeOK'
    OBVIOUS
<1>1. ASSUME NEW r \in ResId, Project(r) \/ Elapse(r) PROVE TypeOK'
    BY <1>1 DEF Project, Elapse, TypeOK, store, broker
<1>2. ASSUME NEW w \in Worker, NEW m \in Msg, Deliver(w, m) PROVE TypeOK'
    <2>1. [NoJob EXCEPT !.msg = m] \in Job
        BY PaymentAssumption, ProcessorAssumption DEF NoJob, Job
    <2>2. delivered[m] + 1 \in 0..MaxDeliver
        <3>1. delivered[m] \in 0..MaxDeliver /\ delivered[m] < MaxDeliver /\ MaxDeliver \in Nat
            BY <1>2, ProcessorAssumption DEF Deliver, TypeOK
        <3> QED BY <3>1
    <2>3. delivered' \in [Msg -> 0..MaxDeliver]
        BY <1>2, <2>2 DEF Deliver, TypeOK
    <2> QED BY <1>2, <2>1, <2>3 DEF Deliver, TypeOK, Pc, store
<1>3. ASSUME NEW w \in Worker, WaitContext(w) PROVE TypeOK'
    <2>1. CASE Nak(w)
        BY <1>3, <2>1, NakTypes DEF WaitContext, TypeOK, store, broker
    <2>2. CASE ~Nak(w)
        <3>1. job[w] \in Job
            BY <1>3, CommandTypes DEF WaitContext
        <3>2. job[w].waits < MaxWait => [job[w] EXCEPT !.waits = @ + 1] \in Job
            BY <3>1, ProcessorAssumption DEF Job
        <3>3. [job[w] EXCEPT !.waits = 0] \in Job
            BY <3>1, ProcessorAssumption DEF Job
        <3>4. /\ pc' \in [Worker -> Pc]
              /\ \E j \in Job : job' = [job EXCEPT ![w] = j]
            BY <1>3, <2>2, <3>1, <3>2, <3>3 DEF WaitContext, TypeOK, Pc
        <3>5. \A v \in Worker : pc'[v] # "idle" /\ v # w => pc[v] # "idle"
            BY <1>3, <2>2 DEF WaitContext, TypeOK
        <3>6. /\ job' \in [Worker -> Job \cup {NoJob}]
              /\ \A v \in Worker : pc'[v] # "idle" => job'[v] \in Job
            BY <3>4, <3>5 DEF TypeOK
        <3> QED BY <1>3, <3>4, <3>6 DEF WaitContext, TypeOK, store, broker
    <2> QED BY <2>1, <2>2
<1>4. ASSUME NEW w \in Worker, LoadOrCreate(w) PROVE TypeOK'
    <2> DEFINE k == cmd(w).key
    <2>1. k \in Key /\ cmd(w).res \in ResId /\ job[w] \in Job
        BY <1>4, CommandTypes DEF LoadOrCreate
    <2>2. [res |-> cmd(w).res, status |-> "PENDING"] \in Payment
        BY <2>1 DEF Payment, PaymentStatus
    <2>3. payments' \in [Key -> Payment \cup {NoPayment}] /\ payments'[k] \in Payment
        BY <1>4, <2>1, <2>2 DEF LoadOrCreate, TypeOK
    <2>4. [job[w] EXCEPT !.pay = payments'[k]] \in Job
        BY <2>1, <2>3 DEF Job
    <2> QED BY <1>4, <2>1, <2>3, <2>4 DEF LoadOrCreate, TypeOK, Pc, broker
<1>5. ASSUME NEW w \in Worker, CheckWindow(w) \/ Charge(w) PROVE TypeOK'
    <2>1. job[w] \in Job /\ job[w].msg \in Msg
        BY <1>5, CommandTypes DEF CheckWindow, Charge
    <2>2. \A s \in Settled : [job[w] EXCEPT !.verdict = s] \in Job
        BY <2>1 DEF Job
    <2>3. ledger' \in [Msg -> Nat]
        BY <1>5, <2>1 DEF CheckWindow, Charge, TypeOK
    <2>4. /\ pc' \in [Worker -> Pc] /\ job' \in [Worker -> Job \cup {NoJob}]
          /\ \A v \in Worker : pc'[v] # "idle" => job'[v] \in Job
        BY <1>5, <2>1, <2>2 DEF CheckWindow, Charge, TypeOK, Pc, Settled
    <2> QED BY <1>5, <2>3, <2>4 DEF CheckWindow, Charge, TypeOK, store, broker
<1>6. ASSUME NEW w \in Worker, Finish(w) PROVE TypeOK'
    <2>1. cmd(w).key \in Key /\ job[w].verdict \in Settled /\ job[w].pay \in Payment
          /\ payments[cmd(w).key] \in Payment
        BY <1>6, CommandTypes DEF Finish, VerdictInv, CopyInv
    <2>2. [payments[cmd(w).key] EXCEPT !.status = job[w].verdict] \in Payment
        BY <2>1 DEF Payment, Settled, PaymentStatus
    <2>3. [key |-> cmd(w).key, res |-> job[w].pay.res, status |-> job[w].verdict] \in Outcome
        BY <2>1 DEF Payment, Outcome
    <2>4. payments' \in [Key -> Payment \cup {NoPayment}] /\ outbox' \subseteq Outcome
        BY <1>6, <2>1, <2>2, <2>3 DEF Finish, TypeOK
    <2> QED BY <1>6, <2>4, AckTypes DEF Finish, TypeOK
<1>7. ASSUME NEW w \in Worker, RecordOutcome(w) PROVE TypeOK'
    <2>1. cmd(w).key \in Key /\ job[w].pay.status \in Settled /\ job[w].pay \in Payment
        BY <1>7, CommandTypes DEF RecordOutcome, VerdictInv, CopyInv
    <2>2. [key |-> cmd(w).key, res |-> job[w].pay.res, status |-> job[w].pay.status] \in Outcome
        BY <2>1 DEF Payment, Outcome
    <2> QED BY <1>7, <2>2, AckTypes DEF RecordOutcome, TypeOK
<1>8. ASSUME NEW w \in Worker, GivesUp(w) PROVE TypeOK'
    BY <1>8, NakTypes DEF GivesUp, TypeOK, store, broker
<1>9. CASE UNCHANGED vars
    BY <1>9 DEF vars, TypeOK
<1> QED BY <1>1, <1>2, <1>3, <1>4, <1>5, <1>6, <1>7, <1>8, <1>9 DEF Next, Handle
-----------------------------------------------------------------------------
\* Nothing is taken back: the projection and the acquirer's ledger only grow,
\* and a payment stays with its reservation.
LEMMA Grows ==
    ASSUME IInv, [Next]_vars
    PROVE  /\ contexts \subseteq contexts'
           /\ \A k \in Key : /\ Charged(k) => Charged(k)'
                             /\ payments[k] \in Payment =>
                                   payments'[k] \in Payment /\ payments'[k].res = payments[k].res
<1>1. TypeOK /\ VerdictInv
    BY DEF IInv
<1>2. ASSUME NEW r \in ResId, Project(r) \/ Elapse(r)
      PROVE  contexts \subseteq contexts' /\ UNCHANGED <<payments, ledger>>
    BY <1>2 DEF Project, Elapse, store
<1>3. ASSUME NEW w \in Worker,
             \/ \E m \in Msg : Deliver(w, m)
             \/ WaitContext(w) \/ CheckWindow(w) \/ RecordOutcome(w) \/ GivesUp(w)
      PROVE  UNCHANGED <<contexts, payments, ledger>>
    BY <1>3 DEF Deliver, WaitContext, CheckWindow, RecordOutcome, GivesUp, store
<1>4. ASSUME NEW w \in Worker, LoadOrCreate(w)
      PROVE  /\ UNCHANGED <<contexts, ledger>>
             /\ \A k \in Key : payments[k] \in Payment => payments'[k] = payments[k]
    BY <1>1, <1>4, NoPaymentApart DEF LoadOrCreate, TypeOK
<1>5. ASSUME NEW w \in Worker, Charge(w)
      PROVE  /\ UNCHANGED <<contexts, payments>>
             /\ \A m \in Msg : ledger[m] > 0 => ledger'[m] > 0
    <2>1. job[w].msg \in Msg
        BY <1>1, <1>5, CommandTypes DEF Charge
    <2>2. ledger \in [Msg -> Nat]
        BY <1>1 DEF TypeOK
    <2>3. ledger' = ledger \/ ledger' = [ledger EXCEPT ![job[w].msg] = @ + 1]
        BY <1>5 DEF Charge
    <2>4. \A m \in Msg : ledger[m] > 0 => ledger'[m] > 0
        BY <2>1, <2>2, <2>3
    <2> QED BY <1>5, <2>4 DEF Charge, store
<1>6. ASSUME NEW w \in Worker, Finish(w)
      PROVE  /\ UNCHANGED <<contexts, ledger>>
             /\ \A k \in Key : payments[k] \in Payment =>
                   payments'[k] \in Payment /\ payments'[k].res = payments[k].res
    <2>1. cmd(w).key \in Key /\ job[w].verdict \in PaymentStatus
        BY <1>1, <1>6, CommandTypes DEF Finish, VerdictInv, Settled, PaymentStatus
    <2>2. payments' = [payments EXCEPT ![cmd(w).key].status = job[w].verdict]
        BY <1>6 DEF Finish
    <2>3. ASSUME NEW p \in Payment
          PROVE  /\ [p EXCEPT !.status = job[w].verdict] \in Payment
                 /\ [p EXCEPT !.status = job[w].verdict].res = p.res
        BY <2>1 DEF Payment
    <2>4. \A k \in Key : payments'[k] = IF k = cmd(w).key
                                        THEN [payments[k] EXCEPT !.status = job[w].verdict]
                                        ELSE payments[k]
        BY <1>1, <2>1, <2>2 DEF TypeOK
    <2> QED BY <1>6, <2>3, <2>4 DEF Finish
<1>7. ASSUME UNCHANGED vars PROVE UNCHANGED <<contexts, payments, ledger>>
    BY <1>7 DEF vars
<1>8. ASSUME \A m \in Msg : ledger[m] > 0 => ledger'[m] > 0, NEW k \in Key, Charged(k)
      PROVE  Charged(k)'
    BY <1>8 DEF Charged
<1> QED BY <1>2, <1>3, <1>4, <1>5, <1>6, <1>7, <1>8 DEF Next, Handle

\* A handler's copy, verdict and right to pay are still good when it uses them.
LEMMA WorkerStep ==
    ASSUME IInv, [Next]_vars PROVE (OwnerInv /\ CopyInv /\ VerdictInv)'
<1> DEFINE Good(v) ==
        /\ pc[v] \notin {"idle", "context"} =>
              cmd(v).res \in contexts /\ Owner[cmd(v).res] = cmd(v).user
        /\ pc[v] \in {"window", "charge", "finish", "record"} =>
              /\ job[v].pay \in Payment
              /\ payments[cmd(v).key] \in Payment
              /\ job[v].pay.res = payments[cmd(v).key].res
        /\ pc[v] = "finish" =>
              /\ job[v].verdict \in Settled
              /\ job[v].verdict = "SUCCEEDED" => Charged(cmd(v).key)
        /\ pc[v] = "record" =>
              /\ job[v].pay.status \in Settled
              /\ job[v].pay.status = "SUCCEEDED" => Charged(cmd(v).key)
<1> SUFFICES ASSUME NEW v \in Worker PROVE Good(v)'
    BY DEF OwnerInv, CopyInv, VerdictInv
<1>1. TypeOK /\ ChargeInv /\ Good(v)
    BY DEF IInv, OwnerInv, CopyInv, VerdictInv
<1>2. pc[v] # "idle" => cmd(v).key \in Key /\ cmd(v).res \in ResId /\ job[v] \in Job
    BY <1>1, CommandTypes
<1>3. CASE pc'[v] = "idle" \/ pc'[v] = "context"
    BY <1>3
<1>4. CASE pc'[v] = pc[v] /\ job'[v] = job[v]
    BY <1>1, <1>2, <1>4, Grows DEF cmd
<1>5. ASSUME NEW w \in Worker, WaitContext(w), v = w PROVE Good(v)'
    <2>1. CASE pc'[v] = "payment"
        <3>1. /\ pc[v] = "context" /\ job[v] \in Job
              /\ cmd(v).res \in contexts /\ Owner[cmd(v).res] = cmd(v).user
              /\ job'[v] = [job[v] EXCEPT !.waits = 0]
              /\ UNCHANGED contexts
            BY <1>1, <1>2, <1>5, <2>1 DEF WaitContext, Nak, TypeOK, store
        <3>2. job'[v].msg = job[v].msg
            BY <3>1 DEF Job
        <3> QED BY <2>1, <3>1, <3>2 DEF cmd
    <2>2. CASE pc'[v] # "payment"
        BY <1>1, <1>5, <2>2 DEF WaitContext, Nak, TypeOK
    <2> QED BY <2>1, <2>2
<1>6. ASSUME LoadOrCreate(v) PROVE Good(v)'
    <2> DEFINE k == cmd(v).key
    <2>1. /\ pc[v] = "payment" /\ k \in Key /\ cmd(v).res \in ResId /\ job[v] \in Job
          /\ UNCHANGED <<contexts, ledger>>
        BY <1>2, <1>6 DEF LoadOrCreate
    <2>2. payments'[k] \in Payment /\ (payments'[k] # payments[k] => payments'[k].status = "PENDING")
        BY <1>1, <1>6, <2>1 DEF LoadOrCreate, TypeOK, Payment, PaymentStatus
    <2>3. /\ job'[v] = [job[v] EXCEPT !.pay = payments'[k]]
          /\ pc'[v] = IF payments'[k].status = "PENDING" THEN "window" ELSE "record"
        BY <1>1, <1>6 DEF LoadOrCreate, TypeOK
    <2>4. job'[v].msg = job[v].msg /\ job'[v].pay = payments'[k]
        BY <2>1, <2>3 DEF Job
    <2>5. cmd(v)' = cmd(v)
        BY <2>4 DEF cmd
    <2>6. pc'[v] = "record" => /\ payments'[k].status \in Settled
                               /\ payments'[k].status = "SUCCEEDED" => Charged(k)'
        <3>1. pc'[v] = "record" => payments'[k] = payments[k] /\ payments'[k].status # "PENDING"
            BY <2>2, <2>3
        <3>2. Charged(k) => Charged(k)'
            BY <2>1, <2>5, Grows
        <3> QED BY <1>1, <2>1, <2>2, <3>1, <3>2 DEF ChargeInv, Payment, PaymentStatus, Settled
    <2> HIDE DEF k
    <2>7. pc'[v] \in {"window", "record"}
        BY <2>3
    <2> QED BY <1>1, <2>1, <2>2, <2>4, <2>5, <2>6, <2>7 DEF k
<1>7. ASSUME CheckWindow(v) PROVE Good(v)'
    <2>1. /\ pc[v] = "window" /\ pc'[v] \in {"charge", "finish"}
          /\ UNCHANGED <<contexts, payments, ledger>>
          /\ job'[v] = job[v] \/ job'[v] = [job[v] EXCEPT !.verdict = "FAILED"]
          /\ pc'[v] = "finish" => job'[v] = [job[v] EXCEPT !.verdict = "FAILED"]
        BY <1>1, <1>7 DEF CheckWindow, TypeOK, store
    <2>2. /\ job'[v].msg = job[v].msg /\ job'[v].pay = job[v].pay
          /\ pc'[v] = "finish" => job'[v].verdict = "FAILED"
        BY <1>2, <2>1 DEF Job
    <2> QED BY <1>1, <2>1, <2>2 DEF cmd, Settled
<1>8. ASSUME Charge(v) PROVE Good(v)'
    <2> DEFINE k == cmd(v).key
    <2>1. /\ pc[v] = "charge" /\ pc'[v] = "finish" /\ k \in Key
          /\ UNCHANGED <<contexts, payments>>
          /\ \E s \in Settled : job'[v] = [job[v] EXCEPT !.verdict = s]
        BY <1>1, <1>2, <1>8 DEF Charge, TypeOK, store, Settled
    <2>2. /\ job'[v].msg = job[v].msg /\ job'[v].pay = job[v].pay
          /\ job'[v].verdict \in Settled
        BY <1>2, <2>1 DEF Job
    <2>3. job'[v].verdict = "SUCCEEDED" => Charged(k)'
        <3>1. job[v].msg \in Msg /\ ledger \in [Msg -> Nat]
            BY <1>1, <2>1, CommandTypes DEF TypeOK
        <3>2. \/ ledger'[job[v].msg] = ledger[job[v].msg] + 1
              \/ job'[v] = [job[v] EXCEPT !.verdict = "FAILED"]
            BY <1>1, <1>8, <2>1, <3>1 DEF Charge, TypeOK
        <3>3. ledger'[job[v].msg] = ledger[job[v].msg] + 1 => ledger'[job[v].msg] > 0
            BY <3>1
        <3>4. ledger'[job[v].msg] > 0 => Charged(k)'
            BY <2>2, <3>1 DEF Charged, cmd
        <3> QED BY <1>2, <2>1, <3>2, <3>3, <3>4 DEF Job
    <2> QED BY <1>1, <2>1, <2>2, <2>3 DEF cmd
<1> QED
    <2>1. ASSUME NEW w \in Worker, w # v, Handle(w) \/ GivesUp(w) \/ \E m \in Msg : Deliver(w, m)
          PROVE  pc'[v] = pc[v] /\ job'[v] = job[v]
        BY <1>1, <2>1 DEF Handle, GivesUp, Deliver, WaitContext, LoadOrCreate, CheckWindow,
                          Charge, Finish, RecordOutcome, Ack, Nak, TypeOK
    <2>2. ASSUME \/ Finish(v) \/ RecordOutcome(v) \/ GivesUp(v)
                 \/ \E m \in Msg : Deliver(v, m)
          PROVE  pc'[v] = "idle" \/ pc'[v] = "context"
        BY <1>1, <2>2 DEF Finish, RecordOutcome, GivesUp, Deliver, Ack, Nak, TypeOK
    <2>3. ASSUME NEW r \in ResId, Project(r) \/ Elapse(r) PROVE UNCHANGED <<pc, job>>
        BY <2>3 DEF Project, Elapse
    <2>4. CASE UNCHANGED vars
        BY <1>4, <2>4 DEF vars
    <2> QED BY <1>3, <1>4, <1>5, <1>6, <1>7, <1>8, <2>1, <2>2, <2>3, <2>4 DEF Next, Handle

-----------------------------------------------------------------------------
\* What is in the database keeps agreeing with itself and with the acquirer.
LEMMA StoreStep ==
    ASSUME IInv, [Next]_vars
    PROVE  (ChargeInv /\ DecidedAnnounced /\ SuccessWasCharged /\ OutcomeBelongs)'
<1>1. TypeOK /\ CopyInv /\ VerdictInv /\ ChargeInv /\ DecidedAnnounced /\ SuccessWasCharged /\ OutcomeBelongs
    BY DEF IInv
<1>0. \A k \in Key : Charged(k) => Charged(k)'
    BY Grows
<1> DEFINE Goal == (ChargeInv /\ DecidedAnnounced /\ SuccessWasCharged /\ OutcomeBelongs)'
<1>2. CASE UNCHANGED <<payments, outbox>>
    <2>2. outbox \subseteq Outcome
        BY <1>1 DEF TypeOK
    <2> QED BY <1>0, <1>1, <1>2, <2>2
            DEF ChargeInv, DecidedAnnounced, SuccessWasCharged, OutcomeBelongs, Outcome
<1>3. ASSUME NEW w \in Worker, LoadOrCreate(w) PROVE Goal
    <2>1. UNCHANGED outbox /\ outbox \subseteq Outcome
        BY <1>1, <1>3 DEF LoadOrCreate, TypeOK
    <2>2. \A k \in Key : payments'[k] = payments[k]
             \/ (payments[k] = NoPayment /\ payments'[k].status = "PENDING")
        BY <1>1, <1>3 DEF LoadOrCreate, TypeOK
    <2>3. \A o \in outbox : o.key \in Key /\ payments[o.key] # NoPayment
        BY <1>1, <2>1, PaymentAssumption, NoPaymentApart DEF OutcomeBelongs, Outcome
    <2> QED BY <1>0, <1>1, <2>1, <2>2, <2>3
            DEF ChargeInv, DecidedAnnounced, SuccessWasCharged, OutcomeBelongs, Settled
<1>4. ASSUME NEW w \in Worker, Finish(w) PROVE Goal
    <2> DEFINE k == cmd(w).key
               s == job[w].verdict
               o == [key |-> k, res |-> job[w].pay.res, status |-> s]
    <2>1. /\ k \in Key /\ s \in Settled /\ payments[k] \in Payment
          /\ job[w].pay.res = payments[k].res
          /\ s = "SUCCEEDED" => Charged(k)
        BY <1>1, <1>4, CommandTypes DEF Finish, CopyInv, VerdictInv
    <2>2. outbox' = outbox \cup {o} /\ outbox \subseteq Outcome
        BY <1>1, <1>4 DEF Finish, TypeOK
    <2>3. /\ payments'[k].status = s /\ payments'[k].res = payments[k].res
          /\ \A j \in Key \ {k} : payments'[j] = payments[j]
        BY <1>1, <1>4, <2>1 DEF Finish, TypeOK, Payment
    <2>4. o.key = k /\ o.res = payments[k].res /\ o.status = s
          /\ o = [key |-> k, res |-> payments[k].res, status |-> s]
        BY <2>1
    <2> HIDE DEF k, s, o
    <2>5. ChargeInv'
        BY <1>0, <1>1, <2>1, <2>3 DEF ChargeInv
    <2>6. DecidedAnnounced'
        <3> SUFFICES ASSUME NEW j \in Key, payments'[j].status \in Settled
                     PROVE  [key |-> j, res |-> payments'[j].res, status |-> payments'[j].status] \in outbox'
            BY DEF DecidedAnnounced
        <3>1. CASE j = k
            BY <2>2, <2>3, <2>4, <3>1
        <3>2. CASE j # k
            BY <1>1, <2>2, <2>3, <3>2 DEF DecidedAnnounced
        <3> QED BY <3>1, <3>2
    <2>7. SuccessWasCharged'
        BY <1>0, <1>1, <2>1, <2>2, <2>4 DEF SuccessWasCharged, Outcome
    <2>8. OutcomeBelongs'
        BY <1>1, <2>2, <2>3, <2>4 DEF OutcomeBelongs, Outcome
    <2> QED BY <2>5, <2>6, <2>7, <2>8
<1>5. ASSUME NEW w \in Worker, RecordOutcome(w) PROVE Goal
    <2> DEFINE k == cmd(w).key
               o == [key |-> k, res |-> job[w].pay.res, status |-> job[w].pay.status]
    <2>1. /\ k \in Key
          /\ job[w].pay.res = payments[k].res
          /\ job[w].pay.status = "SUCCEEDED" => Charged(k)
        BY <1>1, <1>5, CommandTypes DEF RecordOutcome, CopyInv, VerdictInv
    <2>2. outbox' = outbox \cup {o} /\ UNCHANGED payments /\ outbox \subseteq Outcome
        BY <1>1, <1>5 DEF RecordOutcome, TypeOK
    <2>3. o.key = k /\ o.res = payments[k].res /\ (o.status = "SUCCEEDED" => Charged(k))
        BY <2>1
    <2> HIDE DEF k, o
    <2> QED BY <1>0, <1>1, <2>1, <2>2, <2>3
            DEF ChargeInv, DecidedAnnounced, SuccessWasCharged, OutcomeBelongs, Outcome
<1>6. ASSUME NEW w \in Worker,
             \/ \E m \in Msg : Deliver(w, m)
             \/ WaitContext(w) \/ CheckWindow(w) \/ Charge(w) \/ GivesUp(w)
      PROVE  UNCHANGED <<payments, outbox>>
    BY <1>6 DEF Deliver, WaitContext, CheckWindow, Charge, GivesUp, store
<1>7. ASSUME NEW r \in ResId, Project(r) \/ Elapse(r) PROVE UNCHANGED <<payments, outbox>>
    BY <1>7 DEF Project, Elapse, store
<1>8. CASE UNCHANGED vars
    BY <1>2, <1>8 DEF vars
<1> QED BY <1>2, <1>3, <1>4, <1>5, <1>6, <1>7, <1>8 DEF Next, Handle

\* A payment row is only ever created past the ownership check.
LEMMA OwnerStep ==
    ASSUME IInv, [Next]_vars PROVE RowOfOwner'
<1>1. TypeOK /\ OwnerInv /\ RowOfOwner
    BY DEF IInv
<1> SUFFICES ASSUME NEW k \in Key, payments'[k] # NoPayment
             PROVE  /\ payments'[k].res \in contexts'
                    /\ \E m \in Msg : Command[m] = [res |-> payments'[k].res, key |-> k,
                                                    user |-> Owner[payments'[k].res]]
    BY DEF RowOfOwner
<1>2. CASE payments[k] # NoPayment
    <2>1. payments[k] \in Payment
        BY <1>1, <1>2 DEF TypeOK
    <2>2. contexts \subseteq contexts' /\ payments'[k].res = payments[k].res
        BY <2>1, Grows
    <2> QED BY <1>1, <1>2, <2>2 DEF RowOfOwner
<1>3. CASE payments[k] = NoPayment
    <2>1. PICK w \in Worker : LoadOrCreate(w) \/ Finish(w)
        <3>1. ASSUME NEW w \in Worker,
                     \/ \E m \in Msg : Deliver(w, m)
                     \/ WaitContext(w) \/ CheckWindow(w) \/ Charge(w) \/ GivesUp(w) \/ RecordOutcome(w)
              PROVE  UNCHANGED payments
            BY <3>1 DEF Deliver, WaitContext, CheckWindow, Charge, GivesUp, RecordOutcome, store
        <3>2. ASSUME NEW r \in ResId, Project(r) \/ Elapse(r) PROVE UNCHANGED payments
            BY <3>2 DEF Project, Elapse, store
        <3> QED BY <1>3, <3>1, <3>2 DEF Next, Handle, vars
    <2>2. CASE Finish(w)
        <3>1. payments[cmd(w).key] \in Payment /\ cmd(w).key \in Key
            BY <1>1, <2>2, CommandTypes DEF Finish, IInv, CopyInv
        <3> QED BY <1>1, <1>3, <2>2, <3>1, NoPaymentApart DEF Finish, TypeOK
    <2>3. CASE LoadOrCreate(w)
        <3>1. /\ job[w].msg \in Msg
              /\ Command[job[w].msg] \in [res : ResId, user : UserId, key : Key]
              /\ cmd(w).res \in contexts /\ Owner[cmd(w).res] = cmd(w).user
              /\ UNCHANGED contexts
            BY <1>1, <2>3, CommandTypes DEF LoadOrCreate, OwnerInv
        <3>2. cmd(w).key = k /\ payments'[k].res = cmd(w).res
            BY <1>1, <1>3, <2>3 DEF LoadOrCreate, TypeOK
        <3>3. Command[job[w].msg] = [res |-> cmd(w).res, key |-> k, user |-> Owner[cmd(w).res]]
            BY <3>1, <3>2 DEF cmd
        <3> QED BY <3>1, <3>2, <3>3
    <2> QED BY <2>1, <2>2, <2>3
<1> QED BY <1>2, <1>3

-----------------------------------------------------------------------------
(* The theorems. *)

\* Before the first message there is no payment, charge or outcome.
LEMMA InitInv == Init => IInv
<1> SUFFICES ASSUME Init PROVE IInv
    OBVIOUS
<1>1. TypeOK
    BY PaymentAssumption, ProcessorAssumption DEF Init, TypeOK, Pc
<1>2. OwnerInv /\ CopyInv /\ VerdictInv
    BY DEF Init, OwnerInv, CopyInv, VerdictInv
<1>3. ChargeInv /\ DecidedAnnounced /\ SuccessWasCharged /\ OutcomeBelongs /\ RowOfOwner
    BY NoPaymentApart DEF Init, ChargeInv, DecidedAnnounced, SuccessWasCharged, OutcomeBelongs,
                          RowOfOwner, Settled
<1> QED BY <1>1, <1>2, <1>3 DEF IInv

\* The strengthening holds in every reachable state of pulsar-payment.
THEOREM Invariance == Spec => []IInv
<1>1. IInv /\ [Next]_vars => IInv'
    <2> SUFFICES ASSUME IInv, [Next]_vars PROVE IInv'
        OBVIOUS
    <2>1. TypeOK'
        BY TypeStep DEF IInv
    <2> QED BY <2>1, WorkerStep, StoreStep, OwnerStep DEF IInv
<1> QED BY <1>1, InitInv, PTL DEF Spec

\* The variables keep their types: no handler writes an undecided outcome.
THEOREM TypeCorrect == Spec => []TypeOK
<1>1. IInv => TypeOK
    BY DEF IInv
<1> QED BY <1>1, Invariance, PTL

\* Every decided payment has its outcome in the outbox, for any number of
\* replicas and redeliveries and wherever a handler stops.
THEOREM DecisionsAnnounced == Spec => []DecidedAnnounced
<1>1. IInv => DecidedAnnounced
    BY DEF IInv
<1> QED BY <1>1, Invariance, PTL

\* No payment.succeeded without a charge.
THEOREM SuccessesCharged == Spec => []SuccessWasCharged
<1>1. IInv => SuccessWasCharged
    BY DEF IInv
<1> QED BY <1>1, Invariance, PTL

\* No outcome for a reservation other than the one the payment was made for.
THEOREM OutcomesBelong == Spec => []OutcomeBelongs
<1>1. IInv => OutcomeBelongs
    BY DEF IInv
<1> QED BY <1>1, Invariance, PTL

\* No payment row of a reservation on the request of anyone but its owner.
THEOREM RowsOfOwners == Spec => []RowOfOwner
<1>1. IInv => RowOfOwner
    BY DEF IInv
<1> QED BY <1>1, Invariance, PTL

-----------------------------------------------------------------------------
(* PaymentProcessor implements PaymentLedger. *)

\* What a handler is about to record again was recorded before.
RecordInv ==
    \A w \in Worker : pc[w] = "record" =>
        [key |-> cmd(w).key, res |-> job[w].pay.res, status |-> job[w].pay.status] \in outbox

Others(w) ==
    {<<job[v].msg, Reached(v)>> :
        v \in {u \in Worker \ {w} : pc[u] \in {"window", "charge", "finish"}}}

Own(w) == IF pc[w] \in {"window", "charge", "finish"} THEN {<<job[w].msg, Reached(w)>>} ELSE {}

\* The attempts are those of one worker and those of the others.
LEMMA UnderwaySplit ==
    ASSUME NEW w \in Worker
    PROVE  /\ Underway = Others(w) \cup Own(w)
           /\ Underway' = Others(w)' \cup Own(w)'
BY DEF Underway, Others, Own

\* A worker's step leaves the attempts of the others alone.
LEMMA OthersStay ==
    ASSUME TypeOK, NEW w \in Worker,
           Handle(w) \/ GivesUp(w) \/ \E m \in Msg : Deliver(w, m)
    PROVE  Others(w)' = Others(w)
<1>1. ASSUME NEW v \in Worker \ {w} PROVE pc'[v] = pc[v] /\ job'[v] = job[v]
    BY DEF Handle, GivesUp, Deliver, WaitContext, LoadOrCreate, CheckWindow, Charge, Finish,
           RecordOutcome, Ack, Nak, TypeOK
<1> QED BY <1>1 DEF Others, Reached

\* The steps of a worker as steps of an attempt.
LEMMA WorkerAttempt ==
    ASSUME TypeOK, NEW w \in Worker,
           Handle(w) \/ GivesUp(w) \/ \E m \in Msg : Deliver(w, m)
    PROVE  /\ Own(w) = {} => Underway' = Underway \cup Own(w)'
           /\ \A x : Own(w) = {x} =>
                /\ x \in Underway
                /\ \E left \in {Underway, Underway \ {x}} : Underway' = left \cup Own(w)'
<1>1. Underway = Others(w) \cup Own(w) /\ Underway' = Others(w) \cup Own(w)'
    BY UnderwaySplit, OthersStay
<1>2. ASSUME NEW x, Own(w) = {x}
      PROVE  /\ x \in Underway
             /\ Others(w) \in {Underway, Underway \ {x}}
    BY <1>1, <1>2
<1> QED BY <1>1, <1>2

\* Recorded outcomes stay, and a decided row has one.
LEMMA RecordStep == ASSUME IInv, RecordInv, [Next]_vars PROVE RecordInv'
<1> SUFFICES ASSUME NEW v \in Worker, pc'[v] = "record"
             PROVE  [key |-> cmd(v)'.key, res |-> job'[v].pay.res,
                     status |-> job'[v].pay.status] \in outbox'
    BY DEF RecordInv, cmd
<1>1. TypeOK /\ VerdictInv /\ CopyInv /\ DecidedAnnounced
    BY DEF IInv
<1>2. outbox \subseteq outbox'
    BY DEF Next, Handle, vars, Project, Elapse, Deliver, WaitContext, LoadOrCreate, CheckWindow,
           Charge, Finish, RecordOutcome, GivesUp, store
<1>3. (pc'[v] = pc[v] /\ job'[v] = job[v]) \/ LoadOrCreate(v)
    <2>1. ASSUME NEW w \in Worker, Handle(w) \/ GivesUp(w) \/ \E m \in Msg : Deliver(w, m)
          PROVE  (pc'[v] = pc[v] /\ job'[v] = job[v]) \/ LoadOrCreate(v)
        BY <1>1, <2>1 DEF Handle, GivesUp, Deliver, WaitContext, LoadOrCreate, CheckWindow,
                          Charge, Finish, RecordOutcome, Ack, Nak, TypeOK
    <2> QED BY <2>1 DEF Next, Project, Elapse, vars
<1>4. CASE pc'[v] = pc[v] /\ job'[v] = job[v]
    BY <1>2, <1>4 DEF RecordInv, cmd
<1>5. CASE LoadOrCreate(v)
    <2> DEFINE k == cmd(v).key
    <2>1. k \in Key /\ job[v] \in Job /\ cmd(v).res \in ResId
        BY <1>1, <1>5, CommandTypes DEF LoadOrCreate
    <2>2. /\ job'[v] = [job[v] EXCEPT !.pay = payments'[k]]
          /\ payments'[k].status # "PENDING"
          /\ outbox' = outbox
        BY <1>1, <1>5 DEF LoadOrCreate, TypeOK
    <2>3. job'[v].msg = job[v].msg /\ job'[v].pay = payments'[k]
        BY <2>1, <2>2 DEF Job
    <2>4. payments'[k] = payments[k] /\ payments[k] \in Payment
        BY <1>1, <1>5, <2>1, <2>2 DEF LoadOrCreate, TypeOK
    <2>5. payments[k].status \in Settled
        BY <2>2, <2>4 DEF Payment, PaymentStatus, Settled
    <2> QED BY <1>1, <2>1, <2>2, <2>3, <2>4, <2>5 DEF DecidedAnnounced, cmd
<1> QED BY <1>3, <1>4, <1>5

\* A worker between two attempts is no attempt.
LEMMA OwnEmpty ==
    ASSUME NEW w \in Worker, pc[w] \notin {"window", "charge", "finish"}
    PROVE  Own(w) = {}
BY DEF Own

\* Every step of PaymentProcessor is a step of PaymentLedger or none at all, so
\* that what is shown of PaymentLedger holds of the concurrent, faulty service.
THEOREM Implements == Spec => Refinement
<1> DEFINE Paid == {m \in Msg : ledger[m] > 0}
<1>0. /\ Ledger!NoPayment = NoPayment /\ Ledger!Settled = Settled
      /\ Ledger!Step = {"window", "charge"} \cup Settled
    BY DEF Ledger!NoPayment, NoPayment, Ledger!Settled, Settled, Ledger!Step
<1>1. Init => Ledger!Init
    <2> SUFFICES ASSUME Init PROVE Ledger!Init
        OBVIOUS
    <2>1. Underway = {} /\ Paid = {}
        BY DEF Init, Underway
    <2> QED BY <1>0, <2>1 DEF Init, Ledger!Init
<1>2. Init => RecordInv
    BY DEF Init, RecordInv
<1>3. ASSUME IInv, RecordInv, [Next]_vars PROVE [Ledger!Next]_(Ledger!vars)
    <2>1. TypeOK /\ CopyInv /\ VerdictInv
        BY <1>3 DEF IInv
    <2>2. ASSUME UNCHANGED <<contexts, elapsed, payments, outbox, ledger, Underway>>
          PROVE  UNCHANGED Ledger!vars
        BY <2>2 DEF Ledger!vars
    <2>3. ASSUME NEW r \in ResId, Project(r) \/ Elapse(r) PROVE Ledger!Next
        <3>1. UNCHANGED <<Underway, Paid>>
            BY <2>3 DEF Project, Elapse, Underway, Reached
        <3> QED BY <2>3, <3>1 DEF Project, Elapse, store, Ledger!Next, Ledger!Project, Ledger!Elapse
    <2>4. ASSUME NEW w \in Worker, (\E m \in Msg : Deliver(w, m)) \/ WaitContext(w)
          PROVE  UNCHANGED Ledger!vars
        <3>1. /\ pc[w] \in {"idle", "context"}
              /\ pc'[w] \in {"idle", "context", "payment"}
              /\ UNCHANGED <<contexts, elapsed, payments, outbox, ledger>>
            BY <2>1, <2>4 DEF Deliver, WaitContext, Nak, TypeOK, store
        <3>2. Own(w) = {} /\ Own(w)' = {}
            BY <3>1 DEF Own
        <3>3. UNCHANGED Underway
            BY <2>1, <2>4, <3>2, WorkerAttempt DEF Handle
        <3> QED BY <2>2, <3>1, <3>3
    <2>5. ASSUME NEW w \in Worker, LoadOrCreate(w) PROVE [Ledger!Next]_(Ledger!vars)
        <3> DEFINE m == job[w].msg
                   k == Command[m].key
        <3>1. /\ m \in Msg /\ k \in Key /\ k = cmd(w).key /\ job[w] \in Job
              /\ Command[m].res \in contexts /\ Owner[Command[m].res] = Command[m].user
            BY <1>3, <2>1, <2>5, CommandTypes DEF LoadOrCreate, IInv, OwnerInv, cmd
        <3>2. /\ pc[w] = "payment"
              /\ payments' = IF payments[k] = NoPayment
                             THEN [payments EXCEPT ![k] = [res |-> Command[m].res, status |-> "PENDING"]]
                             ELSE payments
              /\ pc'[w] = IF payments'[k].status = "PENDING" THEN "window" ELSE "record"
              /\ job'[w] = [job[w] EXCEPT !.pay = payments'[k]]
              /\ UNCHANGED <<contexts, elapsed, outbox, ledger>>
            BY <2>1, <2>5 DEF LoadOrCreate, TypeOK, cmd
        <3>3. job'[w].msg = m
            BY <3>1, <3>2 DEF Job
        <3>4. Underway' = Underway \cup Own(w)'
            BY <2>1, <2>5, <3>2, OwnEmpty, WorkerAttempt DEF Handle
        <3>5. CASE payments'[k].status = "PENDING"
            <4>1. Underway' = Underway \cup {<<m, "window">>}
                BY <3>2, <3>3, <3>4, <3>5 DEF Own, Reached
            <4>2. Ledger!Begin(m)
                BY <1>0, <3>1, <3>2, <3>5, <4>1 DEF Ledger!Begin
            <4> QED BY <3>1, <4>2 DEF Ledger!Next
        <3>6. CASE payments'[k].status # "PENDING"
            <4>1. UNCHANGED payments
                BY <2>1, <3>1, <3>2, <3>6 DEF TypeOK
            <4>2. UNCHANGED Underway
                BY <3>2, <3>4, <3>6 DEF Own
            <4> QED BY <2>2, <3>2, <4>1, <4>2
        <3> QED BY <3>5, <3>6
    <2>6. ASSUME NEW w \in Worker, CheckWindow(w) PROVE Ledger!Next
        <3> DEFINE m == job[w].msg
                   n == IF Command[m].res \in elapsed THEN "FAILED" ELSE "charge"
        <3>1. m \in Msg /\ job[w] \in Job
            BY <2>1, <2>6, CommandTypes DEF CheckWindow
        <3>2. Own(w) = {<<m, "window">>}
            BY <2>6 DEF CheckWindow, Own, Reached
        <3>3. Own(w)' = {<<m, n>>}
            <4>1. CASE cmd(w).res \in elapsed
                <5>1. pc'[w] = "finish" /\ job'[w] = [job[w] EXCEPT !.verdict = "FAILED"]
                    BY <2>1, <2>6, <4>1 DEF CheckWindow, TypeOK
                <5>2. job'[w].msg = m /\ job'[w].verdict = "FAILED"
                    BY <3>1, <5>1 DEF Job
                <5> QED BY <4>1, <5>1, <5>2 DEF Own, Reached, cmd
            <4>2. CASE cmd(w).res \notin elapsed
                <5>1. pc'[w] = "charge" /\ job'[w] = job[w]
                    BY <2>1, <2>6, <4>2 DEF CheckWindow, TypeOK
                <5> QED BY <4>2, <5>1 DEF Own, Reached, cmd
            <4> QED BY <4>1, <4>2
        <3>4. Ledger!Goes(m, "window", {<<m, n>>})
            BY <2>1, <2>6, <3>2, <3>3, WorkerAttempt DEF Handle, Ledger!Goes
        <3>5. UNCHANGED <<contexts, elapsed, payments, outbox, Paid>>
            BY <2>6 DEF CheckWindow, store
        <3> QED BY <3>1, <3>4, <3>5 DEF Ledger!CheckWindow, Ledger!Attempt, Ledger!Next
    <2>7. ASSUME NEW w \in Worker, Charge(w) PROVE Ledger!Next
        <3> DEFINE m == job[w].msg
        <3>1. m \in Msg /\ job[w] \in Job
            BY <2>1, <2>7, CommandTypes DEF Charge
        <3>2. Own(w) = {<<m, "charge">>}
            BY <2>7 DEF Charge, Own, Reached
        <3>3. UNCHANGED <<contexts, elapsed, payments, outbox>>
            BY <2>7 DEF Charge, store
        <3>4. ASSUME NEW s \in Settled, job'[w] = [job[w] EXCEPT !.verdict = s]
              PROVE  Ledger!Goes(m, "charge", {<<m, s>>})
            <4>1. job'[w].msg = m /\ job'[w].verdict = s
                BY <3>1, <3>4 DEF Job
            <4>2. pc'[w] = "finish"
                BY <2>1, <2>7 DEF Charge, TypeOK
            <4>3. Own(w)' = {<<m, s>>}
                BY <4>1, <4>2 DEF Own, Reached
            <4> QED BY <2>1, <2>7, <3>2, <4>3, WorkerAttempt DEF Handle, Ledger!Goes
        <3>5. /\ ledger' = [ledger EXCEPT ![m] = @ + 1] => Paid' = Paid \cup {m}
              /\ ledger' = ledger => Paid' = Paid
            BY <2>1, <3>1 DEF TypeOK
        <3>6. CASE /\ ledger' = [ledger EXCEPT ![m] = @ + 1]
                   /\ job' = [job EXCEPT ![w].verdict = "SUCCEEDED"]
            <4>1. Ledger!Goes(m, "charge", {<<m, "SUCCEEDED">>})
                BY <2>1, <3>4, <3>6 DEF TypeOK, Settled
            <4> QED BY <3>1, <3>3, <3>5, <3>6, <4>1 DEF Ledger!Charge, Ledger!Attempt, Ledger!Next
        <3>7. CASE /\ ledger' \in {ledger, [ledger EXCEPT ![m] = @ + 1]}
                   /\ job' = [job EXCEPT ![w].verdict = "FAILED"]
            <4>1. Ledger!Goes(m, "charge", {<<m, "FAILED">>})
                BY <2>1, <3>4, <3>7 DEF TypeOK, Settled
            <4>2. Paid' \in {Paid, Paid \cup {m}}
                BY <3>5, <3>7
            <4> QED BY <3>1, <3>3, <4>1, <4>2 DEF Ledger!Charge, Ledger!Attempt, Ledger!Next
        <3> QED BY <2>7, <3>6, <3>7 DEF Charge
    <2>8. ASSUME NEW w \in Worker, Finish(w) PROVE Ledger!Next
        <3> DEFINE m == job[w].msg
                   s == job[w].verdict
        <3>1. /\ m \in Msg /\ cmd(w).key = Command[m].key
              /\ s \in Settled /\ job[w].pay.res = payments[Command[m].key].res
            BY <2>1, <2>8, CommandTypes DEF Finish, VerdictInv, CopyInv, cmd
        <3>2. Own(w) = {<<m, s>>}
            BY <2>8 DEF Finish, Own, Reached
        <3>3. Own(w)' = {}
            BY <2>1, <2>8 DEF Finish, Ack, Nak, Own, TypeOK
        <3>4. Ledger!Goes(m, s, {})
            BY <2>1, <2>8, <3>2, <3>3, WorkerAttempt DEF Handle, Ledger!Goes
        <3>5. /\ payments' = [payments EXCEPT ![Command[m].key].status = s]
              /\ outbox' = outbox \cup {[key |-> Command[m].key,
                                         res |-> payments[Command[m].key].res, status |-> s]}
              /\ UNCHANGED <<contexts, elapsed, Paid>>
            BY <2>8, <3>1 DEF Finish
        <3>6. Ledger!Finish(m, s)
            BY <3>4, <3>5 DEF Ledger!Finish
        <3> QED BY <1>0, <3>1, <3>6 DEF Ledger!Attempt, Ledger!Next
    <2>9. ASSUME NEW w \in Worker, RecordOutcome(w) PROVE UNCHANGED Ledger!vars
        <3>1. /\ outbox' = outbox
              /\ UNCHANGED <<contexts, elapsed, payments, ledger>>
            BY <1>3, <2>9 DEF RecordOutcome, RecordInv
        <3>2. Own(w) = {} /\ Own(w)' = {}
            BY <2>1, <2>9 DEF RecordOutcome, Ack, Nak, Own, TypeOK
        <3>3. UNCHANGED Underway
            BY <2>1, <2>9, <3>2, WorkerAttempt DEF Handle
        <3> QED BY <2>2, <3>1, <3>3
    <2>10. ASSUME NEW w \in Worker, GivesUp(w) PROVE [Ledger!Next]_(Ledger!vars)
        <3> DEFINE m == job[w].msg
                   s == Reached(w)
        <3>1. UNCHANGED <<contexts, elapsed, payments, outbox, ledger>>
            BY <2>10 DEF GivesUp, store
        <3>2. Own(w)' = {}
            BY <2>1, <2>10 DEF GivesUp, Nak, Own, TypeOK
        <3>3. CASE Own(w) = {}
            <4>1. UNCHANGED Underway
                BY <2>1, <2>10, <3>2, <3>3, WorkerAttempt
            <4> QED BY <2>2, <3>1, <4>1
        <3>4. CASE Own(w) # {}
            <4>1. Own(w) = {<<m, s>>} /\ m \in Msg /\ s \in Ledger!Step
                BY <1>0, <2>1, <2>10, <3>4, CommandTypes DEF GivesUp, Own, Reached, VerdictInv
            <4>2. /\ <<m, s>> \in Underway
                  /\ Underway' = Underway \/ Underway' = Underway \ {<<m, s>>}
                BY <2>1, <2>10, <3>2, <4>1, WorkerAttempt
            <4>3. CASE Underway' = Underway
                BY <2>2, <3>1, <4>3
            <4>4. CASE Underway' = Underway \ {<<m, s>>}
                BY <3>1, <4>1, <4>2, <4>4 DEF Ledger!GiveUp, Ledger!Attempt, Ledger!Next
            <4> QED BY <4>2, <4>3, <4>4
        <3> QED BY <3>3, <3>4
    <2>11. CASE UNCHANGED vars
        BY <2>2, <2>11 DEF vars, Underway, Reached
    <2> QED BY <1>3, <2>3, <2>4, <2>5, <2>6, <2>7, <2>8, <2>9, <2>10, <2>11 DEF Next, Handle
<1>4. IInv /\ RecordInv /\ [Next]_vars => RecordInv'
    BY RecordStep
<1> QED BY <1>1, <1>2, <1>3, <1>4, Invariance, PTL DEF Spec, Refinement, Ledger!Spec

-----------------------------------------------------------------------------
(* What is charged and announced where handlers of one key do not overlap. *)

\* No two handlers are at messages of one key.
KeyAlone ==
    \A v, w \in Worker :
        pc[v] # "idle" /\ pc[w] # "idle" /\ cmd(v).key = cmd(w).key => v = w

\* A handler that is going to decide a payment finds it undecided, and what is
\* announced, or about to be announced again, is what the row says.
SoleInv ==
    /\ \A o \in outbox : payments[o.key].status = o.status
    /\ \A w \in Worker :
          /\ pc[w] \in {"window", "charge", "finish"} =>
                payments[cmd(w).key].status = "PENDING"
          /\ pc[w] = "record" => payments[cmd(w).key].status = job[w].pay.status

\* A worker is about to decide the payment of key k.
Deciding(w, k) == pc[w] = "finish" /\ cmd(w).key = k

\* A charge taken under key k is recorded, or its handler is about to.
Booked(k) ==
    Charged(k) => payments[k].status \in Settled \/ \E w \in Worker : Deciding(w, k)

OnceInv == ChargedOnce /\ \A k \in Key : Booked(k)

\* A worker's step is nothing to the other workers.
LEMMA OtherWorkers ==
    ASSUME TypeOK, NEW w \in Worker, NEW v \in Worker, v # w,
           Handle(w) \/ GivesUp(w) \/ \E m \in Msg : Deliver(w, m)
    PROVE  pc'[v] = pc[v] /\ job'[v] = job[v] /\ cmd(v)' = cmd(v)
<1>1. pc'[v] = pc[v] /\ job'[v] = job[v]
    BY DEF Handle, GivesUp, Deliver, WaitContext, LoadOrCreate, CheckWindow, Charge, Finish,
           RecordOutcome, Ack, Nak, TypeOK
<1> QED BY <1>1 DEF cmd

\* The steps that neither touch a payment nor record an outcome.
LEMMA QuietSteps ==
    ASSUME TypeOK, NEW w \in Worker,
           \/ \E m \in Msg : Deliver(w, m)
           \/ WaitContext(w) \/ CheckWindow(w) \/ Charge(w) \/ GivesUp(w)
    PROVE  /\ UNCHANGED <<payments, outbox>>
           /\ pc'[w] \in {"idle", "context", "payment"} \/ CheckWindow(w) \/ Charge(w)
           /\ CheckWindow(w) \/ Charge(w) =>
                 /\ pc[w] \in {"window", "charge"} /\ pc'[w] \in {"charge", "finish"}
                 /\ job'[w].msg = job[w].msg /\ cmd(w)' = cmd(w)
<1>1. UNCHANGED <<payments, outbox>>
    BY DEF Deliver, WaitContext, CheckWindow, Charge, GivesUp, store
<1>2. pc'[w] \in {"idle", "context", "payment"} \/ CheckWindow(w) \/ Charge(w)
    BY DEF Deliver, WaitContext, GivesUp, Nak, TypeOK
<1>3. ASSUME CheckWindow(w) \/ Charge(w)
      PROVE  /\ pc[w] \in {"window", "charge"} /\ pc'[w] \in {"charge", "finish"}
             /\ job'[w].msg = job[w].msg
    <2>1. /\ pc[w] \in {"window", "charge"} /\ pc'[w] \in {"charge", "finish"}
          /\ job'[w] = job[w] \/ \E s \in Settled : job'[w] = [job[w] EXCEPT !.verdict = s]
        BY <1>3 DEF CheckWindow, Charge, TypeOK, Settled
    <2>2. job[w] \in Job
        BY <2>1, CommandTypes
    <2> QED BY <2>1, <2>2 DEF Job
<1> QED BY <1>1, <1>2, <1>3 DEF cmd

\* While handlers of one key do not overlap, every step keeps rows and outcomes
\* together.
LEMMA SoleStep ==
    ASSUME IInv, KeyAlone, SoleInv, [Next]_vars PROVE SoleInv'
<1>1. TypeOK /\ CopyInv /\ VerdictInv
    BY DEF IInv
<1>2. outbox \subseteq Outcome /\ \A o \in outbox : o.key \in Key /\ o.status \in Settled
    BY <1>1 DEF TypeOK, Outcome
<1>3. ASSUME UNCHANGED <<payments, outbox, pc, job>> PROVE SoleInv'
    BY <1>3 DEF SoleInv, cmd
<1>4. ASSUME NEW w \in Worker,
             \/ \E m \in Msg : Deliver(w, m)
             \/ WaitContext(w) \/ CheckWindow(w) \/ Charge(w) \/ GivesUp(w)
      PROVE  SoleInv'
    <2>1. UNCHANGED <<payments, outbox>>
        BY <1>1, <1>4, QuietSteps
    <2>2. ASSUME NEW v \in Worker, v # w PROVE pc'[v] = pc[v] /\ job'[v] = job[v] /\ cmd(v)' = cmd(v)
        BY <1>1, <1>4, <2>2, OtherWorkers DEF Handle
    <2>3. /\ pc'[w] # "record"
          /\ pc'[w] \in {"window", "charge", "finish"} =>
                pc[w] \in {"window", "charge", "finish"} /\ cmd(w)' = cmd(w)
        BY <1>1, <1>4, QuietSteps
    <2> QED BY <2>1, <2>2, <2>3 DEF SoleInv
<1>5. ASSUME NEW w \in Worker, LoadOrCreate(w) PROVE SoleInv'
    <2>1. PICK k \in Key : k = cmd(w).key /\ job[w] \in Job /\ pc[w] = "payment"
        BY <1>1, <1>5, CommandTypes DEF LoadOrCreate
    <2>2. /\ outbox' = outbox
          /\ job'[w] = [job[w] EXCEPT !.pay = payments'[k]]
          /\ pc'[w] = IF payments'[k].status = "PENDING" THEN "window" ELSE "record"
        BY <1>1, <1>5, <2>1 DEF LoadOrCreate, TypeOK
    <2>3. \A j \in Key : payments[j] # NoPayment => payments'[j] = payments[j]
        BY <1>1, <1>5 DEF LoadOrCreate, TypeOK
    <2>4. cmd(w)' = cmd(w) /\ job'[w].pay = payments'[k]
        BY <2>1, <2>2 DEF Job, cmd
    <2>5. \A o \in outbox' : payments'[o.key].status = o.status
        BY <1>2, <2>2, <2>3, NoPaymentApart DEF SoleInv, Settled
    <2>6. ASSUME NEW v \in Worker \ {w}
          PROVE  /\ pc'[v] = pc[v] /\ job'[v] = job[v] /\ cmd(v)' = cmd(v)
                 /\ pc[v] \in {"window", "charge", "finish", "record"} =>
                       payments'[cmd(v).key] = payments[cmd(v).key]
        <3>1. pc'[v] = pc[v] /\ job'[v] = job[v] /\ cmd(v)' = cmd(v)
            BY <1>1, <1>5, OtherWorkers DEF Handle
        <3>2. pc[v] \in {"window", "charge", "finish", "record"} =>
                cmd(v).key \in Key /\ payments[cmd(v).key] \in Payment
            BY <1>1, CommandTypes DEF CopyInv
        <3> QED BY <2>3, <3>1, <3>2, NoPaymentApart
    <2>7. /\ pc'[w] = "window" => payments'[cmd(w)'.key].status = "PENDING"
          /\ pc'[w] = "record" => payments'[cmd(w)'.key].status = job'[w].pay.status
          /\ pc'[w] \in {"window", "record"}
        BY <2>1, <2>2, <2>4
    <2> QED BY <2>5, <2>6, <2>7 DEF SoleInv
<1>6. ASSUME NEW w \in Worker, Finish(w) PROVE SoleInv'
    <2>1. PICK k \in Key : k = cmd(w).key /\ pc[w] = "finish"
        BY <1>1, <1>6, CommandTypes DEF Finish
    <2>2. PICK s \in Settled : s = job[w].verdict
        BY <1>1, <2>1 DEF VerdictInv
    <2>3. payments[k] \in Payment /\ payments[k].status = "PENDING"
        BY <1>1, <2>1 DEF CopyInv, SoleInv
    <2>4. PICK o : outbox' = outbox \cup {o} /\ o.key = k /\ o.status = s
        <3> DEFINE o == [key |-> k, res |-> job[w].pay.res, status |-> s]
        <3>1. outbox' = outbox \cup {o}
            BY <1>6, <2>1, <2>2 DEF Finish
        <3>2. o.key = k /\ o.status = s
            OBVIOUS
        <3> HIDE DEF o
        <3> QED BY <3>1, <3>2
    <2>5. payments'[k].status = s /\ \A j \in Key \ {k} : payments'[j] = payments[j]
        BY <1>1, <1>6, <2>1, <2>2, <2>3 DEF Finish, TypeOK, Payment
    <2>6. \A p \in outbox : p.key # k
        BY <1>2, <2>3 DEF SoleInv, Settled
    <2>7. \A p \in outbox' : payments'[p.key].status = p.status
        BY <1>2, <2>4, <2>5, <2>6 DEF SoleInv
    <2>8. ASSUME NEW v \in Worker \ {w}
          PROVE  /\ pc'[v] = pc[v] /\ job'[v] = job[v] /\ cmd(v)' = cmd(v)
                 /\ pc[v] # "idle" => payments'[cmd(v).key] = payments[cmd(v).key]
        <3>1. pc'[v] = pc[v] /\ job'[v] = job[v] /\ cmd(v)' = cmd(v)
            BY <1>1, <1>6, OtherWorkers DEF Handle
        <3>2. pc[v] # "idle" => cmd(v).key \in Key \ {k}
            BY <1>1, <2>1, CommandTypes DEF KeyAlone
        <3> QED BY <2>5, <3>1, <3>2
    <2>9. pc'[w] = "idle"
        BY <1>1, <1>6 DEF Finish, Ack, Nak, TypeOK
    <2> QED BY <2>7, <2>8, <2>9 DEF SoleInv
<1>7. ASSUME NEW w \in Worker, RecordOutcome(w) PROVE SoleInv'
    <2>1. PICK o : outbox' = outbox \cup {o} /\ payments[o.key].status = o.status
        <3> DEFINE o == [key |-> cmd(w).key, res |-> job[w].pay.res, status |-> job[w].pay.status]
        <3>1. outbox' = outbox \cup {o} /\ pc[w] = "record"
            BY <1>7 DEF RecordOutcome
        <3>2. payments[o.key].status = o.status
            BY <3>1 DEF SoleInv
        <3> QED BY <3>1, <3>2
    <2>2. payments' = payments /\ pc'[w] = "idle"
        BY <1>1, <1>7 DEF RecordOutcome, Ack, Nak, TypeOK
    <2>3. ASSUME NEW v \in Worker \ {w} PROVE pc'[v] = pc[v] /\ job'[v] = job[v] /\ cmd(v)' = cmd(v)
        BY <1>1, <1>7, OtherWorkers DEF Handle
    <2> QED BY <2>1, <2>2, <2>3 DEF SoleInv
<1>8. ASSUME NEW r \in ResId, Project(r) \/ Elapse(r) PROVE SoleInv'
    BY <1>3, <1>8 DEF Project, Elapse, store
<1>9. CASE UNCHANGED vars
    BY <1>3, <1>9 DEF vars
<1> QED BY <1>4, <1>5, <1>6, <1>7, <1>8, <1>9 DEF Next, Handle

\* ... and, where nothing fails, charges at most once.
LEMMA OnceStep ==
    ASSUME ~Faults, IInv, KeyAlone, SoleInv, OnceInv, [Next]_vars PROVE OnceInv'
<1>1. /\ TypeOK /\ CopyInv /\ VerdictInv /\ ledger \in [Msg -> Nat]
      /\ ChargedOnce /\ \A k \in Key : Booked(k)
    BY DEF IInv, TypeOK, OnceInv
<1>2. ASSUME ledger' = ledger
      PROVE  ChargedOnce' /\ \A k \in Key : Charged(k)' => Charged(k)
    BY <1>1, <1>2 DEF ChargedOnce, Charged
<1>3. ASSUME NEW w \in Worker, Handle(w) \/ \E m \in Msg : Deliver(w, m),
             NEW k \in Key, NEW v \in Worker, v # w, Deciding(v, k)
      PROVE  Deciding(v, k)'
    BY <1>1, <1>3, OtherWorkers DEF Deciding
<1>4. ASSUME NEW w \in Worker,
             \/ \E m \in Msg : Deliver(w, m)
             \/ WaitContext(w) \/ CheckWindow(w) \/ RecordOutcome(w)
      PROVE  OnceInv'
    <2>1. UNCHANGED <<payments, ledger>> /\ pc[w] # "finish"
        BY <1>4 DEF Deliver, WaitContext, CheckWindow, RecordOutcome, store
    <2>2. \A k \in Key, v \in Worker : Deciding(v, k) => Deciding(v, k)'
        <3>1. ASSUME NEW k \in Key, NEW v \in Worker, Deciding(v, k) PROVE v # w
            BY <2>1, <3>1 DEF Deciding
        <3> QED BY <1>3, <1>4, <3>1 DEF Handle
    <2> QED BY <1>1, <1>2, <2>1, <2>2 DEF OnceInv, Booked
<1>5. ASSUME NEW w \in Worker, LoadOrCreate(w) PROVE OnceInv'
    <2>1. /\ ledger' = ledger /\ pc[w] # "finish"
          /\ \A k \in Key : payments[k].status \in Settled => payments'[k] = payments[k]
        BY <1>1, <1>5, NoPaymentApart DEF LoadOrCreate, TypeOK, Settled
    <2>2. \A k \in Key, v \in Worker : Deciding(v, k) => Deciding(v, k)'
        <3>1. ASSUME NEW k \in Key, NEW v \in Worker, Deciding(v, k) PROVE v # w
            BY <2>1, <3>1 DEF Deciding
        <3> QED BY <1>3, <1>5, <3>1 DEF Handle
    <2> QED BY <1>1, <1>2, <2>1, <2>2 DEF OnceInv, Booked
<1>6. ASSUME NEW w \in Worker, Charge(w) PROVE OnceInv'
    <2>1. PICK m \in Msg : m = job[w].msg
        BY <1>1, <1>6, CommandTypes DEF Charge
    <2>2. PICK k \in Key : k = Command[m].key /\ k = cmd(w).key
        BY <2>1, PaymentAssumption DEF cmd
    <2>3. pc[w] = "charge" /\ payments[k].status = "PENDING" /\ payments' = payments
        BY <1>6, <2>2 DEF Charge, SoleInv, store
    <2>4. ~ \E v \in Worker : Deciding(v, k)
        BY <2>2, <2>3 DEF Deciding, KeyAlone
    <2>5. ~Charged(k)
        BY <1>1, <2>3, <2>4 DEF Booked, Settled
    <2>6. \A n \in Msg : Command[n].key = k => ledger[n] = 0
        BY <1>1, <2>5 DEF Charged
    <2>7. ledger' = ledger \/ ledger' = [ledger EXCEPT ![m] = @ + 1]
        BY <1>6, <2>1 DEF Charge
    <2>8. /\ ledger'[m] \in {0, 1}
          /\ \A n \in Msg : n # m => ledger'[n] = ledger[n]
        <3>1. ledger[m] = 0 /\ ledger \in [Msg -> Nat]
            BY <1>1, <2>2, <2>6
        <3> QED BY <2>7, <3>1
    <2>9. ChargedOnce'
        <3>1. \A n \in Msg : ledger'[n] <= 1
            BY <1>1, <2>8 DEF ChargedOnce
        <3>2. \A n \in Msg : n # m /\ Command[n].key = k => ~(ledger'[n] > 0)
            BY <2>6, <2>8
        <3>3. \A n, o \in Msg : n # m /\ o # m /\ ledger'[n] > 0 /\ ledger'[o] > 0
                  /\ Command[n].key = Command[o].key => n = o
            BY <1>1, <2>8 DEF ChargedOnce
        <3> QED BY <2>2, <3>1, <3>2, <3>3 DEF ChargedOnce
    <2>10. Deciding(w, k)'
        BY <1>1, <1>6, <2>2, QuietSteps DEF Charge, Deciding, TypeOK
    <2>11. ASSUME NEW j \in Key, j # k PROVE Booked(j)'
        <3>1. Charged(j)' => Charged(j)
            BY <2>2, <2>8, <2>11 DEF Charged
        <3>2. \A v \in Worker : Deciding(v, j) => Deciding(v, j)'
            <4>1. ASSUME NEW v \in Worker, Deciding(v, j) PROVE v # w
                BY <2>3, <4>1 DEF Deciding
            <4> QED BY <1>3, <1>6, <4>1 DEF Handle
        <3> QED BY <1>1, <2>3, <3>1, <3>2 DEF Booked
    <2>12. Booked(k)'
        BY <2>10 DEF Booked
    <2> QED BY <2>9, <2>11, <2>12 DEF OnceInv
<1>7. ASSUME NEW w \in Worker, Finish(w) PROVE OnceInv'
    <2>1. PICK k \in Key : k = cmd(w).key
        BY <1>1, <1>7, CommandTypes DEF Finish
    <2>2. payments[k] \in Payment /\ job[w].verdict \in Settled /\ ledger' = ledger
        BY <1>1, <1>7, <2>1 DEF Finish, CopyInv, VerdictInv
    <2>3. payments'[k].status \in Settled /\ \A j \in Key \ {k} : payments'[j] = payments[j]
        BY <1>1, <1>7, <2>1, <2>2 DEF Finish, TypeOK, Payment
    <2>4. ASSUME NEW j \in Key \ {k}, NEW v \in Worker, Deciding(v, j) PROVE Deciding(v, j)'
        <3>1. v # w
            BY <2>1, <2>4 DEF Deciding
        <3> QED BY <1>3, <1>7, <2>4, <3>1 DEF Handle
    <2> QED BY <1>1, <1>2, <2>2, <2>3, <2>4 DEF OnceInv, Booked
<1>8. ASSUME UNCHANGED <<payments, ledger, pc, job>> PROVE OnceInv'
    <2>1. \A k \in Key, v \in Worker : Deciding(v, k) => Deciding(v, k)'
        BY <1>8 DEF Deciding, cmd
    <2> QED BY <1>1, <1>2, <1>8, <2>1 DEF OnceInv, Booked
<1>9. ASSUME NEW r \in ResId, Project(r) \/ Elapse(r) PROVE UNCHANGED <<payments, ledger, pc, job>>
    BY <1>9 DEF Project, Elapse, store
<1>10. ASSUME UNCHANGED vars PROVE UNCHANGED <<payments, ledger, pc, job>>
    BY <1>10 DEF vars
<1> QED BY <1>4, <1>5, <1>6, <1>7, <1>8, <1>9, <1>10 DEF Next, Handle, GivesUp

\* Where handlers of one key never overlap, a key has one outcome, whatever fails.
THEOREM AloneOneOutcome == Spec /\ []KeyAlone => []OneOutcome
<1>1. Init => SoleInv
    BY DEF Init, SoleInv
<1>2. IInv /\ KeyAlone /\ SoleInv /\ [Next]_vars => SoleInv'
    BY SoleStep
<1>3. SoleInv => OneOutcome
    BY DEF SoleInv, OneOutcome
<1> QED BY <1>1, <1>2, <1>3, Invariance, PTL DEF Spec

\* Where, besides, nothing fails, no key is charged twice.
THEOREM AloneChargedOnce ==
    ASSUME ~Faults
    PROVE  Spec /\ []KeyAlone => []ChargedOnce
<1>1. Init => SoleInv /\ OnceInv
    BY DEF Init, SoleInv, OnceInv, ChargedOnce, Booked, Charged
<1>2. IInv /\ KeyAlone /\ SoleInv /\ [Next]_vars => SoleInv'
    BY SoleStep
<1>3. IInv /\ KeyAlone /\ SoleInv /\ OnceInv /\ [Next]_vars => OnceInv'
    BY OnceStep
<1>4. OnceInv => ChargedOnce
    BY DEF OnceInv
<1> QED BY <1>1, <1>2, <1>3, <1>4, Invariance, PTL DEF Spec

-----------------------------------------------------------------------------
(* How much is charged in any case. *)

\* The handlers that may still charge on message m.
Early(m) ==
    {w \in Worker : pc[w] \in {"context", "payment", "window", "charge"} /\ job[w].msg = m}

BudgetOf(m) ==
    /\ IsFiniteSet(Early(m))
    /\ ledger[m] + Cardinality(Early(m)) <= delivered[m]

\* A handler that goes away, or on without a charge, leaves the bound as it is.
LEMMA FewerEarly ==
    ASSUME TypeOK, NEW m \in Msg, BudgetOf(m), Early(m)' \subseteq Early(m),
           ledger'[m] = ledger[m], delivered'[m] = delivered[m]
    PROVE  BudgetOf(m)'
<1> DEFINE E == Early(m)
           F == Early(m)'
<1>1. F \in SUBSET E /\ IsFiniteSet(E)
    BY DEF BudgetOf
<1>2. IsFiniteSet(F) /\ Cardinality(F) <= Cardinality(E)
    <2> HIDE DEF E, F
    <2> QED BY <1>1, FS_Subset
<1>3. /\ Cardinality(E) \in Nat /\ Cardinality(F) \in Nat
      /\ ledger[m] \in Nat /\ delivered[m] \in Nat
    BY <1>1, <1>2, FS_CardinalityType DEF TypeOK
<1> QED BY <1>2, <1>3 DEF BudgetOf

\* A delivery pays for the charge its handler may take.
LEMMA DeliverBudget ==
    ASSUME TypeOK, NEW w \in Worker, NEW n \in Msg, Deliver(w, n),
           NEW m \in Msg, BudgetOf(m)
    PROVE  BudgetOf(m)'
<1>1. /\ pc[w] = "idle" /\ pc'[w] = "context" /\ job'[w].msg = n /\ ledger' = ledger
      /\ delivered[m] \in Nat /\ ledger[m] \in Nat
      /\ delivered' = [delivered EXCEPT ![n] = @ + 1]
    <2>1. job'[w] = [NoJob EXCEPT !.msg = n]
        BY DEF Deliver, TypeOK
    <2> QED BY <2>1, ProcessorAssumption DEF Deliver, TypeOK, NoJob
<1>2. \A v \in Worker : v # w => (v \in Early(m)' <=> v \in Early(m))
    BY OtherWorkers DEF Early
<1>3. CASE n # m
    <2>1. Early(m)' \subseteq Early(m)
        BY <1>1, <1>2, <1>3 DEF Early
    <2>2. delivered'[m] = delivered[m]
        BY <1>1, <1>3 DEF TypeOK
    <2> QED BY <1>1, <2>1, <2>2, FewerEarly
<1>4. CASE n = m
    <2> DEFINE E == Early(m)
    <2>1. Early(m)' = E \cup {w} /\ w \notin E
        BY <1>1, <1>2, <1>4 DEF Early
    <2>2. IsFiniteSet(E) /\ ledger[m] + Cardinality(E) <= delivered[m]
        BY DEF BudgetOf
    <2>3. delivered'[m] = delivered[m] + 1
        BY <1>1, <1>4 DEF TypeOK
    <2> HIDE DEF E
    <2>4. IsFiniteSet(E \cup {w}) /\ Cardinality(E \cup {w}) = Cardinality(E) + 1
        BY <2>1, <2>2, FS_AddElement
    <2>5. Cardinality(E) \in Nat
        BY <2>2, FS_CardinalityType
    <2> QED BY <1>1, <2>1, <2>2, <2>3, <2>4, <2>5 DEF BudgetOf
<1> QED BY <1>3, <1>4

\* A charge uses up what its delivery brought.
LEMMA ChargeBudget ==
    ASSUME TypeOK, NEW w \in Worker, Charge(w), NEW m \in Msg, BudgetOf(m)
    PROVE  BudgetOf(m)'
<1>1. /\ pc[w] = "charge" /\ pc'[w] = "finish" /\ delivered' = delivered
      /\ ledger[m] \in Nat /\ delivered[m] \in Nat
    BY DEF Charge, TypeOK, broker
<1>2. \A v \in Worker : v # w => (v \in Early(m)' <=> v \in Early(m))
    BY OtherWorkers DEF Early, Handle
<1>3. w \notin Early(m)'
    BY <1>1 DEF Early
<1>4. CASE job[w].msg # m
    <2>1. ledger'[m] = ledger[m]
        BY <1>4 DEF Charge, TypeOK
    <2>2. Early(m)' \subseteq Early(m)
        BY <1>2, <1>3 DEF Early
    <2> QED BY <1>1, <2>1, <2>2, FewerEarly
<1>5. CASE job[w].msg = m
    <2> DEFINE E == Early(m)
    <2>1. Early(m)' = E \ {w} /\ w \in E
        BY <1>1, <1>2, <1>3, <1>5 DEF Early
    <2>2. IsFiniteSet(E) /\ ledger[m] + Cardinality(E) <= delivered[m]
        BY DEF BudgetOf
    <2>3. ledger'[m] = ledger[m] \/ ledger'[m] = ledger[m] + 1
        BY <1>5 DEF Charge, TypeOK
    <2> HIDE DEF E
    <2>4. IsFiniteSet(E \ {w}) /\ Cardinality(E \ {w}) = Cardinality(E) - 1
        BY <2>1, <2>2, FS_RemoveElement
    <2>5. Cardinality(E) \in Nat
        BY <2>2, FS_CardinalityType
    <2> QED BY <1>1, <2>1, <2>2, <2>3, <2>4, <2>5 DEF BudgetOf
<1> QED BY <1>4, <1>5

\* Every step keeps the bound.
LEMMA BudgetStep ==
    ASSUME TypeOK, [Next]_vars, NEW m \in Msg, BudgetOf(m)
    PROVE  BudgetOf(m)'
<1>1. ASSUME UNCHANGED <<ledger, delivered, pc, job>> PROVE BudgetOf(m)'
    <2>1. Early(m)' = Early(m)
        BY <1>1 DEF Early
    <2> QED BY <1>1, <2>1, FewerEarly
<1>2. ASSUME NEW w \in Worker,
             \/ WaitContext(w) \/ LoadOrCreate(w) \/ CheckWindow(w)
             \/ Finish(w) \/ RecordOutcome(w) \/ GivesUp(w)
      PROVE  BudgetOf(m)'
    <2>1. UNCHANGED <<ledger, delivered>>
        BY <1>2 DEF WaitContext, LoadOrCreate, CheckWindow, Finish, RecordOutcome, GivesUp, broker
    <2>2. \A v \in Worker : v # w => (v \in Early(m)' <=> v \in Early(m))
        BY <1>2, OtherWorkers DEF Early, Handle
    <2>3. w \in Early(m)' => w \in Early(m)
        <3>1. ASSUME WaitContext(w) \/ LoadOrCreate(w) \/ CheckWindow(w)
              PROVE  /\ pc[w] \in {"context", "payment", "window"}
                     /\ pc'[w] = "idle" \/ job'[w].msg = job[w].msg
            <4>1. pc[w] \in {"context", "payment", "window"} /\ job[w] \in Job
                BY <3>1, CommandTypes DEF WaitContext, LoadOrCreate, CheckWindow
            <4>2. CASE Nak(w)
                BY <4>1, <4>2 DEF Nak, TypeOK
            <4>3. CASE WaitContext(w) /\ ~Nak(w)
                <5>1. \E i : job'[w] = [job[w] EXCEPT !.waits = i]
                    BY <4>3 DEF WaitContext, TypeOK
                <5> QED BY <4>1, <5>1 DEF Job
            <4>4. CASE LoadOrCreate(w)
                <5>1. \E p : job'[w] = [job[w] EXCEPT !.pay = p]
                    BY <4>4 DEF LoadOrCreate, TypeOK
                <5> QED BY <4>1, <5>1 DEF Job
            <4>5. CASE CheckWindow(w)
                BY <4>5, QuietSteps, <4>1
            <4> QED BY <3>1, <4>2, <4>3, <4>4, <4>5
        <3>2. ASSUME Finish(w) \/ RecordOutcome(w) \/ GivesUp(w) PROVE pc'[w] = "idle"
            BY <3>2 DEF Finish, RecordOutcome, GivesUp, Ack, Nak, TypeOK
        <3> QED BY <1>2, <3>1, <3>2 DEF Early
    <2>4. Early(m)' \subseteq Early(m)
        BY <2>2, <2>3 DEF Early
    <2> QED BY <2>1, <2>4, FewerEarly
<1>3. ASSUME NEW r \in ResId, Project(r) \/ Elapse(r) PROVE BudgetOf(m)'
    BY <1>1, <1>3 DEF Project, Elapse, broker
<1>4. CASE UNCHANGED vars
    BY <1>1, <1>4 DEF vars
<1> QED BY <1>2, <1>3, <1>4, DeliverBudget, ChargeBudget DEF Next, Handle

\* No command is charged more often than it was delivered, whatever fails, dies or
\* overlaps.
THEOREM ChargesAreBounded == Spec => []ChargesBounded
<1> DEFINE Bound == \A m \in Msg : BudgetOf(m)
<1>1. Init => Bound
    <2> SUFFICES ASSUME Init, NEW m \in Msg PROVE BudgetOf(m)
        OBVIOUS
    <2>1. Early(m) = {}
        BY DEF Init, Early
    <2>2. ledger[m] = 0 /\ delivered[m] = 0
        BY DEF Init
    <2> QED BY <2>1, <2>2, FS_EmptySet DEF BudgetOf
<1>2. TypeOK /\ Bound /\ [Next]_vars => Bound'
    BY BudgetStep
<1>3. TypeOK /\ Bound => ChargesBounded
    <2> SUFFICES ASSUME TypeOK, NEW m \in Msg, BudgetOf(m)
                 PROVE  ledger[m] <= delivered[m]
        BY DEF ChargesBounded
    <2>1. /\ Cardinality(Early(m)) \in Nat
          /\ ledger[m] \in Nat /\ delivered[m] \in Nat
        BY FS_CardinalityType DEF BudgetOf, TypeOK
    <2> QED BY <2>1 DEF BudgetOf
<1> HIDE DEF Bound
<1> QED BY <1>1, <1>2, <1>3, TypeCorrect, PTL DEF Spec
=============================================================================
