------------------------------ MODULE SagaProofs ------------------------------
(***************************************************************************)
(* Proofs about the booking saga, for every set of reservations, calls and *)
(* keys: what pulsar-core decides agrees with what pulsar-payment did.     *)
(*                                                                         *)
(* The services only know of each other through messages, so the inductive *)
(* invariant says of every piece of state where it came from: an attempt   *)
(* is of a call of the owner and has a payment row, a row has a call of    *)
(* the owner and a reservation, an outcome has a row and, if it is a       *)
(* success, a charge, and a decision has an outcome or an elapsed window.  *)
(* All of these are about sets that only grow (lemma Grows), so a step can *)
(* only break them for what it adds.                                       *)
(*                                                                         *)
(* The seats of an event are counted through the steps of pulsar-core      *)
(* (CoreOnly, SeatsMove).                                                  *)
(***************************************************************************)
EXTENDS Saga, TicketsProofs

HasRow(k) == payments[k] # Ledger!NoPayment

\* Call p asks to pay reservation r under key k, with a token of r's user.
PaidBy(p, r, k) == Submission[p] = [res |-> r, key |-> k] /\ OwnCall(p)

\* Call p has passed the checks of Handle.
Passed(p) ==
    /\ p \in submitted /\ OwnCall(p)
    /\ Submission[p].res \in contexts
    /\ HasRow(Submission[p].key)

ContextInv ==
    /\ \A r \in ResId : status[r] = Absent => announced[r] = <<>>
    /\ \A r \in contexts : status[r] # Absent

RowInv ==
    \A k \in Key : HasRow(k) =>
        /\ payments[k].res \in contexts
        /\ \E p \in submitted : PaidBy(p, payments[k].res, k)

AttemptInv ==
    \A p \in Pay : \A s \in Ledger!Step : <<p, s>> \in underway =>
        /\ Passed(p)
        /\ s = "SUCCEEDED" => p \in charged

ChargeInv == \A p \in charged : Passed(p)

\* A charge was taken on a call with key k.
Paid(k) == \E p \in charged : Submission[p].key = k

OutcomeInv ==
    \A o \in outbox :
        /\ HasRow(o.key)
        /\ payments[o.key].res = o.res
        /\ o.status = "SUCCEEDED" => Paid(o.key)

\* An outcome of reservation r with status s.
Told(r, s) == \E o \in outbox : o.res = r /\ o.status = s

DecisionInv ==
    /\ \A r \in ResId :
          /\ status[r] = "CONFIRMED" => Told(r, "SUCCEEDED")
          /\ status[r] = "FAILED" => Told(r, "FAILED")
          /\ status[r] = "EXPIRED" => r \in elapsed
          /\ status[r] # "CANCELLED"
    /\ expired \subseteq elapsed

Inv ==
    /\ TypeOK /\ ContextInv /\ RowInv /\ AttemptInv
    /\ ChargeInv /\ OutcomeInv /\ DecisionInv

-----------------------------------------------------------------------------
(* Facts about the parts. *)

\* The instances mean by these names what this module means.
LEMMA SameWords ==
    /\ Core!Absent = Absent /\ Core!Decided = Decided /\ Core!Active = Active
    /\ Core!Announcement = Announcement
    /\ Ledger!NoPayment = [res |-> None, status |-> "NONE"]
    /\ Ledger!Settled = {"SUCCEEDED", "FAILED"}
    /\ Ledger!Step = {"window", "charge", "SUCCEEDED", "FAILED"}
    /\ Ledger!Payment = [res : ResId, status : {"PENDING", "SUCCEEDED", "FAILED"}]
    /\ Ledger!Outcome = [key : Key, res : ResId, status : {"SUCCEEDED", "FAILED"}]
BY DEF Core!Absent, Absent, Core!Decided, Decided, Core!Active, Active, Core!Released,
       Released, Core!Announcement, Announcement, Ledger!NoPayment, Ledger!Settled,
       Ledger!Step, Ledger!Payment, Ledger!PaymentStatus, Ledger!Outcome

\* A reservation id is no None, so a row is never mistaken for a missing one.
LEMMA Rows ==
    ASSUME TypeOK, NEW k \in Key
    PROVE  /\ HasRow(k) <=> payments[k] \in Ledger!Payment
           /\ HasRow(k) => payments[k].res \in ResId
BY SagaAssumption, SameWords DEF TypeOK, HasRow

LEMMA Commands ==
    ASSUME NEW p \in Pay
    PROVE  /\ Command[p].res = Submission[p].res /\ Command[p].res \in ResId
           /\ Command[p].key = Submission[p].key /\ Command[p].key \in Key
           /\ Submission[p] = [res |-> Command[p].res, key |-> Command[p].key]
           /\ Owner[Command[p].res] = Command[p].user =>
                 OwnCall(p) /\ PaidBy(p, Command[p].res, Command[p].key)
<1>1. /\ Submission[p] \in [res : ResId, key : Key]
      /\ Request[Submission[p].res].user \in UserId
      /\ None \notin UserId
  BY SagaAssumption, TicketsAssumption
<1>2. Command[p].user = IF Caller[p] \in DOMAIN AuthTokens
                        THEN AuthTokens[Caller[p]] ELSE None
  BY DEF Command
<1>3. /\ Command[p].res = Submission[p].res
      /\ Command[p].key = Submission[p].key
  BY DEF Command
<1>. QED  BY <1>1, <1>2, <1>3 DEF Owner, PaidBy, OwnCall

-----------------------------------------------------------------------------
(* One lemma for each service whose state a step changes. *)

\* Nothing has happened yet.
LEMMA InitInv == Init => Inv
<1> SUFFICES ASSUME Init PROVE Inv
  OBVIOUS
<1> USE SameWords DEF Init, Gate!Init, Core!Init, Ledger!Init
<1>1. \A r \in ResId : status[r] = Absent /\ announced[r] = <<>>
  OBVIOUS
<1>2. \A k \in Key : ~HasRow(k)
  BY DEF HasRow
<1>3. TypeOK
  <2>1. left \in [ResId -> 0..MaxDeliver]
    BY SagaAssumption
  <2>. QED  BY <2>1 DEF TypeOK, Gate!Answer, Absent, Status
<1>4. DecisionInv
  BY <1>1 DEF DecisionInv, Absent
<1>5. ContextInv /\ RowInv /\ AttemptInv /\ ChargeInv /\ OutcomeInv
  BY <1>1, <1>2 DEF ContextInv, RowInv, AttemptInv, ChargeInv, OutcomeInv
<1>. QED  BY <1>3, <1>4, <1>5 DEF Inv

\* A step that leaves pulsar-core and pulsar-payment alone: a call to the gateway,
\* which only adds commands, or a delivery that has no effect.
LEMMA OuterStep ==
    ASSUME Inv, TypeOK', UNCHANGED <<core, ledger, expired>>, submitted \subseteq submitted'
    PROVE  Inv'
<1> USE DEF Inv, core, ledger
<1>1. \A k : HasRow(k)' <=> HasRow(k)
  BY DEF HasRow
<1>2. \A p \in Pay : Passed(p) => Passed(p)'
  BY <1>1 DEF Passed, OwnCall
<1>3. RowInv'
  BY <1>1 DEF RowInv, PaidBy, OwnCall
<1>4. AttemptInv' /\ ChargeInv'
  BY <1>2, SameWords DEF AttemptInv, ChargeInv, TypeOK, Ledger!Step
<1>5. ContextInv' /\ OutcomeInv'
  BY <1>1 DEF ContextInv, OutcomeInv, Paid
<1>6. DecisionInv'
  BY DEF DecisionInv, Told
<1>. QED  BY <1>3, <1>4, <1>5, <1>6

\* pulsar-core moves reservation r to status s on a reserve command, an outcome or
\* a compensation event.
LEMMA CoreStep ==
    ASSUME Inv, left' \in [ResId -> 0..MaxDeliver], UNCHANGED <<gate, ledger, expired>>,
           NEW r \in ResId, NEW s \in {"PENDING", "CONFIRMED", "FAILED", "EXPIRED"},
           Core!Enter(r, s),
           s # "PENDING" => status[r] = "PENDING",
           s = "CONFIRMED" => Told(r, "SUCCEEDED"),
           s = "FAILED" => Told(r, "FAILED"),
           s = "EXPIRED" => r \in expired
    PROVE  Inv'
<1> USE DEF Inv, gate, ledger
<1>1. /\ status' = [status EXCEPT ![r] = s]
      /\ announced' = [announced EXCEPT ![r] = Append(@, Announcement[s])]
  BY SameWords DEF Core!Enter
<1>2. s # Absent /\ s \in Status /\ Announcement[s] \in EventType
  BY DEF Absent, Status, Active, Released, Announcement, EventType, Decided
<1>3. TypeOK'
  <2>1. status' \in [ResId -> Status]
    BY <1>1, <1>2 DEF TypeOK
  <2>2. Append(announced[r], Announcement[s]) \in Seq(EventType)
    BY <1>2 DEF TypeOK
  <2>3. announced' \in [ResId -> Seq(EventType)]
    BY <1>1, <2>2 DEF TypeOK
  <2>. QED  BY <2>1, <2>3 DEF TypeOK
<1>4. \A k : HasRow(k)' <=> HasRow(k)
  BY DEF HasRow
<1>5. RowInv' /\ AttemptInv' /\ ChargeInv' /\ OutcomeInv'
  BY <1>4 DEF RowInv, PaidBy, OwnCall, AttemptInv, Passed, ChargeInv, OutcomeInv, Paid
<1>6. \A q \in ResId : status'[q] = IF q = r THEN s ELSE status[q]
  BY <1>1 DEF TypeOK
<1>7. ContextInv'
  <2>1. ASSUME NEW q \in ResId, status'[q] = Absent PROVE announced'[q] = <<>>
    BY <1>1, <1>2, <1>6, <2>1 DEF TypeOK, ContextInv
  <2>. QED  BY <2>1, <1>2, <1>6 DEF TypeOK, ContextInv
<1>8. DecisionInv'
  BY <1>6 DEF DecisionInv, Told
<1>. QED  BY <1>3, <1>5, <1>7, <1>8

\* The sweeper announces a reservation whose window is over.
LEMMA SweepStep ==
    ASSUME Inv, NEW r \in ResId, Sweep(r)
    PROVE  Inv'
<1> USE DEF Inv, gate, core, ledger, Sweep
<1>1. TypeOK'
  BY DEF TypeOK
<1>2. \A k : HasRow(k)' <=> HasRow(k)
  BY DEF HasRow
<1>3. RowInv' /\ ContextInv' /\ AttemptInv' /\ ChargeInv' /\ OutcomeInv'
  BY <1>2 DEF RowInv, PaidBy, OwnCall, ContextInv, AttemptInv, Passed, ChargeInv,
              OutcomeInv, Paid
<1>4. DecisionInv'
  BY DEF DecisionInv, Told
<1>. QED  BY <1>1, <1>3, <1>4

\* A step of pulsar-payment keeps the invariant if its tables only grow, a row
\* keeps its reservation, and what is new has an origin.
LEMMA Grows ==
    ASSUME Inv, TypeOK', UNCHANGED <<gate, core, left, expired>>,
           elapsed \subseteq elapsed', charged \subseteq charged', outbox \subseteq outbox',
           contexts \subseteq contexts', \A r \in contexts' : status[r] # Absent,
           \A k \in Key : HasRow(k) => HasRow(k)' /\ payments'[k].res = payments[k].res,
           \A k \in Key : HasRow(k)' /\ ~HasRow(k) =>
               /\ payments'[k].res \in contexts
               /\ \E p \in submitted : PaidBy(p, payments'[k].res, k),
           \A p \in Pay : \A s \in Ledger!Step :
               <<p, s>> \in underway' /\ <<p, s>> \notin underway =>
                   Passed(p)' /\ (s = "SUCCEEDED" => p \in charged'),
           \A p \in charged' : p \notin charged => Passed(p)',
           \A o \in outbox' : o \notin outbox =>
               /\ HasRow(o.key)' /\ payments'[o.key].res = o.res
               /\ o.status = "SUCCEEDED" => Paid(o.key)'
    PROVE  Inv'
<1> USE DEF Inv, gate, core
<1>1. ContextInv'
  BY DEF ContextInv
<1>2. RowInv'
  <2> SUFFICES ASSUME NEW k \in Key, HasRow(k)'
               PROVE  /\ payments'[k].res \in contexts
                      /\ \E p \in submitted : PaidBy(p, payments'[k].res, k)
    BY DEF RowInv, PaidBy, OwnCall
  <2>1. CASE HasRow(k)
    BY <2>1 DEF RowInv
  <2>. QED  BY <2>1
<1>3. ASSUME NEW p \in Pay, Passed(p) PROVE Passed(p)'
  <2>1. Submission[p].key \in Key
    BY Commands
  <2>. QED  BY <1>3, <2>1 DEF Passed, OwnCall
<1>4. AttemptInv'
  <2> SUFFICES ASSUME NEW p \in Pay, NEW s \in Ledger!Step, <<p, s>> \in underway'
               PROVE  Passed(p)' /\ (s = "SUCCEEDED" => p \in charged')
    BY SameWords DEF AttemptInv, Ledger!Step
  <2>1. CASE <<p, s>> \in underway
    BY <1>3, <2>1 DEF AttemptInv
  <2>. QED  BY <2>1
<1>5. ChargeInv'
  <2> SUFFICES ASSUME NEW p \in charged' PROVE Passed(p)'
    BY DEF ChargeInv
  <2>1. CASE p \in charged
    BY <1>3, <2>1 DEF ChargeInv, TypeOK
  <2>. QED  BY <2>1
<1>6. OutcomeInv'
  <2> SUFFICES ASSUME NEW o \in outbox'
               PROVE  /\ HasRow(o.key)' /\ payments'[o.key].res = o.res
                      /\ o.status = "SUCCEEDED" => Paid(o.key)'
    BY DEF OutcomeInv
  <2>1. CASE o \in outbox
    <3>1. o.key \in Key
      BY <2>1, SameWords DEF TypeOK
    <3>. QED  BY <2>1, <3>1 DEF OutcomeInv, Paid
  <2>. QED  BY <2>1
<1>7. DecisionInv'
  BY DEF DecisionInv, Told
<1>. QED  BY <1>1, <1>2, <1>4, <1>5, <1>6, <1>7

\* The projection, and the end of a window.
LEMMA ProjectStep ==
    ASSUME Inv, NEW r \in ResId, OnTicketReserved(r) \/ Elapse(r)
    PROVE  Inv'
<1>1. /\ UNCHANGED <<gate, core, left, expired>>
      /\ UNCHANGED <<payments, outbox, charged, underway>>
      /\ contexts' \in {contexts, contexts \cup {r}}
      /\ elapsed' \in {elapsed, elapsed \cup {r}}
  BY DEF OnTicketReserved, Elapse, Ledger!Project, Ledger!Elapse
<1>2. announced[r] # <<>>
  BY DEF OnTicketReserved, Elapse
<1>3. \A q \in contexts' : status[q] # Absent
  BY <1>1, <1>2 DEF Inv, ContextInv
<1>4. TypeOK'
  BY <1>1 DEF Inv, TypeOK, gate, core
<1>5. \A k : HasRow(k)' <=> HasRow(k)
  BY <1>1 DEF HasRow
<1>. QED  BY <1>1, <1>3, <1>4, <1>5, Grows

\* An attempt begins: its row is of the owner, or was there before.
LEMMA BeginStep ==
    ASSUME Inv, NEW p \in submitted, Ledger!Begin(p),
           UNCHANGED <<gate, core, left, expired>>
    PROVE  Inv'
<1> DEFINE k == Command[p].key
           row == [res |-> Command[p].res, status |-> "PENDING"]
<1>1. /\ p \in Pay /\ k \in Key /\ Command[p].res \in contexts
      /\ Command[p].res \in ResId
      /\ PaidBy(p, Command[p].res, k) /\ OwnCall(p)
      /\ UNCHANGED <<contexts, elapsed, outbox, charged>>
      /\ underway' = underway \cup {<<p, "window">>}
      /\ payments' = IF HasRow(k) THEN payments ELSE [payments EXCEPT ![k] = row]
  BY Commands DEF Inv, TypeOK, Ledger!Begin, HasRow
<1>2. row \in Ledger!Payment /\ row # Ledger!NoPayment
  BY <1>1, SameWords
<1>3. \A j \in Key : payments'[j] = IF j = k /\ ~HasRow(k) THEN row ELSE payments[j]
  BY <1>1 DEF Inv, TypeOK
<1>4. \A j \in Key : HasRow(j) => HasRow(j)' /\ payments'[j].res = payments[j].res
  BY <1>2, <1>3 DEF HasRow
<1>5. HasRow(k)' /\ \A j \in Key : HasRow(j)' /\ ~HasRow(j) => j = k /\ payments'[j] = row
  BY <1>1, <1>2, <1>3 DEF HasRow
<1>6. TypeOK'
  <2>1. payments' \in [Key -> Ledger!Payment \cup {Ledger!NoPayment}]
    BY <1>1, <1>2 DEF Inv, TypeOK
  <2>2. underway' \subseteq Pay \X Ledger!Step
    BY <1>1, SameWords DEF Inv, TypeOK
  <2>. QED  BY <1>1, <2>1, <2>2 DEF Inv, TypeOK, gate, core
<1>7. Passed(p)'
  BY <1>1, <1>5, Commands DEF Passed, OwnCall, gate
<1>8. \A j \in Key : HasRow(j)' /\ ~HasRow(j) =>
               /\ payments'[j].res \in contexts
               /\ \E q \in submitted : PaidBy(q, payments'[j].res, j)
  BY <1>1, <1>5
<1>9. \A r \in contexts' : status[r] # Absent
  BY <1>1 DEF Inv, ContextInv
<1>10. \A q \in Pay : \A s \in Ledger!Step :
               <<q, s>> \in underway' /\ <<q, s>> \notin underway => q = p /\ s = "window"
  BY <1>1
<1>. QED  BY <1>1, <1>4, <1>5, <1>6, <1>7, <1>8, <1>9, <1>10, Grows

\* An attempt goes on, records its outcome or is given up.
LEMMA AttemptStep ==
    ASSUME Inv, NEW p \in Pay, Ledger!Attempt(p),
           UNCHANGED <<gate, core, left, expired>>
    PROVE  Inv'
<1> DEFINE k == Command[p].key
<1>1. k \in Key
  BY Commands
<1>2. \A s \in Ledger!Step : <<p, s>> \in underway =>
          Passed(p) /\ HasRow(k) /\ (s = "SUCCEEDED" => p \in charged)
  BY Commands DEF Inv, AttemptInv, Passed
<1>3. \A r \in contexts : status[r] # Absent
  BY DEF Inv, ContextInv
<1>4. ASSUME Passed(p), HasRow(k)', UNCHANGED <<contexts, submitted>> PROVE Passed(p)'
  BY <1>4, Commands DEF Passed, OwnCall
<1>5. ASSUME Ledger!CheckWindow(p) PROVE Inv'
  <2>1. /\ <<p, "window">> \in underway
        /\ underway' \subseteq underway \cup {<<p, "FAILED">>, <<p, "charge">>}
        /\ UNCHANGED <<contexts, elapsed, payments, outbox, charged>>
    BY <1>5 DEF Ledger!CheckWindow, Ledger!Goes
  <2>2. Passed(p)' /\ \A j : HasRow(j)' <=> HasRow(j)
    BY <1>2, <1>4, <2>1, SameWords DEF HasRow, gate
  <2>3. TypeOK'
    BY <2>1, SameWords DEF Inv, TypeOK, gate, core
  <2>4. \A q \in Pay : \A s \in Ledger!Step :
           <<q, s>> \in underway' /\ <<q, s>> \notin underway => q = p /\ s # "SUCCEEDED"
    BY <2>1
  <2>. QED  BY <1>3, <2>1, <2>2, <2>3, <2>4, Grows
<1>6. ASSUME Ledger!Charge(p) PROVE Inv'
  <2>1. /\ <<p, "charge">> \in underway
        /\ \/ /\ underway' \subseteq underway \cup {<<p, "SUCCEEDED">>}
              /\ charged' = charged \cup {p}
           \/ /\ underway' \subseteq underway \cup {<<p, "FAILED">>}
              /\ charged' \in {charged, charged \cup {p}}
        /\ UNCHANGED <<contexts, elapsed, payments, outbox>>
    BY <1>6 DEF Ledger!Charge, Ledger!Goes
  <2>2. Passed(p)' /\ \A j : HasRow(j)' <=> HasRow(j)
    BY <1>2, <1>4, <2>1, SameWords DEF HasRow, gate
  <2>3. TypeOK'
    BY <1>1, <2>1, SameWords DEF Inv, TypeOK, gate, core
  <2>4. \A q \in Pay : \A s \in Ledger!Step :
           <<q, s>> \in underway' /\ <<q, s>> \notin underway =>
               q = p /\ (s = "SUCCEEDED" => p \in charged')
    BY <2>1
  <2>5. \A q \in charged' : q \notin charged => q = p
    BY <2>1
  <2>. QED  BY <1>3, <2>1, <2>2, <2>3, <2>4, <2>5, Grows
<1>7. ASSUME NEW s \in Ledger!Settled, Ledger!Finish(p, s) PROVE Inv'
  <2> DEFINE o == [key |-> k, res |-> payments[k].res, status |-> s]
  <2>1. /\ <<p, s>> \in underway /\ underway' \subseteq underway
        /\ payments' = [payments EXCEPT ![k].status = s]
        /\ outbox' = outbox \cup {o}
        /\ UNCHANGED <<contexts, elapsed, charged>>
    BY <1>7 DEF Ledger!Finish, Ledger!Goes
  <2>2. HasRow(k) /\ (s = "SUCCEEDED" => p \in charged)
    BY <1>2, <2>1, SameWords
  <2>3. payments[k] \in Ledger!Payment
    BY <1>1, <2>2, Rows DEF Inv
  <2>4. /\ payments'[k] = [res |-> payments[k].res, status |-> s]
        /\ \A j \in Key \ {k} : payments'[j] = payments[j]
    BY <1>1, <2>1, <2>3, SameWords DEF Inv, TypeOK
  <2>5. payments'[k] \in Ledger!Payment /\ HasRow(k)' /\ o \in Ledger!Outcome
    BY <1>1, <2>3, <2>4, SameWords, SagaAssumption DEF HasRow
  <2>6. \A j \in Key : /\ HasRow(j)' <=> HasRow(j)
                       /\ payments'[j].res = payments[j].res
    BY <2>2, <2>4, <2>5 DEF HasRow
  <2>7. TypeOK'
    <3>1. payments' \in [Key -> Ledger!Payment \cup {Ledger!NoPayment}]
      BY <1>1, <2>1, <2>4, <2>5 DEF Inv, TypeOK
    <3>. QED  BY <2>1, <2>5, <3>1 DEF Inv, TypeOK, gate, core
  <2>8. s = "SUCCEEDED" => Paid(k)'
    BY <2>1, <2>2, Commands DEF Paid
  <2>9. /\ HasRow(o.key)' /\ payments'[o.key].res = o.res
        /\ o.status = "SUCCEEDED" => Paid(o.key)'
    BY <1>1, <2>1, <2>2, <2>5, <2>6, <2>8
  <2>. QED  BY <1>3, <2>1, <2>6, <2>7, <2>9, Grows
<1>8. ASSUME NEW s \in Ledger!Step, Ledger!GiveUp(p, s) PROVE Inv'
  <2>1. /\ underway' \subseteq underway
        /\ UNCHANGED <<contexts, elapsed, payments, outbox, charged>>
    BY <1>8 DEF Ledger!GiveUp
  <2>2. \A j : HasRow(j)' <=> HasRow(j)
    BY <2>1 DEF HasRow
  <2>3. TypeOK'
    BY <2>1 DEF Inv, TypeOK, gate, core
  <2>. QED  BY <1>3, <2>1, <2>2, <2>3, Grows
<1>. QED  BY <1>5, <1>6, <1>7, <1>8 DEF Ledger!Attempt

\* Every step of the saga keeps the invariant.
LEMMA NextInv == Inv /\ [Next]_vars => Inv'
<1> SUFFICES ASSUME Inv, [Next]_vars PROVE Inv'
  OBVIOUS
<1>1. ASSUME NEW r \in ResId, Create(r) PROVE Inv'
  <2>1. /\ UNCHANGED <<core, ledger, expired>> /\ submitted' = submitted
        /\ commands' \in {commands, commands \cup {r}}
        /\ left' \in {left, [left EXCEPT ![r] = MaxDeliver]}
    BY <1>1 DEF Create, Gate!Create
  <2>2. PICK a \in Gate!Answer : answer' = [answer EXCEPT ![r] = a]
    BY <1>1 DEF Create, Gate!Create, Gate!Answers, Gate!Answer
  <2>3. left' \in [ResId -> 0..MaxDeliver]
    <3>1. left \in [ResId -> 0..MaxDeliver] /\ MaxDeliver \in 0..MaxDeliver
      BY SagaAssumption DEF Inv, TypeOK
    <3>. QED  BY <2>1, <3>1
  <2>4. TypeOK'
    BY <2>1, <2>2, <2>3 DEF Inv, TypeOK, core, ledger
  <2>. QED  BY <2>1, <2>4, OuterStep
<1>2. ASSUME NEW p \in Pay, ConfirmPayment(p) PROVE Inv'
  <2>1. /\ UNCHANGED <<core, ledger, left, expired, commands, answer>>
        /\ submitted' = submitted \cup {p}
    BY <1>2 DEF ConfirmPayment, Gate!ConfirmPayment
  <2>2. TypeOK'
    BY <2>1 DEF Inv, TypeOK, core, ledger
  <2>. QED  BY <2>1, <2>2, OuterStep
<1>3. ASSUME NEW r \in ResId, OnReserve(r) PROVE Inv'
  <2>1. left[r] \in 0..MaxDeliver /\ left[r] > 0
    BY <1>3 DEF OnReserve, Inv, TypeOK
  <2>2. PICK n \in 0..(left[r] - 1) : left' = [left EXCEPT ![r] = n]
    BY <1>3, <2>1 DEF OnReserve
  <2>3. left' \in [ResId -> 0..MaxDeliver]
    BY <2>1, <2>2, SagaAssumption DEF Inv, TypeOK
  <2>4. UNCHANGED <<gate, ledger, expired>> /\ (Core!Reserve(r) \/ UNCHANGED core)
    BY <1>3 DEF OnReserve
  <2>5. CASE Core!Reserve(r)
    <3>1. Core!Enter(r, "PENDING")
      BY <2>5 DEF Core!Reserve
    <3>. QED  BY <2>3, <2>4, <3>1, CoreStep
  <2>6. CASE UNCHANGED core
    <3>1. TypeOK'
      BY <2>3, <2>4, <2>6 DEF Inv, TypeOK, gate, core, ledger
    <3>. QED  BY <2>4, <2>6, <3>1, OuterStep DEF gate
  <2>. QED  BY <2>4, <2>5, <2>6
<1>4. ASSUME NEW o \in outbox, OnOutcome(o) PROVE Inv'
  <2> DEFINE s == IF o.status = "SUCCEEDED" THEN "CONFIRMED" ELSE "FAILED"
  <2>1. /\ o.res \in ResId /\ o.status \in {"SUCCEEDED", "FAILED"}
        /\ Told(o.res, o.status)
    BY SameWords DEF Inv, TypeOK, Told
  <2>2. /\ status[o.res] = "PENDING" /\ Core!Enter(o.res, s)
        /\ UNCHANGED <<gate, ledger, left, expired>>
    BY <1>4 DEF OnOutcome, Core!Decide
  <2>3. /\ s = "CONFIRMED" => Told(o.res, "SUCCEEDED")
        /\ s = "FAILED" => Told(o.res, "FAILED")
    BY <2>1
  <2>4. s \in {"CONFIRMED", "FAILED"}
    OBVIOUS
  <2>5. left' \in [ResId -> 0..MaxDeliver]
    BY <2>2 DEF Inv, TypeOK
  <2> HIDE DEF s
  <2>. QED  BY <2>1, <2>2, <2>3, <2>4, <2>5, CoreStep
<1>5. ASSUME NEW r \in ResId, OnReservationExpired(r) PROVE Inv'
  <2>1. /\ r \in expired /\ status[r] = "PENDING" /\ Core!Enter(r, "EXPIRED")
        /\ UNCHANGED <<gate, ledger, left, expired>>
    BY <1>5 DEF OnReservationExpired, Core!Decide
  <2>2. left' \in [ResId -> 0..MaxDeliver]
    BY <2>1 DEF Inv, TypeOK
  <2>. QED  BY <2>1, <2>2, CoreStep
<1>6. ASSUME NEW r \in ResId, OnTicketReserved(r) \/ Elapse(r) PROVE Inv'
  BY <1>6, ProjectStep
<1>7. ASSUME NEW r \in ResId, Sweep(r) PROVE Inv'
  BY <1>7, SweepStep
<1>8. ASSUME NEW p \in Pay, OnPaymentProcess(p) PROVE Inv'
  BY <1>8, BeginStep, AttemptStep DEF OnPaymentProcess
<1>9. CASE UNCHANGED vars
  <2>1. TypeOK'
    BY <1>9 DEF vars, Inv, TypeOK
  <2>. QED  BY <1>9, <2>1, OuterStep DEF vars, core, ledger
<1>. QED  BY <1>1, <1>2, <1>3, <1>4, <1>5, <1>6, <1>7, <1>8, <1>9 DEF Next

LEMMA Invariant == Spec => []Inv
BY InitInv, NextInv, PTL DEF Spec

-----------------------------------------------------------------------------
(* Theorems. *)

\* The tables of the four services keep their types, the sequences of outbox events
\* included.
THEOREM TypeCorrect == Spec => []TypeOK
<1>1. Inv => TypeOK
  BY DEF Inv
<1>. QED  BY <1>1, Invariant, PTL

\* A reservation is confirmed only after a charge of its own: the confirmation came
\* from a succeeded outcome, the outcome from the row of its key, and a call with
\* that key was charged (service.go confirm, processor.go finish).
THEOREM NoTicketUnpaid == Spec => []ConfirmedWasCharged
<1>1. Inv => ConfirmedWasCharged
  <2> SUFFICES ASSUME Inv, NEW r \in ResId, status[r] = "CONFIRMED"
               PROVE  \E p \in charged : Row(p).res = r
    BY DEF ConfirmedWasCharged
  <2>1. PICK o \in outbox : o.res = r /\ o.status = "SUCCEEDED"
    BY DEF Inv, DecisionInv, Told
  <2>2. PICK p \in charged : Submission[p].key = o.key
    BY <2>1 DEF Inv, OutcomeInv, Paid
  <2>3. payments[o.key].res = r
    BY <2>1 DEF Inv, OutcomeInv
  <2>. QED  BY <2>2, <2>3 DEF Row
<1>. QED  BY <1>1, Invariant, PTL

\* The call on which a charge is taken came from the user of the reservation it
\* names, and that reservation exists; the row that is paid is of another one only
\* when a call about that other one carries the same key (auth.go resolveIdentity,
\* processor.go Handle).
THEOREM NobodyElsePays == Spec => []ChargedOnOwnCall
<1>1. Inv => ChargedOnOwnCall
  <2> SUFFICES ASSUME Inv, NEW p \in charged
               PROVE  /\ p \in submitted /\ OwnCall(p)
                      /\ status[Submission[p].res] # Absent
                      /\ Row(p) # Ledger!NoPayment
                      /\ \/ Row(p).res = Submission[p].res
                         \/ \E q \in submitted : /\ Submission[q].key = Submission[p].key
                                                 /\ Submission[q].res # Submission[p].res
    BY DEF ChargedOnOwnCall
  <2>1. p \in Pay /\ Passed(p)
    BY DEF Inv, TypeOK, ChargeInv
  <2>2. Submission[p].key \in Key
    BY <2>1, Commands
  <2>3. PICK q \in submitted : PaidBy(q, Row(p).res, Submission[p].key)
    BY <2>1, <2>2 DEF Inv, RowInv, Passed, Row
  <2>4. Submission[q].res = Row(p).res /\ Submission[q].key = Submission[p].key
    BY <2>3 DEF PaidBy
  <2>5. status[Submission[p].res] # Absent /\ Row(p) # Ledger!NoPayment
    BY <2>1 DEF Inv, ContextInv, Passed, HasRow, Row
  <2>6. p \in submitted /\ OwnCall(p)
    BY <2>1 DEF Passed
  <2>. QED  BY <2>4, <2>5, <2>6
<1>. QED  BY <1>1, Invariant, PTL

\* What keeps a reservation from being paid for twice, since payments are unique per
\* key and not per reservation (processor.go Handle, the payments table), is that its
\* owner stays with one key; then, while the window is open, only two outcomes of
\* that key that contradict each other cost a charged reservation its seats.
THEOREM OneKeySuffices == Spec => []OneAccount
<1>1. Inv => OneAccount
  <2> SUFFICES ASSUME Inv, NEW r \in ResId, OneKey(r), NEW p \in charged, Row(p).res = r
               PROVE  /\ \A q \in charged : Row(q).res = r =>
                            Submission[q].key = Submission[p].key
                      /\ status[r] = "FAILED" =>
                            [key |-> Submission[p].key, res |-> r, status |-> "FAILED"] \in outbox
    BY DEF OneAccount
  <2>1. ASSUME NEW j \in Key, HasRow(j), payments[j].res = r
        PROVE  \E q \in Pay : Submission[q].res = r /\ OwnCall(q) /\ Submission[q].key = j
    <3>1. PICK q \in submitted : PaidBy(q, r, j)
      BY <2>1 DEF Inv, RowInv
    <3>2. q \in Pay /\ Submission[q].res = r /\ Submission[q].key = j /\ OwnCall(q)
      BY <3>1 DEF Inv, TypeOK, PaidBy
    <3>. QED  BY <3>2
  <2>2. \A q \in charged : Submission[q].key \in Key /\ HasRow(Submission[q].key)
    BY Commands DEF Inv, ChargeInv, Passed, TypeOK
  <2>3. payments[Submission[p].key].res = r
    BY DEF Row
  <2>4. ASSUME NEW j \in Key, HasRow(j), payments[j].res = r PROVE j = Submission[p].key
    BY <2>1, <2>2, <2>3, <2>4 DEF OneKey
  <2>5. \A q \in charged : Row(q).res = r => Submission[q].key = Submission[p].key
    BY <2>2, <2>4 DEF Row
  <2>6. ASSUME status[r] = "FAILED"
        PROVE  [key |-> Submission[p].key, res |-> r, status |-> "FAILED"] \in outbox
    <3>1. PICK o \in outbox : o.res = r /\ o.status = "FAILED"
      BY <2>6 DEF Inv, DecisionInv, Told
    <3>2. o \in [key : Key, res : ResId, status : {"SUCCEEDED", "FAILED"}]
      BY SameWords DEF Inv, TypeOK
    <3>3. o.key = Submission[p].key
      BY <2>4, <3>1, <3>2 DEF Inv, OutcomeInv
    <3>. QED  BY <3>1, <3>2, <3>3
  <2>. QED  BY <2>5, <2>6
<1>. QED  BY <1>1, Invariant, PTL

-----------------------------------------------------------------------------
(* The seats, through the steps of pulsar-core. *)

\* What pulsar-core counts as taken is what the saga counts.
LEMMA SameTickets ==
    ASSUME NEW st, NEW e, NEW S
    PROVE  Core!Cardinality(Core!TicketsIn(st, e, S)) = Cardinality(TicketsIn(st, e, S))
<1>1. Core!TicketsIn(st, e, S) = TicketsIn(st, e, S)
  BY DEF Core!TicketsIn, TicketsIn
<1>2. \A T : Core!Cardinality(T) = Cardinality(T)
  BY Zenon DEF Core!Cardinality, Cardinality
<1>. QED  BY <1>1, <1>2

\* A step of the saga is a step of pulsar-core or does not concern it.
LEMMA CoreOnly == Inv /\ [Next]_vars => [Core!Next]_(Core!vars)
<1> SUFFICES ASSUME Inv, [Next]_vars PROVE Core!Next \/ UNCHANGED core
  BY DEF core, Core!vars
<1>1. ASSUME NEW r \in ResId, OnReserve(r) PROVE Core!Next \/ UNCHANGED core
  BY <1>1 DEF OnReserve, Core!Next
<1>2. ASSUME NEW o \in outbox, OnOutcome(o) PROVE Core!Next
  <2> DEFINE s == IF o.status = "SUCCEEDED" THEN "CONFIRMED" ELSE "FAILED"
  <2>1. o.res \in ResId
    BY SameWords DEF Inv, TypeOK
  <2>2. s \in Core!Decided
    BY SameWords DEF Decided, Released
  <2>3. Core!Decide(o.res, s)
    BY <1>2 DEF OnOutcome
  <2> HIDE DEF s
  <2>. QED  BY <2>1, <2>2, <2>3 DEF Core!Next
<1>3. ASSUME NEW r \in ResId, OnReservationExpired(r) PROVE Core!Next
  <2>1. "EXPIRED" \in Core!Decided
    BY SameWords DEF Decided, Released
  <2>. QED  BY <1>3, <2>1 DEF OnReservationExpired, Core!Next
<1>4. ASSUME NEW r \in ResId, Create(r) \/ OnTicketReserved(r) \/ Elapse(r) \/ Sweep(r)
      PROVE  UNCHANGED core
  BY <1>4 DEF Create, OnTicketReserved, Elapse, Sweep
<1>5. ASSUME NEW p \in Pay, ConfirmPayment(p) \/ OnPaymentProcess(p) PROVE UNCHANGED core
  BY <1>5 DEF ConfirmPayment, OnPaymentProcess
<1>6. CASE UNCHANGED vars
  BY <1>6 DEF vars, core
<1>. QED  BY <1>1, <1>2, <1>3, <1>4, <1>5, <1>6 DEF Next

\* The seats of event e held or sold under the status function st.
Taken(st, e) == Cardinality(TicketsIn(st, e, Active))

\* Zero overbooking from end to end: the seats of an event that are held or sold
\* never exceed its capacity.
SeatsFit == \A e \in EventId : Taken(status, e) <= Capacity[e]

\* A reservation enters with its seats, if there is room for them, keeps them when
\* confirmed and gives them back when released.
LEMMA SeatsMove ==
    ASSUME NEW st, NEW st2, NEW r, NEW s, NEW e \in EventId, Changes(st, st2, r, s),
           Taken(st, e) <= Capacity[e],
           \/ /\ st[r] \notin Active /\ s \in Active
              /\ Request[r].event = e => Taken(st, e) + Request[r].quantity <= Capacity[e]
           \/ st[r] \in Active
    PROVE  Taken(st2, e) <= Capacity[e]
<1>1. Taken(st, e) \in Nat /\ Capacity[e] \in Nat /\ Request[r].quantity \in Nat
  <2>1. Taken(st, e) \in Nat
    BY TicketsInFinite DEF Taken
  <2>2. Request[r].quantity \in 1..MaxQty /\ MaxQty \in Nat /\ Capacity[e] \in Nat
    BY TicketsAssumption DEF Changes
  <2>. QED  BY <2>1, <2>2
<1>2. CASE Request[r].event # e \/ (st[r] \in Active <=> s \in Active)
  <2>1. TicketsIn(st2, e, Active) = TicketsIn(st, e, Active)
    BY <1>2, TicketsInSame
  <2>. QED  BY <2>1 DEF Taken
<1>3. CASE Request[r].event = e /\ st[r] \notin Active /\ s \in Active
  <2>1. Taken(st2, e) = Taken(st, e) + Request[r].quantity
    BY <1>3, TicketsInEnter DEF Taken
  <2>. QED  BY <1>3, <2>1
<1>4. CASE Request[r].event = e /\ st[r] \in Active /\ s \notin Active
  <2>1. Cardinality(TicketsIn(st2, Request[r].event, Active))
          = Cardinality(TicketsIn(st, Request[r].event, Active)) - Request[r].quantity
    BY <1>4, TicketsInLeave
  <2>2. Taken(st2, e) = Taken(st, e) - Request[r].quantity
    BY <1>4, <2>1 DEF Taken
  <2>. QED  BY <1>1, <2>2
<1>. QED  BY <1>2, <1>3, <1>4

\* No step of the saga takes more seats than there are.
LEMMA SeatsStep == Inv /\ SeatsFit /\ [Next]_vars => SeatsFit'
<1> SUFFICES ASSUME Inv, SeatsFit, [Next]_vars, NEW e \in EventId
             PROVE  Taken(status', e) <= Capacity[e]
  BY DEF SeatsFit, Taken, TicketsIn
<1> DEFINE a == status
           b == status'
<1>1. a \in [ResId -> Status] /\ Taken(a, e) <= Capacity[e]
  BY DEF SeatsFit, Inv, TypeOK
<1>2. ASSUME NEW r \in ResId, Core!Reserve(r) PROVE Taken(b, e) <= Capacity[e]
  <2>1. a[r] \notin Active /\ "PENDING" \in Active /\ Changes(a, b, r, "PENDING")
    BY <1>1, <1>2, SameWords DEF Core!Reserve, Core!Enter, Changes, Absent, Active
  <2>2. Core!Cardinality(Core!TicketsIn(a, Request[r].event, Active)) + Request[r].quantity
           <= Capacity[Request[r].event]
    BY <1>2, SameWords DEF Core!Reserve
  <2> HIDE DEF a, b
  <2>3. Taken(a, Request[r].event) + Request[r].quantity <= Capacity[Request[r].event]
    BY <2>2, SameTickets DEF Taken
  <2>. QED  BY <1>1, <2>1, <2>3, SeatsMove
<1>3. ASSUME NEW r \in ResId, NEW s \in Core!Decided, Core!Decide(r, s)
      PROVE  Taken(b, e) <= Capacity[e]
  <2>1. a[r] \in Active /\ Changes(a, b, r, s)
    BY <1>1, <1>3 DEF Core!Decide, Core!Enter, Changes, Active
  <2> HIDE DEF a, b
  <2>. QED  BY <1>1, <2>1, SeatsMove
<1>4. CASE UNCHANGED core
  BY <1>1, <1>4 DEF core
<1>5. Core!Next \/ UNCHANGED core
  BY CoreOnly DEF core, Core!vars
<1>. QED  BY <1>2, <1>3, <1>4, <1>5 DEF Core!Next

\* Whatever is repeated, reordered or late on the way from the gateway to the
\* outcome of a payment, no event is sold beyond its capacity (inventory.go
\* ReserveCapacity).
THEOREM NeverOversold == Spec => []SeatsFit
<1>1. Init => SeatsFit
  <2> SUFFICES ASSUME Init, NEW e \in EventId PROVE Taken(status, e) <= Capacity[e]
    BY DEF SeatsFit
  <2>1. \A r \in ResId : status[r] \notin Active
    BY SameWords DEF Init, Core!Init, Absent, Active
  <2>2. TicketsIn(status, e, Active) = {}
    BY <2>1 DEF TicketsIn
  <2>. QED  BY <2>2, FS_EmptySet, TicketsAssumption DEF Taken
<1>. QED  BY <1>1, SeatsStep, Invariant, PTL DEF Spec
=============================================================================
