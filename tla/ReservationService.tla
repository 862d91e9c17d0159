-------------------------- MODULE ReservationService --------------------------
(***************************************************************************)
(* pulsar-core: the reservation use cases                                  *)
(* (internal/core/application/service.go) run by the message handlers      *)
(* (internal/core/subscribers.go) of any number of replicas against one    *)
(* PostgreSQL database at READ COMMITTED, with the Redis hold written      *)
(* after the commit.                                                       *)
(*                                                                         *)
(* A worker is one consumer goroutine.  It runs one use case at a time, as *)
(* the SQL statements that use case issues, each an action of its own:     *)
(*                                                                         *)
(*   read the reservation   SELECT; sees committed rows only               *)
(*   update the event row   conditional UPDATE; waits for the row lock,    *)
(*                          then tests its WHERE on the committed row      *)
(*   write the reservation  INSERT, or UPDATE guarded by the version       *)
(*   enqueue and COMMIT     counters, reservation and outbox row at once   *)
(*   write the Redis hold   after the commit, best effort                  *)
(*                                                                         *)
(* Every writer of a reservation row first takes the lock of its event's   *)
(* row and keeps it to the end of the transaction, so two writers of one   *)
(* reservation never wait for each other on the reservation row or on its  *)
(* unique indexes; those locks are left out.                               *)
(*                                                                         *)
(* The broker delivers at least once and in any order: any command or      *)
(* event may be handed to any free worker at any time, again after it was  *)
(* acknowledged, and to two workers at the same time.                      *)
(***************************************************************************)
EXTENDS Tickets

CONSTANTS
    Worker,     \* consumer goroutines of all replicas
    None,       \* no worker: the lock is free
    Faults      \* whether replicas die, statements fail and Redis is unreachable

ASSUME ServiceAssumption ==
    /\ None \notin Worker
    /\ Faults \in BOOLEAN

VARIABLES
    rows,       \* reservations: status and version of each id (committed)
    events,     \* events: reserved_count and sold_count (committed)
    outbox,     \* outbox_events of each reservation, in commit order
    lock,       \* holder of the row lock of each event
    pc,         \* where each worker is
    job,        \* the use case it runs, and the version it read
    image,      \* after-image of the event row it updated (uncommitted)
    onSale,     \* events whose sale_opens_at has passed
    elapsed,    \* reservations whose expires_at has passed
    hold        \* hold:{reservation_id} keys in Redis

db   == <<rows, events, outbox>>
tx   == <<lock, pc, job, image>>
env  == <<onSale, elapsed>>
vars == <<rows, events, outbox, lock, pc, job, image, onSale, elapsed, hold>>

Op == {"Reserve", "Confirm", "Expire", "Fail", "Cancel"}

\* The status a use case moves the reservation to.
Target == [o \in Op |-> CASE o = "Reserve" -> "PENDING"
                          [] o = "Confirm" -> "CONFIRMED"
                          [] o = "Expire"  -> "EXPIRED"
                          [] o = "Fail"    -> "FAILED"
                          [] o = "Cancel"  -> "CANCELLED"]

\* A worker is free before its first delivery, and again once its handler has
\* returned: acknowledged, rejected for good, or handed back for redelivery.
FreeAt == {"idle", "ack", "soldout", "nak"}
InTx   == {"update", "write", "commit"}
Pc     == FreeAt \cup InTx \cup {"hold", "set"}

Row      == [status : Status, version : Nat]
Counters == [reserved : Nat, sold : Nat]
Job      == [op : Op, res : ResId, version : Nat]

NoRow   == [status |-> Absent, version |-> 0]
NoImage == [reserved |-> 0, sold |-> 0]

statusOf == [r \in ResId |-> rows[r].status]
eventOf(w) == Request[job[w].res].event
qtyOf(w)   == Request[job[w].res].quantity

TypeOK ==
    /\ rows \in [ResId -> Row]
    /\ events \in [EventId -> Counters]
    /\ outbox \in [ResId -> Seq(EventType)]
    /\ lock \in [EventId -> Worker \cup {None}]
    /\ pc \in [Worker -> Pc]
    /\ job \in [Worker -> Job \cup {None}]
    /\ \A w \in Worker : pc[w] # "idle" => job[w] \in Job
    /\ image \in [Worker -> Counters]
    /\ onSale \subseteq EventId
    /\ elapsed \subseteq ResId
    /\ hold \subseteq ResId

Init ==
    /\ rows = [r \in ResId |-> NoRow]
    /\ events = [e \in EventId |-> [reserved |-> 0, sold |-> 0]]
    /\ outbox = [r \in ResId |-> <<>>]
    /\ lock = [e \in EventId |-> None]
    /\ pc = [w \in Worker |-> "idle"]
    /\ job = [w \in Worker |-> None]
    /\ image = [w \in Worker |-> NoImage]
    /\ onSale = {}
    /\ elapsed = {}
    /\ hold = {}

-----------------------------------------------------------------------------
(* The clock. *)

OpenSale(e) ==
    /\ e \notin onSale
    /\ onSale' = onSale \cup {e}
    /\ UNCHANGED <<db, tx, elapsed, hold>>

\* expires_at is fixed when the row is created; it passes some time later.
Elapse(r) ==
    /\ rows[r].status # Absent
    /\ r \notin elapsed
    /\ elapsed' = elapsed \cup {r}
    /\ UNCHANGED <<db, tx, onSale, hold>>

\* A key whose TTL has run out; no TTL ends before the window does.
HoldLapses(r) ==
    /\ r \in hold \cap elapsed
    /\ hold' = hold \ {r}
    /\ UNCHANGED <<db, tx, env>>

-----------------------------------------------------------------------------
(* A delivery: BEGIN and the reads that decide whether there is anything   *)
(* to do.  A use case with nothing to write commits the empty transaction  *)
(* and goes on to the hold.                                                *)

Deliver(w, o, r, next) ==
    /\ pc[w] \in FreeAt
    /\ pc' = [pc EXCEPT ![w] = next]
    /\ job' = [job EXCEPT ![w] = [op |-> o, res |-> r, version |-> rows[r].version]]
    /\ UNCHANGED <<db, lock, image, env, hold>>

\* onReserve: a known id is a replay, whatever became of the reservation; an
\* event whose sale is not open yet sends the command back to the broker.
Reserve(w, r) ==
    Deliver(w, "Reserve", r,
            IF rows[r].status # Absent THEN "hold"
            ELSE IF Request[r].event \in onSale THEN "update"
            ELSE "nak")

\* Slip: a confirmation of a released reservation is taken for a replay.
ConfirmAnyDecided(w, r) ==
    Deliver(w, "Confirm", r,
            IF rows[r].status \in Decided THEN "hold"
            ELSE IF rows[r].status = "PENDING" THEN "update"
            ELSE "nak")

\* onPaymentSucceeded: no expiry gate.
Confirm(w, r) ==
    Deliver(w, "Confirm", r,
            IF rows[r].status = "CONFIRMED" THEN "hold"
            ELSE IF rows[r].status = "PENDING" THEN "update"
            ELSE "nak")

\* onReservationExpired, onPaymentFailed and Cancel: any released status is a
\* replay, a confirmed reservation is refused, and only Expire looks at the clock.
Release(w, o, r) ==
    Deliver(w, o, r,
            IF rows[r].status \in Released THEN "hold"
            ELSE IF rows[r].status = "PENDING" /\ (o = "Expire" => r \in elapsed)
                 THEN "update"
            ELSE "nak")

-----------------------------------------------------------------------------
(* The transaction. *)

\* A conditional UPDATE of the event row: one row affected, and its lock kept
\* to the end of the transaction, or none, and the use case fails.
UpdateEvent(w, guard, after, miss) ==
    LET e == eventOf(w) IN
    /\ lock[e] = None
    /\ IF guard
       THEN /\ lock' = [lock EXCEPT ![e] = w]
            /\ image' = [image EXCEPT ![w] = after]
            /\ pc' = [pc EXCEPT ![w] = "write"]
       ELSE /\ pc' = [pc EXCEPT ![w] = miss]
            /\ UNCHANGED <<lock, image>>
    /\ UNCHANGED <<db, job, env, hold>>

\* Slip: the WHERE of ReserveCapacity forgets the sold tickets.
ReserveIgnoringSold(w) ==
    LET ev == events[eventOf(w)] IN
    /\ pc[w] = "update" /\ job[w].op = "Reserve"
    /\ UpdateEvent(w, ev.reserved + qtyOf(w) <= Capacity[eventOf(w)],
                   [ev EXCEPT !.reserved = @ + qtyOf(w)], "soldout")

\* ErrSoldOut is the one rejection that is acknowledged.
ReserveCapacity(w) ==
    LET ev == events[eventOf(w)] IN
    /\ pc[w] = "update" /\ job[w].op = "Reserve"
    /\ UpdateEvent(w, ev.reserved + ev.sold + qtyOf(w) <= Capacity[eventOf(w)],
                   [ev EXCEPT !.reserved = @ + qtyOf(w)], "soldout")

CommitSold(w) ==
    LET ev == events[eventOf(w)] IN
    /\ pc[w] = "update" /\ job[w].op = "Confirm"
    /\ UpdateEvent(w, ev.reserved >= qtyOf(w),
                   [reserved |-> ev.reserved - qtyOf(w), sold |-> ev.sold + qtyOf(w)],
                   "nak")

\* Slip: ReleaseCapacity without its WHERE reserved_count >= n.
ReleaseUnguarded(w) ==
    LET ev == events[eventOf(w)] IN
    /\ pc[w] = "update" /\ job[w].op \in {"Expire", "Fail", "Cancel"}
    /\ UpdateEvent(w, TRUE, [ev EXCEPT !.reserved = @ - qtyOf(w)], "nak")

ReleaseCapacity(w) ==
    LET ev == events[eventOf(w)] IN
    /\ pc[w] = "update" /\ job[w].op \in {"Expire", "Fail", "Cancel"}
    /\ UpdateEvent(w, ev.reserved >= qtyOf(w),
                   [ev EXCEPT !.reserved = @ - qtyOf(w)], "nak")

\* Slip: an error path that neither rolls back nor commits.
RollbackKeepingLock(w, next) ==
    /\ pc' = [pc EXCEPT ![w] = next]
    /\ image' = [image EXCEPT ![w] = NoImage]
    /\ UNCHANGED <<db, lock, job, env, hold>>

\* ROLLBACK: the locks go, nothing the transaction wrote remains.
Rollback(w, next) ==
    /\ pc' = [pc EXCEPT ![w] = next]
    /\ lock' = [e \in EventId |-> IF lock[e] = w THEN None ELSE lock[e]]
    /\ image' = [image EXCEPT ![w] = NoImage]
    /\ UNCHANGED <<db, job, env, hold>>

\* The reservation statement goes through, or fails and the use case with it.
WriteRow(w, ok) ==
    \/ /\ ok
       /\ pc' = [pc EXCEPT ![w] = "commit"]
       /\ UNCHANGED <<db, lock, job, image, env, hold>>
    \/ /\ ~ok
       /\ Rollback(w, "nak")

\* Slip: the INSERT became an upsert on the primary key.
CreateUpsert(w) ==
    /\ pc[w] = "write" /\ job[w].op = "Reserve"
    /\ WriteRow(w, ~Rival(statusOf, job[w].res))

\* Slip: the partial unique index is missing.
CreateWithoutIndex(w) ==
    /\ pc[w] = "write" /\ job[w].op = "Reserve"
    /\ WriteRow(w, rows[job[w].res].status = Absent)

\* INSERT: the primary key and reservations_one_active_per_user.
Create(w) ==
    LET r == job[w].res IN
    /\ pc[w] = "write" /\ job[w].op = "Reserve"
    /\ WriteRow(w, rows[r].status = Absent /\ ~Rival(statusOf, r))

\* Slip: the UPDATE has no version guard.
UpdateUnguarded(w) ==
    /\ pc[w] = "write" /\ job[w].op # "Reserve"
    /\ WriteRow(w, TRUE)

\* Slip: the version guard lets a newer row through.
UpdateNewer(w) ==
    /\ pc[w] = "write" /\ job[w].op # "Reserve"
    /\ WriteRow(w, rows[job[w].res].version >= job[w].version)

\* UPDATE ... WHERE version = the version read.
Update(w) ==
    /\ pc[w] = "write" /\ job[w].op # "Reserve"
    /\ WriteRow(w, rows[job[w].res].version = job[w].version)

\* Enqueue and COMMIT: the event row, the reservation and the outbox record.
Commit(w) ==
    LET r == job[w].res
        s == Target[job[w].op]
    IN  /\ pc[w] = "commit"
        /\ events' = [events EXCEPT ![eventOf(w)] = image[w]]
        /\ rows' = [rows EXCEPT ![r] = [status |-> s, version |-> job[w].version + 1]]
        /\ outbox' = [outbox EXCEPT ![r] = Append(@, Announcement[s])]
        /\ lock' = [lock EXCEPT ![eventOf(w)] = None]
        /\ image' = [image EXCEPT ![w] = NoImage]
        /\ pc' = [pc EXCEPT ![w] = "hold"]
        /\ UNCHANGED <<job, env, hold>>

\* Slip: the hold is written inside the transaction, which may yet fail.
StatementFailsAfterHold(w) ==
    /\ Faults
    /\ pc[w] \in InTx
    /\ pc' = [pc EXCEPT ![w] = "nak"]
    /\ lock' = [e \in EventId |-> IF lock[e] = w THEN None ELSE lock[e]]
    /\ image' = [image EXCEPT ![w] = NoImage]
    /\ hold' = IF pc[w] = "commit" /\ job[w].op = "Reserve" THEN hold \cup {job[w].res} ELSE hold
    /\ UNCHANGED <<db, job, env>>

\* A statement fails (connection, timeout, cancelled context).
StatementFails(w) ==
    /\ Faults
    /\ pc[w] \in InTx
    /\ Rollback(w, "nak")

\* The replica dies; the message was never acknowledged.  After the COMMIT
\* this is also the commit whose answer is lost.
Crash(w) ==
    /\ Faults
    /\ pc[w] \in InTx \cup {"hold", "set"}
    /\ Rollback(w, "idle")

-----------------------------------------------------------------------------
(* After the commit. *)

\* Slip: the hold gets the whole retention window as its TTL.
WholeWindowTTL(w) ==
    /\ pc[w] = "hold" /\ job[w].op = "Reserve"
    /\ pc' = [pc EXCEPT ![w] = "set"]
    /\ UNCHANGED <<db, lock, job, image, env, hold>>

\* The TTL is what remains of the window by the clock now; Set does nothing with
\* a window that is over.
RemainingTTL(w) ==
    /\ pc[w] = "hold" /\ job[w].op = "Reserve"
    /\ pc' = [pc EXCEPT ![w] = IF job[w].res \in elapsed THEN "ack" ELSE "set"]
    /\ UNCHANGED <<db, lock, job, image, env, hold>>

\* The SET reaches Redis later, through the breaker: the window may be over and
\* the reservation decided by then.  The key, if it is written, runs out on its own.
SetHold(w) ==
    /\ pc[w] = "set"
    /\ hold' \in {hold \cup {job[w].res}} \cup (IF Faults THEN {hold} ELSE {})
    /\ pc' = [pc EXCEPT ![w] = "ack"]
    /\ UNCHANGED <<db, lock, job, image, env>>

ReleaseHold(w) ==
    /\ pc[w] = "hold" /\ job[w].op # "Reserve"
    /\ hold' \in {hold \ {job[w].res}} \cup (IF Faults THEN {hold} ELSE {})
    /\ pc' = [pc EXCEPT ![w] = "ack"]
    /\ UNCHANGED <<db, lock, job, image, env>>

-----------------------------------------------------------------------------
Handle(w) ==
    \/ ReserveCapacity(w) \/ CommitSold(w) \/ ReleaseCapacity(w)
    \/ Create(w) \/ Update(w) \/ Commit(w)
    \/ RemainingTTL(w) \/ SetHold(w) \/ ReleaseHold(w)

Next ==
    \/ \E e \in EventId : OpenSale(e)
    \/ \E r \in ResId : Elapse(r) \/ HoldLapses(r)
    \/ \E w \in Worker :
          \/ \E r \in ResId :
                \/ Reserve(w, r)
                \/ Confirm(w, r)
                \/ \E o \in {"Expire", "Fail", "Cancel"} : Release(w, o, r)
          \/ Handle(w)
          \/ StatementFails(w)
          \/ Crash(w)

Spec == Init /\ [][Next]_vars

\* PostgreSQL queues the waiters of a row lock, so a worker whose UPDATE waits is
\* not overtaken forever; every other step of a handler only depends on itself.
\* Redis drops a key whose TTL is over.
FairSpec ==
    /\ Spec
    /\ \A w \in Worker : SF_vars(Handle(w))
    /\ \A r \in ResId : WF_vars(HoldLapses(r))

-----------------------------------------------------------------------------
(* Properties. *)

\* The counters of an event are what its reservations add up to: reserved_count
\* is the tickets of its PENDING reservations and sold_count those of its
\* CONFIRMED ones, in every committed state, although the counters and the
\* reservation are written by separate statements and two handlers may both
\* have read the reservation as PENDING (service.go confirm, releaseInTx).
Conservation ==
    \A e \in EventId :
        /\ events[e].reserved = Cardinality(TicketsIn(statusOf, e, {"PENDING"}))
        /\ events[e].sold = Cardinality(TicketsIn(statusOf, e, {"CONFIRMED"}))

\* Zero overbooking: the tickets held by live reservations of an event never
\* exceed its capacity, however reservations, redeliveries, releases and
\* confirmations of several workers interleave (inventory.go ReserveCapacity).
NoOverbooking ==
    \A e \in EventId : Cardinality(TicketsIn(statusOf, e, Active)) <= Capacity[e]

\* The outbox tells the story of the reservation and nothing else: one
\* ticket.reserved per row, followed by exactly one event that agrees with the
\* decision (the reason of a ticket.released included), whatever was redelivered,
\* raced or crashed (service.go reserve, confirm, releaseInTx).
OutboxMatches ==
    \A r \in ResId :
        LET s == rows[r].status IN
        outbox[r] = IF s = Absent THEN <<>>
                    ELSE IF s = "PENDING" THEN <<Announcement["PENDING"]>>
                    ELSE <<Announcement["PENDING"], Announcement[s]>>

\* A decided reservation never changes again: a confirmed seat is not released
\* by a late payment.failed or reservation.expired, nor a released one confirmed
\* or released under another reason (the replay guards and the version guard).
DecisionFinal ==
    [][\A r \in ResId : rows[r].status \in Decided => rows'[r] = rows[r]]_rows

\* The use case o has taken effect on a reservation in status s.
Applied(o, s) == CASE o = "Reserve" -> s # Absent
                   [] o = "Confirm" -> s = "CONFIRMED"
                   [] OTHER         -> s \in Released

\* What a handler acknowledges is committed and stays: after an acknowledged
\* reserve command the reservation exists, after payment.succeeded it is
\* CONFIRMED, after payment.failed or reservation.expired its seats are back.
AckedApplied ==
    \A w \in Worker : pc[w] = "ack" => Applied(job[w].op, rows[job[w].res].status)

\* Redis never announces a reservation that PostgreSQL does not have: the hold
\* is written after the commit, so a rolled back reserve leaves none.
HoldBacked == \A r \in hold : rows[r].status # Absent

\* One live reservation per user and event, although two commands of the same
\* user race on two workers and an earlier reservation may be released between
\* the read and the INSERT (reservations_one_active_per_user).
OneActivePerUser ==
    \A r \in ResId : rows[r].status \in Active => ~Rival(statusOf, r)

\* Every delivery comes to an end: no handler waits for a row lock forever, so
\* no rollback, sold-out or lost race leaves the lock of an event behind.
HandlerReturns == \A w \in Worker : pc[w] \notin FreeAt ~> pc[w] \in FreeAt

\* A stale hold ends for good: a reserve handler overtaken by the decision, or a
\* redelivered one, may write the hold of a reservation that is over, and a SET
\* whose TTL was computed in time may land after expires_at, but from some moment
\* after the window on there is no hold any more (service.go Reserve).
HoldsEnd == \A r \in ResId : r \in elapsed ~> [](r \notin hold)

\* The use cases, run as interleaved transactions by any number of workers,
\* behave as the indivisible steps of TicketInventory.
Promise == INSTANCE TicketInventory WITH status <- statusOf, announced <- outbox
Refinement == Promise!Spec
=============================================================================
