-------------------------------- MODULE Sweeper --------------------------------
(***************************************************************************)
(* pulsar-chrono: the sweepers (internal/chrono/sweeper.go) that look for  *)
(* overdue reservations and publish reservation.expired, together with the *)
(* stream and the consumer of pulsar-core that applies the event.  The use *)
(* cases of pulsar-core are single steps here, as TicketInventory has them *)
(* and ReservationService implements them.                                 *)
(*                                                                         *)
(* FindExpired locks the rows it returns, but its transaction is over      *)
(* before the first event is published: the lock only keeps two FindExpired *)
(* from waiting for each other.  The message id is the same in every sweep, *)
(* so the stream drops a repetition within its duplicate window; afterwards *)
(* a reservation that is still PENDING is announced again.                 *)
(*                                                                         *)
(* A reservation is named by its rank in ORDER BY expires_at.              *)
(***************************************************************************)
EXTENDS Naturals, FiniteSets

CONSTANTS
    Reservations,   \* how many reservations there are
    Sweeper,        \* the sweepers of all replicas
    Steady,         \* one of them, which is kept running
    BatchSizes,     \* the values SWEEP_BATCH may have
    MaxDeliver      \* deliveries before the dead-letter queue

ASSUME SweeperAssumption ==
    /\ Reservations \in Nat
    /\ Steady \in Sweeper
    /\ BatchSizes \subseteq Nat \ {0}
    /\ MaxDeliver \in Nat \ {0}

VARIABLES
    batchSize,  \* SWEEP_BATCH, configured once for all replicas
    status,     \* reservations.status
    overdue,    \* expires_at has passed on the clock of PostgreSQL
    late,       \* expires_at has passed on the clock of pulsar-core
    announced,  \* reservations whose event was ever stored
    recent,     \* those whose message id is inside the duplicate window
    left,       \* deliveries the event of each reservation has left
    cleaned,    \* holds deleted by a sweeper
    pc,         \* where each sweeper is
    batch,      \* the reservations it found
    sent        \* those of them it announced

stream  == <<announced, recent, left>>
sweeper == <<pc, batch, sent>>
vars    == <<batchSize, status, overdue, late, announced, recent, left, cleaned,
             pc, batch, sent>>

Res == 1..Reservations

TypeOK ==
    /\ batchSize \in BatchSizes
    /\ status \in [Res -> {"PENDING", "CONFIRMED", "EXPIRED"}]
    /\ overdue \subseteq Res
    /\ late \subseteq Res
    /\ announced \subseteq overdue
    /\ recent \subseteq announced
    /\ left \in [Res -> 0..MaxDeliver]
    /\ cleaned \subseteq Res
    /\ pc \in [Sweeper -> {"idle", "publish", "clean"}]
    /\ batch \in [Sweeper -> SUBSET overdue]
    /\ sent \in [Sweeper -> SUBSET overdue]
    /\ \A w \in Sweeper : sent[w] \subseteq batch[w]

Init ==
    /\ batchSize \in BatchSizes
    /\ status = [r \in Res |-> "PENDING"]
    /\ overdue = {}
    /\ late = {}
    /\ announced = {}
    /\ recent = {}
    /\ left = [r \in Res |-> 0]
    /\ cleaned = {}
    /\ pc = [w \in Sweeper |-> "idle"]
    /\ batch = [w \in Sweeper |-> {}]
    /\ sent = [w \in Sweeper |-> {}]

-----------------------------------------------------------------------------
(* The clocks, which differ, and a payment that arrives in time or late. *)

Elapse(r) ==
    /\ r \notin overdue
    /\ overdue' = overdue \cup {r}
    /\ UNCHANGED <<batchSize, status, late, stream, cleaned, sweeper>>

ElapseAtCore(r) ==
    /\ r \notin late
    /\ late' = late \cup {r}
    /\ UNCHANGED <<batchSize, status, overdue, stream, cleaned, sweeper>>

Confirm(r) ==
    /\ status[r] = "PENDING"
    /\ status' = [status EXCEPT ![r] = "CONFIRMED"]
    /\ UNCHANGED <<batchSize, overdue, late, stream, cleaned, sweeper>>

-----------------------------------------------------------------------------
(* A sweep. *)

\* The first batchSize reservations of S.
Oldest(S) == {r \in S : Cardinality({q \in S : q < r}) < batchSize}

\* Slip: the query forgets expires_at < now().
FindAnyPending(w, locked) ==
    LET found == Oldest({r \in Res : status[r] = "PENDING"} \ locked) IN
    /\ pc[w] = "idle"
    /\ found # {}
    /\ batch' = [batch EXCEPT ![w] = found]
    /\ pc' = [pc EXCEPT ![w] = "publish"]
    /\ UNCHANGED <<batchSize, status, overdue, late, stream, cleaned, sent>>

\* Slip: the query forgets status = 'PENDING'.
FindAnyOverdue(w, locked) ==
    LET found == Oldest(overdue \ locked) IN
    /\ pc[w] = "idle"
    /\ found # {}
    /\ batch' = [batch EXCEPT ![w] = found]
    /\ pc' = [pc EXCEPT ![w] = "publish"]
    /\ UNCHANGED <<batchSize, status, overdue, late, stream, cleaned, sent>>

\* FindExpired: rows that are locked at that moment are skipped.
FindExpired(w, locked) ==
    LET found == Oldest({r \in overdue : status[r] = "PENDING"} \ locked) IN
    /\ pc[w] = "idle"
    /\ found # {}
    /\ batch' = [batch EXCEPT ![w] = found]
    /\ pc' = [pc EXCEPT ![w] = "publish"]
    /\ UNCHANGED <<batchSize, status, overdue, late, stream, cleaned, sent>>

\* sweep returns.
Return(w) ==
    /\ pc' = [pc EXCEPT ![w] = "idle"]
    /\ batch' = [batch EXCEPT ![w] = {}]
    /\ sent' = [sent EXCEPT ![w] = {}]

\* The oldest reservation of the batch not announced yet.
IsNext(w, r) ==
    /\ pc[w] = "publish"
    /\ r \in batch[w] \ sent[w]
    /\ \A q \in batch[w] \ sent[w] : r <= q

\* JetStream stores the event, or takes it for a duplicate.  An older copy that
\* is still being delivered can do nothing the new one cannot.
Store(r) ==
    /\ announced' = announced \cup {r}
    /\ recent' = recent \cup {r}
    /\ left' = IF r \in recent THEN left ELSE [left EXCEPT ![r] = MaxDeliver]

Publish(w) == \E r \in Res :
    /\ IsNext(w, r)
    /\ Store(r)
    /\ sent' = [sent EXCEPT ![w] = @ \cup {r}]
    /\ pc' = [pc EXCEPT ![w] = IF sent'[w] = batch[w] THEN "clean" ELSE "publish"]
    /\ UNCHANGED <<batchSize, status, overdue, late, cleaned, batch>>

\* Slip: the hold hygiene also runs when the batch was cut short.
PublishFailsThenCleans(w) == \E r \in Res :
    /\ IsNext(w, r)
    /\ UNCHANGED stream
    /\ pc' = [pc EXCEPT ![w] = "clean"]
    /\ UNCHANGED <<batchSize, status, overdue, late, cleaned, batch, sent>>

\* Publish returns an error, the event stored or not: the sweep ends without
\* the hold hygiene.
PublishFails(w) == \E r \in Res :
    /\ IsNext(w, r)
    /\ Store(r) \/ UNCHANGED stream
    /\ Return(w)
    /\ UNCHANGED <<batchSize, status, overdue, late, cleaned>>

\* holds.Release of the whole batch, each best effort.
Clean(w) == \E done \in SUBSET batch[w] :
    /\ pc[w] = "clean"
    /\ cleaned' = cleaned \cup done
    /\ Return(w)
    /\ UNCHANGED <<batchSize, status, overdue, late, stream>>

Crash(w) ==
    /\ pc[w] # "idle"
    /\ Return(w)
    /\ UNCHANGED <<batchSize, status, overdue, late, stream, cleaned>>

-----------------------------------------------------------------------------
(* The stream and its consumer. *)

Lapse(r) ==
    /\ r \in recent
    /\ recent' = recent \ {r}
    /\ UNCHANGED <<batchSize, status, overdue, late, announced, left, cleaned, sweeper>>

\* onReservationExpired returns nil: the seats go back, or went back before.
Expire(r) ==
    /\ left[r] > 0
    /\ status[r] = "EXPIRED" \/ (status[r] = "PENDING" /\ r \in late)
    /\ status' = [status EXCEPT ![r] = "EXPIRED"]
    /\ left' = [left EXCEPT ![r] = 0]
    /\ UNCHANGED <<batchSize, overdue, late, announced, recent, cleaned, sweeper>>

\* It returns an error: the reservation is confirmed, or not overdue on the
\* clock of pulsar-core, or the database fails.  The last delivery that fails
\* leaves the event in the dead-letter queue.
ExpireFails(r) ==
    /\ left[r] > 0
    /\ left' = [left EXCEPT ![r] = @ - 1]
    /\ UNCHANGED <<batchSize, status, overdue, late, announced, recent, cleaned, sweeper>>

-----------------------------------------------------------------------------
Next ==
    \/ \E r \in Res :
          \/ Elapse(r) \/ ElapseAtCore(r) \/ Confirm(r)
          \/ Lapse(r) \/ Expire(r) \/ ExpireFails(r)
    \/ \E w \in Sweeper :
          \/ \E locked \in SUBSET Res : FindExpired(w, locked)
          \/ Publish(w) \/ PublishFails(w) \/ Clean(w) \/ Crash(w)

Spec == Init /\ [][Next]_vars

\* The ticker of one replica goes on sweeping, and rows are not locked at every
\* sweep of it, while the other replicas may stop anywhere; the broker does not
\* refuse every message, nor the consumer fail on every delivery, for ever; the
\* duplicate window passes and clocks advance.
FairSpec ==
    /\ Spec
    /\ SF_vars(FindExpired(Steady, {}))
    /\ SF_vars(Publish(Steady))
    /\ WF_vars(Clean(Steady))
    /\ \A r \in Res :
          /\ WF_vars(ElapseAtCore(r))
          /\ WF_vars(Lapse(r))
          /\ SF_vars(Expire(r))

-----------------------------------------------------------------------------
(* Properties. *)

\* The hygiene never runs ahead of the compensation: a sweep that has come to it
\* has every event of its batch in the stream, also when another publish of the
\* batch failed, and no hold is deleted before (sweeper.go sweep: "only after every
\* compensation event of the batch is published").
CleanedAfterAnnounced ==
    /\ cleaned \subseteq announced
    /\ \A w \in Sweeper : pc[w] = "clean" => batch[w] \subseteq announced

\* No seat leaks: an overdue reservation does not stay PENDING, although its
\* event may end in the dead-letter queue, be dropped as a duplicate or wait
\* behind a full batch (sweeper.go Sweeper: "the guarantee that no seat leaks").
NoSeatLeaks == \A r \in Res : r \in overdue ~> status[r] # "PENDING"
=============================================================================
