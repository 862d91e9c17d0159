------------------------ MODULE ReservationServiceProofs ------------------------
(***************************************************************************)
(* Proofs about ReservationService, for any number of workers, events,     *)
(* users and reservations.                                                 *)
(*                                                                         *)
(* Conservation is not inductive: a worker about to commit carries an      *)
(* after-image of the counters computed earlier, and a version read        *)
(* earlier still.  The strengthening says what makes both still good at    *)
(* the COMMIT: the worker holds the lock of the event's row (LockInv), its *)
(* image is the committed counters moved by its quantity (ImageInv), and   *)
(* the row it is about to write is still as its guard saw it (WriteInv),   *)
(* because the version of a row says which status it has (RowInv).         *)
(*                                                                         *)
(* A converse of LockInv, that a held lock is held by a writer, rules out  *)
(* a circle of waiters (NoCircularWait).                                   *)
(***************************************************************************)
EXTENDS ReservationService, TicketsProofs, SequenceTheorems, TLAPS

Writing == {"write", "commit"}

\* A worker that has updated the event row holds its lock.
LockInv == \A w \in Worker : pc[w] \in Writing => lock[eventOf(w)] = w

\* The version counts the changes of status.
RowInv ==
    \A r \in ResId :
        rows[r].version = IF rows[r].status = Absent THEN 0
                          ELSE IF rows[r].status = "PENDING" THEN 1 ELSE 2

\* A worker inside its transaction read no row (Reserve) or a PENDING one.
JobInv ==
    \A w \in Worker :
        pc[w] \in InTx => job[w].version = IF job[w].op = "Reserve" THEN 0 ELSE 1

\* The image of worker w is the counters ev of its event, moved by its use case.
Moved(w, ev) ==
    LET n == qtyOf(w) IN
    CASE job[w].op = "Reserve" ->
            /\ ev.reserved + ev.sold + n <= Capacity[eventOf(w)]
            /\ image[w] = [reserved |-> ev.reserved + n, sold |-> ev.sold]
      [] job[w].op = "Confirm" ->
            /\ ev.reserved >= n
            /\ image[w] = [reserved |-> ev.reserved - n, sold |-> ev.sold + n]
      [] OTHER ->
            /\ ev.reserved >= n
            /\ image[w] = [reserved |-> ev.reserved - n, sold |-> ev.sold]

\* The image a worker will commit follows from the counters as they are now.
ImageInv == \A w \in Worker : pc[w] \in Writing => Moved(w, events[eventOf(w)])

\* What the reservation statement tested still holds at the COMMIT.
WriteInv ==
    \A w \in Worker : pc[w] = "commit" =>
        IF job[w].op = "Reserve"
        THEN rows[job[w].res].status = Absent /\ ~Rival(statusOf, job[w].res)
        ELSE rows[job[w].res].status = "PENDING"

\* The use case of a worker past its COMMIT has taken effect.
DoneInv ==
    \A w \in Worker :
        pc[w] \in {"hold", "set", "ack"} => Applied(job[w].op, rows[job[w].res].status)

\* The CHECK constraint events_counts_valid.
CountersFit == \A e \in EventId : events[e].reserved + events[e].sold <= Capacity[e]

IInv ==
    /\ TypeOK /\ LockInv /\ RowInv /\ JobInv /\ ImageInv /\ WriteInv
    /\ DoneInv /\ HoldBacked /\ CountersFit /\ Conservation /\ OutboxMatches
    /\ OneActivePerUser

-----------------------------------------------------------------------------
(* Types. *)

\* A worker with a job works on a known reservation, event and quantity.
LEMMA JobTypes ==
    ASSUME TypeOK, NEW w \in Worker, pc[w] # "idle"
    PROVE  /\ job[w] \in Job /\ job[w].op \in Op /\ job[w].res \in ResId /\ job[w].version \in Nat
           /\ eventOf(w) \in EventId /\ qtyOf(w) \in Nat \ {0}
           /\ Capacity[eventOf(w)] \in Nat
           /\ Target[job[w].op] \in Status \ {Absent}
           /\ Announcement[Target[job[w].op]] \in EventType
<1>1. job[w] \in Job
    BY DEF TypeOK
<1>2. /\ job[w].op \in Op /\ job[w].res \in ResId /\ job[w].version \in Nat
    BY <1>1 DEF Job
<1>3. /\ Request[job[w].res].event \in EventId
      /\ Request[job[w].res].quantity \in 1..MaxQty
    BY <1>2, TicketsAssumption
<1>4. Target[job[w].op] \in Status \ {Absent} /\ Target[job[w].op] \in Decided \cup {"PENDING"}
    BY <1>2 DEF Target, Op, Status, Absent, Released, Active, Decided
<1>5. Announcement[Target[job[w].op]] \in EventType
    BY <1>4 DEF Announcement, EventType, Decided, Released
<1> QED BY <1>1, <1>2, <1>3, <1>4, <1>5, TicketsAssumption DEF eventOf, qtyOf

\* The three updates of the event row: the row is locked and left with an image
\* that is again a pair of counters, or nothing but the place of the worker moves.
LEMMA EventUpdates ==
    ASSUME TypeOK, NEW w \in Worker,
           ReserveCapacity(w) \/ CommitSold(w) \/ ReleaseCapacity(w)
    PROVE  /\ pc[w] = "update"
           /\ lock[eventOf(w)] = None
           /\ UNCHANGED <<db, job, env, hold>>
           /\ \/ /\ lock' = [lock EXCEPT ![eventOf(w)] = w]
                 /\ pc' = [pc EXCEPT ![w] = "write"]
                 /\ \E c \in Counters : image' = [image EXCEPT ![w] = c]
              \/ /\ \E p \in {"soldout", "nak"} : pc' = [pc EXCEPT ![w] = p]
                 /\ UNCHANGED <<lock, image>>
<1> DEFINE ev == events[eventOf(w)]
<1>1. pc[w] = "update"
    BY DEF ReserveCapacity, CommitSold, ReleaseCapacity
<1>2. /\ ev \in Counters /\ ev.reserved \in Nat /\ ev.sold \in Nat
      /\ qtyOf(w) \in Nat
    BY <1>1, JobTypes DEF TypeOK, Counters
<1>3. ASSUME ReserveCapacity(w) PROVE [ev EXCEPT !.reserved = @ + qtyOf(w)] \in Counters
    BY <1>2 DEF Counters
<1>4. ASSUME ev.reserved >= qtyOf(w)
      PROVE  /\ [ev EXCEPT !.reserved = @ - qtyOf(w)] \in Counters
             /\ [reserved |-> ev.reserved - qtyOf(w), sold |-> ev.sold + qtyOf(w)] \in Counters
    BY <1>2, <1>4 DEF Counters
<1>5. CASE ReserveCapacity(w)
    BY <1>1, <1>3, <1>5 DEF ReserveCapacity, UpdateEvent
<1>6. CASE CommitSold(w)
    BY <1>1, <1>4, <1>6 DEF CommitSold, UpdateEvent
<1>7. CASE ReleaseCapacity(w)
    BY <1>1, <1>4, <1>7 DEF ReleaseCapacity, UpdateEvent
<1> QED BY <1>5, <1>6, <1>7

\* Every step keeps the types.
LEMMA TypeStep == TypeOK /\ [Next]_vars => TypeOK'
<1> SUFFICES ASSUME TypeOK, [Next]_vars PROVE TypeOK'
    OBVIOUS
<1>1. ASSUME NEW e \in EventId, OpenSale(e) PROVE TypeOK'
    BY <1>1 DEF OpenSale, TypeOK, db, tx
<1>2. ASSUME NEW r \in ResId, Elapse(r) PROVE TypeOK'
    BY <1>2 DEF Elapse, TypeOK, db, tx
<1>3. ASSUME NEW r \in ResId, HoldLapses(r) PROVE TypeOK'
    BY <1>3 DEF HoldLapses, TypeOK, db, tx, env
<1>4. ASSUME NEW w \in Worker, NEW o \in Op, NEW r \in ResId,
             NEW next \in Pc \ {"idle"}, Deliver(w, o, r, next)
      PROVE  TypeOK'
    BY <1>4 DEF Deliver, TypeOK, Job, Row, db, env
<1>5. ASSUME NEW w \in Worker, ReserveCapacity(w) \/ CommitSold(w) \/ ReleaseCapacity(w)
      PROVE  TypeOK'
    <2>1. /\ eventOf(w) \in EventId /\ job[w] \in Job /\ pc[w] # "idle"
        BY <1>5, EventUpdates, JobTypes
    <2>2. /\ lock' \in [EventId -> Worker \cup {None}] /\ image' \in [Worker -> Counters]
        BY <1>5, <2>1, EventUpdates DEF TypeOK
    <2>3. /\ pc' \in [Worker -> Pc]
          /\ \A v \in Worker : pc'[v] # "idle" => job[v] \in Job
        BY <1>5, <2>1, EventUpdates DEF TypeOK, Pc, InTx, FreeAt
    <2> QED BY <1>5, <2>2, <2>3, EventUpdates DEF TypeOK, db, env
<1>6. ASSUME NEW w \in Worker, NEW next \in FreeAt, Rollback(w, next), pc[w] # "idle"
      PROVE  TypeOK'
    BY <1>6 DEF Rollback, TypeOK, NoImage, Counters, FreeAt, Pc, db, env
<1>7. ASSUME NEW w \in Worker, pc[w] = "write", NEW ok, WriteRow(w, ok) PROVE TypeOK'
    <2>1. CASE ok
        BY <1>7, <2>1 DEF WriteRow, TypeOK, Pc, InTx, db, env
    <2>2. CASE ~ok
        BY <1>6, <1>7, <2>2 DEF WriteRow, FreeAt
    <2> QED BY <2>1, <2>2
<1>8. ASSUME NEW w \in Worker, Commit(w) PROVE TypeOK'
    <2> DEFINE r == job[w].res
               s == Target[job[w].op]
    <2>1. /\ r \in ResId /\ s \in Status /\ Announcement[s] \in EventType
          /\ job[w].version \in Nat /\ eventOf(w) \in EventId
        BY <1>8, JobTypes DEF Commit
    <2>2. [status |-> s, version |-> job[w].version + 1] \in Row
        BY <2>1 DEF Row
    <2>3. Append(outbox[r], Announcement[s]) \in Seq(EventType)
        BY <2>1 DEF TypeOK
    <2> HIDE DEF r, s
    <2>4. /\ rows' \in [ResId -> Row] /\ events' \in [EventId -> Counters]
          /\ outbox' \in [ResId -> Seq(EventType)]
        BY <1>8, <2>1, <2>2, <2>3 DEF Commit, TypeOK, r, s
    <2>5. /\ lock' \in [EventId -> Worker \cup {None}] /\ pc' \in [Worker -> Pc]
          /\ image' \in [Worker -> Counters]
        BY <1>8 DEF Commit, TypeOK, NoImage, Counters, Pc
    <2> QED BY <1>8, <2>4, <2>5 DEF Commit, TypeOK, env
<1>9. ASSUME NEW w \in Worker, RemainingTTL(w) \/ SetHold(w) \/ ReleaseHold(w)
      PROVE  TypeOK'
    BY <1>9, JobTypes DEF RemainingTTL, SetHold, ReleaseHold, TypeOK, Pc, FreeAt, db, env
<1>10. CASE UNCHANGED vars
    BY <1>10 DEF vars, TypeOK
<1> QED
    <2>1. ASSUME NEW w \in Worker, NEW r \in ResId,
                 \/ Reserve(w, r) \/ Confirm(w, r)
                 \/ \E o \in {"Expire", "Fail", "Cancel"} : Release(w, o, r)
          PROVE  TypeOK'
        BY <1>4, <2>1 DEF Reserve, Confirm, Release, Op, Pc, FreeAt, InTx
    <2>2. ASSUME NEW w \in Worker, Handle(w) PROVE TypeOK'
        BY <1>5, <1>7, <1>8, <1>9, <2>2 DEF Handle, Create, Update
    <2>3. ASSUME NEW w \in Worker, StatementFails(w) \/ Crash(w) PROVE TypeOK'
        BY <1>6, <2>3 DEF StatementFails, Crash, FreeAt, InTx
    <2> QED BY <1>1, <1>2, <1>3, <1>10, <2>1, <2>2, <2>3 DEF Next

\* The variables of ReservationService keep their types: in particular no
\* UPDATE drives reserved_count below zero.
THEOREM TypeCorrect == Spec => []TypeOK
<1>1. Init => TypeOK
    BY DEF Init, TypeOK, Row, Counters, NoRow, NoImage, Status, Absent, Pc, FreeAt
<1> QED BY <1>1, TypeStep, PTL DEF Spec

-----------------------------------------------------------------------------
(* The kinds of steps, by what they do to the database and to one worker.  *)

\* A delivery that has read the reservation.
Begins(w, o, r, next) ==
    /\ Deliver(w, o, r, next)
    /\ next = "update" => rows[r].status = IF o = "Reserve" THEN Absent ELSE "PENDING"
    /\ next = "hold" => Applied(o, rows[r].status)

\* The UPDATE of the event row.
Counts(w) == ReserveCapacity(w) \/ CommitSold(w) \/ ReleaseCapacity(w)

\* The reservation statement, gone through.
Writes(w) ==
    /\ pc[w] = "write"
    /\ IF job[w].op = "Reserve"
       THEN rows[job[w].res].status = Absent /\ ~Rival(statusOf, job[w].res)
       ELSE rows[job[w].res].version = job[w].version
    /\ pc' = [pc EXCEPT ![w] = "commit"]
    /\ UNCHANGED <<db, lock, job, image, env, hold>>

\* A rollback.
GivesUp(w, next) == pc[w] # "idle" /\ Rollback(w, next)

\* On the way to the Redis write, the write, or its omission.
Holds(w) ==
    /\ pc[w] \in {"hold", "set"}
    /\ \E next \in {"set", "ack"} : pc' = [pc EXCEPT ![w] = next]
    /\ hold' \subseteq hold \cup {job[w].res}
    /\ UNCHANGED <<db, lock, job, image, env>>

\* Nothing but time passes.
Waits == UNCHANGED <<db, tx>> /\ hold' \subseteq hold

\* Every step is of one of these kinds.
LEMMA StepKinds ==
    ASSUME TypeOK, [Next]_vars
    PROVE  \/ Waits
           \/ \E w \in Worker :
                 \/ \E o \in Op, r \in ResId, next \in {"update", "hold", "nak"} :
                       Begins(w, o, r, next)
                 \/ Counts(w)
                 \/ Writes(w)
                 \/ \E next \in {"idle", "nak"} : GivesUp(w, next)
                 \/ Commit(w)
                 \/ Holds(w)
<1>1. ASSUME NEW e \in EventId, OpenSale(e) PROVE Waits
    BY <1>1 DEF OpenSale, Waits
<1>2. ASSUME NEW r \in ResId, Elapse(r) \/ HoldLapses(r) PROVE Waits
    BY <1>2 DEF Elapse, HoldLapses, Waits
<1>3. CASE UNCHANGED vars
    BY <1>3 DEF vars, Waits, db, tx
<1>4. ASSUME NEW w \in Worker, NEW r \in ResId, Reserve(w, r)
      PROVE  \E next \in {"update", "hold", "nak"} : Begins(w, "Reserve", r, next)
    BY <1>4 DEF Reserve, Begins, Applied
<1>5. ASSUME NEW w \in Worker, NEW r \in ResId, Confirm(w, r)
      PROVE  \E next \in {"update", "hold", "nak"} : Begins(w, "Confirm", r, next)
    BY <1>5 DEF Confirm, Begins, Applied
<1>6. ASSUME NEW w \in Worker, NEW r \in ResId, NEW o \in {"Expire", "Fail", "Cancel"},
             Release(w, o, r)
      PROVE  \E next \in {"update", "hold", "nak"} : Begins(w, o, r, next)
    BY <1>6 DEF Release, Begins, Applied
<1>7. ASSUME NEW w \in Worker, Create(w) \/ Update(w)
      PROVE  Writes(w) \/ GivesUp(w, "nak")
    BY <1>7 DEF Create, Update, WriteRow, Writes, GivesUp
<1>8. ASSUME NEW w \in Worker, RemainingTTL(w) \/ SetHold(w) \/ ReleaseHold(w)
      PROVE  Holds(w)
    BY <1>8 DEF RemainingTTL, SetHold, ReleaseHold, Holds
<1>9. ASSUME NEW w \in Worker, StatementFails(w) \/ Crash(w)
      PROVE  \E next \in {"idle", "nak"} : GivesUp(w, next)
    BY <1>9 DEF StatementFails, Crash, GivesUp, InTx
<1> QED
    <2>1. Op = {"Reserve", "Confirm"} \cup {"Expire", "Fail", "Cancel"}
        BY DEF Op
    <2> QED BY <1>1, <1>2, <1>3, <1>4, <1>5, <1>6, <1>7, <1>8, <1>9, <2>1
            DEF Next, Handle, Counts

-----------------------------------------------------------------------------
(* The invariant of the workers. *)

\* Two workers that both write hold different events.
LEMMA LockStep ==
    ASSUME TypeOK, LockInv, [Next]_vars PROVE LockInv'
<1> SUFFICES ASSUME NEW v \in Worker, pc'[v] \in Writing
             PROVE  lock'[eventOf(v)'] = v
    BY DEF LockInv
<1> USE DEF LockInv, Writing, eventOf
<1>1. CASE Waits
    BY <1>1 DEF Waits, tx
<1>2. ASSUME NEW w \in Worker, NEW o \in Op, NEW r \in ResId,
             NEW next \in {"update", "hold", "nak"}, Begins(w, o, r, next)
      PROVE  lock'[eventOf(v)'] = v
    BY <1>2 DEF Begins, Deliver, TypeOK
<1>3. ASSUME NEW w \in Worker, Counts(w) PROVE lock'[eventOf(v)'] = v
    <2>1. /\ pc[w] = "update" /\ eventOf(w) \in EventId /\ lock[eventOf(w)] = None
          /\ pc[v] # "idle" => eventOf(v) \in EventId
        BY <1>3, EventUpdates, JobTypes DEF Counts
    <2>2. CASE v = w
        BY <1>3, <2>1, <2>2, EventUpdates DEF Counts, TypeOK
    <2>3. CASE v # w
        BY <1>3, <2>1, <2>3, EventUpdates, ServiceAssumption DEF Counts, TypeOK
    <2> QED BY <2>2, <2>3
<1>4. ASSUME NEW w \in Worker, Writes(w) PROVE lock'[eventOf(v)'] = v
    BY <1>4 DEF Writes, TypeOK
<1>5. ASSUME NEW w \in Worker, NEW next \in {"idle", "nak"}, GivesUp(w, next)
      PROVE  lock'[eventOf(v)'] = v
    <2>1. v # w /\ pc[v] \in Writing /\ job'[v] = job[v]
        BY <1>5 DEF GivesUp, Rollback, TypeOK
    <2>2. eventOf(v) \in EventId
        BY <2>1, JobTypes
    <2> QED BY <1>5, <2>1, <2>2 DEF GivesUp, Rollback
<1>6. ASSUME NEW w \in Worker, Commit(w) PROVE lock'[eventOf(v)'] = v
    BY <1>6 DEF Commit, TypeOK
<1>7. ASSUME NEW w \in Worker, Holds(w) PROVE lock'[eventOf(v)'] = v
    BY <1>7 DEF Holds, TypeOK
<1> QED BY <1>1, <1>2, <1>3, <1>4, <1>5, <1>6, <1>7, StepKinds

\* What a worker read decides the version it carries.
LEMMA JobStep ==
    ASSUME TypeOK, RowInv, JobInv, [Next]_vars PROVE JobInv'
<1> SUFFICES ASSUME NEW v \in Worker, pc'[v] \in InTx
             PROVE  job'[v].version = IF job'[v].op = "Reserve" THEN 0 ELSE 1
    BY DEF JobInv
<1> USE DEF JobInv, InTx
<1>1. CASE Waits
    BY <1>1 DEF Waits, tx
<1>2. ASSUME NEW w \in Worker, NEW o \in Op, NEW r \in ResId,
             NEW next \in {"update", "hold", "nak"}, Begins(w, o, r, next)
      PROVE  job'[v].version = IF job'[v].op = "Reserve" THEN 0 ELSE 1
    <2>1. CASE v = w
        BY <1>2, <2>1 DEF Begins, Deliver, TypeOK, RowInv, Absent
    <2>2. CASE v # w
        BY <1>2, <2>2 DEF Begins, Deliver, TypeOK
    <2> QED BY <2>1, <2>2
<1>3. ASSUME NEW w \in Worker, Counts(w)
      PROVE  job'[v].version = IF job'[v].op = "Reserve" THEN 0 ELSE 1
    BY <1>3, EventUpdates DEF Counts, TypeOK
<1>4. ASSUME NEW w \in Worker, Writes(w) \/ Holds(w)
      PROVE  job'[v].version = IF job'[v].op = "Reserve" THEN 0 ELSE 1
    BY <1>4 DEF Writes, Holds, TypeOK
<1>5. ASSUME NEW w \in Worker, NEW next \in {"idle", "nak"}, GivesUp(w, next)
      PROVE  job'[v].version = IF job'[v].op = "Reserve" THEN 0 ELSE 1
    BY <1>5 DEF GivesUp, Rollback, TypeOK
<1>6. ASSUME NEW w \in Worker, Commit(w)
      PROVE  job'[v].version = IF job'[v].op = "Reserve" THEN 0 ELSE 1
    BY <1>6 DEF Commit, TypeOK
<1> QED BY <1>1, <1>2, <1>3, <1>4, <1>5, <1>6, StepKinds

\* The event row moves under no worker that has it locked.
LEMMA ImageStep ==
    ASSUME TypeOK, LockInv, ImageInv, [Next]_vars PROVE ImageInv'
<1> SUFFICES ASSUME NEW v \in Worker, pc'[v] \in Writing
             PROVE  Moved(v, events[eventOf(v)])'
    BY DEF ImageInv
<1>0. ASSUME pc[v] \in Writing, job'[v] = job[v], image'[v] = image[v],
             events'[eventOf(v)] = events[eventOf(v)]
      PROVE  Moved(v, events[eventOf(v)])'
    <2> DEFINE ev == events[eventOf(v)]
               n  == qtyOf(v)
    <2>1. Moved(v, ev)
        BY <1>0 DEF ImageInv
    <2>2. ev' = ev /\ n' = n /\ eventOf(v)' = eventOf(v)
        BY <1>0 DEF eventOf, qtyOf
    <2>3. qtyOf(v)' = qtyOf(v)
        BY <2>2
    <2> HIDE DEF ev, n
    <2>4. Moved(v, ev)'
        BY <1>0, <2>1, <2>2, <2>3 DEF Moved
    <2> QED BY <2>4 DEF ev
<1>1. CASE Waits
    BY <1>0, <1>1 DEF Waits, tx, db
<1>2. ASSUME NEW w \in Worker, NEW o \in Op, NEW r \in ResId,
             NEW next \in {"update", "hold", "nak"}, Begins(w, o, r, next)
      PROVE  Moved(v, events[eventOf(v)])'
    <2>1. v # w
        BY <1>2 DEF Begins, Deliver, TypeOK, Writing
    <2> QED BY <1>0, <1>2, <2>1 DEF Begins, Deliver, TypeOK, db
<1>3. ASSUME NEW w \in Worker, Counts(w) PROVE Moved(v, events[eventOf(v)])'
    <2>1. CASE v # w
        BY <1>0, <1>3, <2>1, EventUpdates DEF Counts, TypeOK, db
    <2>2. CASE v = w
        <3> DEFINE ev == events[eventOf(w)]
                   n  == qtyOf(w)
        <3>1. /\ ev \in Counters /\ ev = [reserved |-> ev.reserved, sold |-> ev.sold]
              /\ n \in Nat
            BY <1>3, EventUpdates, JobTypes DEF Counts, TypeOK, Counters
        <3>2. /\ pc'[w] \notin {"soldout", "nak"}
              /\ pc \in [Worker -> Pc] /\ image \in [Worker -> Counters]
            BY <2>2 DEF Writing, TypeOK
        <3>3. job' = job /\ ev' = ev /\ n' = n /\ eventOf(w)' = eventOf(w)
            BY <1>3, EventUpdates DEF Counts, db, eventOf, qtyOf
        <3>4. ASSUME NEW g, NEW after, NEW miss \in {"soldout", "nak"}, UpdateEvent(w, g, after, miss)
              PROVE  g /\ image'[w] = after
            BY <3>2, <3>4 DEF UpdateEvent
        <3>5. CASE ReserveCapacity(w)
            <4>1. /\ job[w].op = "Reserve" /\ ev.reserved + ev.sold + n <= Capacity[eventOf(w)]
                  /\ image'[w] = [ev EXCEPT !.reserved = @ + n]
                BY <3>4, <3>5 DEF ReserveCapacity
            <4>2. image'[w] = [reserved |-> ev.reserved + n, sold |-> ev.sold]
                BY <3>1, <4>1
            <4> HIDE DEF ev, n
            <4>3. Moved(w, ev)'
                BY <3>3, <4>1, <4>2 DEF Moved, n
            <4> QED BY <2>2, <4>3 DEF ev
        <3>6. CASE CommitSold(w)
            <4>1. /\ job[w].op = "Confirm" /\ ev.reserved >= n
                  /\ image'[w] = [reserved |-> ev.reserved - n, sold |-> ev.sold + n]
                BY <3>4, <3>6 DEF CommitSold
            <4> HIDE DEF ev, n
            <4>2. Moved(w, ev)'
                BY <3>3, <4>1 DEF Moved, n
            <4> QED BY <2>2, <4>2 DEF ev
        <3>7. CASE ReleaseCapacity(w)
            <4>1. /\ job[w].op \notin {"Reserve", "Confirm"} /\ ev.reserved >= n
                  /\ image'[w] = [ev EXCEPT !.reserved = @ - n]
                BY <3>4, <3>7 DEF ReleaseCapacity
            <4>2. image'[w] = [reserved |-> ev.reserved - n, sold |-> ev.sold]
                BY <3>1, <4>1
            <4> HIDE DEF ev, n
            <4>3. Moved(w, ev)'
                BY <3>3, <4>1, <4>2 DEF Moved, n
            <4> QED BY <2>2, <4>3 DEF ev
        <3> QED BY <1>3, <3>5, <3>6, <3>7 DEF Counts
    <2> QED BY <2>1, <2>2
<1>4. ASSUME NEW w \in Worker, Writes(w) \/ Holds(w) PROVE Moved(v, events[eventOf(v)])'
    BY <1>0, <1>4 DEF Writes, Holds, TypeOK, Writing, db
<1>5. ASSUME NEW w \in Worker, NEW next \in {"idle", "nak"}, GivesUp(w, next)
      PROVE  Moved(v, events[eventOf(v)])'
    BY <1>0, <1>5 DEF GivesUp, Rollback, TypeOK, Writing, db
<1>6. ASSUME NEW w \in Worker, Commit(w) PROVE Moved(v, events[eventOf(v)])'
    <2>1. v # w /\ pc[v] \in Writing /\ pc[w] \in Writing
        BY <1>6 DEF Commit, TypeOK, Writing
    <2>2. eventOf(v) # eventOf(w)
        BY <2>1 DEF LockInv
    <2>3. eventOf(v) \in EventId /\ eventOf(w) \in EventId
        BY <2>1, JobTypes DEF Writing
    <2>4. events'[eventOf(v)] = events[eventOf(v)]
        BY <1>6, <2>2, <2>3 DEF Commit, TypeOK
    <2> QED BY <1>0, <1>6, <2>1, <2>4 DEF Commit, TypeOK
<1> QED BY <1>1, <1>2, <1>3, <1>4, <1>5, <1>6, StepKinds

\* Nor does the reservation, or another one of its user, of a worker about to
\* commit.
LEMMA WriteStep ==
    ASSUME TypeOK, LockInv, RowInv, JobInv, WriteInv, [Next]_vars PROVE WriteInv'
<1> DEFINE Good(v) == IF job[v].op = "Reserve"
                      THEN rows[job[v].res].status = Absent /\ ~Rival(statusOf, job[v].res)
                      ELSE rows[job[v].res].status = "PENDING"
<1> SUFFICES ASSUME NEW v \in Worker, pc'[v] = "commit" PROVE Good(v)'
    BY DEF WriteInv
<1>0. ASSUME pc[v] = "commit", job'[v] = job[v], UNCHANGED db PROVE Good(v)'
    BY <1>0 DEF WriteInv, statusOf, Rival, db
<1>1. CASE Waits
    BY <1>0, <1>1 DEF Waits, tx
<1>2. ASSUME NEW w \in Worker, NEW o \in Op, NEW r \in ResId,
             NEW next \in {"update", "hold", "nak"}, Begins(w, o, r, next)
      PROVE  Good(v)'
    BY <1>0, <1>2 DEF Begins, Deliver, TypeOK
<1>3. ASSUME NEW w \in Worker, Counts(w) PROVE Good(v)'
    BY <1>0, <1>3, EventUpdates DEF Counts, TypeOK
<1>4. ASSUME NEW w \in Worker, Writes(w) PROVE Good(v)'
    <2>1. CASE v # w
        BY <1>0, <1>4, <2>1 DEF Writes, TypeOK
    <2>2. CASE v = w
        <3>1. job[w].res \in ResId /\ UNCHANGED <<job, rows>>
            BY <1>4, JobTypes DEF Writes, db
        <3>2. CASE job[w].op = "Reserve"
            BY <1>4, <2>2, <3>1, <3>2 DEF Writes, Rival, statusOf
        <3>3. CASE job[w].op # "Reserve"
            BY <1>4, <2>2, <3>1, <3>3 DEF Writes, JobInv, RowInv, InTx, Absent
        <3> QED BY <3>2, <3>3
    <2> QED BY <2>1, <2>2
<1>5. ASSUME NEW w \in Worker, NEW next \in {"idle", "nak"}, GivesUp(w, next)
      PROVE  Good(v)'
    BY <1>0, <1>5 DEF GivesUp, Rollback, TypeOK
<1>6. ASSUME NEW w \in Worker, Commit(w) PROVE Good(v)'
    <2>1. v # w /\ pc[v] = "commit" /\ pc[w] = "commit" /\ job'[v] = job[v]
        BY <1>6 DEF Commit, TypeOK
    <2>2. eventOf(v) # eventOf(w)
        BY <2>1 DEF LockInv, Writing
    <2>3. job[v].res \in ResId /\ job[w].res \in ResId
        BY <2>1, JobTypes
    <2>4. \A q \in ResId : Request[q].event = eventOf(v) => rows'[q] = rows[q]
        BY <1>6, <2>2, <2>3 DEF Commit, TypeOK, eventOf
    <2>5. Good(v)
        BY <2>1 DEF WriteInv
    <2> QED BY <2>1, <2>3, <2>4, <2>5 DEF Rival, statusOf, eventOf
<1>7. ASSUME NEW w \in Worker, Holds(w) PROVE Good(v)'
    BY <1>0, <1>7 DEF Holds, TypeOK
<1> QED BY <1>1, <1>2, <1>3, <1>4, <1>5, <1>6, <1>7, StepKinds

-----------------------------------------------------------------------------
(* The invariant of the data: only a COMMIT touches it. *)

\* What a COMMIT does, in terms of the row it finds.
LEMMA CommitFacts ==
    ASSUME IInv, NEW w \in Worker, Commit(w)
    PROVE  LET r == job[w].res
               o == job[w].op
               e == eventOf(w)
           IN  /\ r \in ResId /\ o \in Op /\ e \in EventId /\ e = Request[r].event
               /\ statusOf \in [ResId -> Status]
               /\ statusOf' = [statusOf EXCEPT ![r] = Target[o]]
               /\ rows' = [rows EXCEPT ![r] = [status |-> Target[o], version |-> job[w].version + 1]]
               /\ statusOf[r] = rows[r].status
               /\ rows[r].status = IF o = "Reserve" THEN Absent ELSE "PENDING"
               /\ job[w].version = IF o = "Reserve" THEN 0 ELSE 1
               /\ o = "Reserve" => ~Rival(statusOf, r)
               /\ Moved(w, events[e])
               /\ events' = [events EXCEPT ![e] = image[w]]
               /\ outbox' = [outbox EXCEPT ![r] = Append(@, Announcement[Target[o]])]
<1> DEFINE r == job[w].res
           o == job[w].op
           e == eventOf(w)
<1>1. pc[w] = "commit"
    BY DEF Commit
<1>2. r \in ResId /\ o \in Op /\ e \in EventId /\ e = Request[r].event
    BY <1>1, JobTypes DEF IInv, eventOf
<1>3. /\ rows' = [rows EXCEPT ![r] = [status |-> Target[o], version |-> job[w].version + 1]]
      /\ events' = [events EXCEPT ![e] = image[w]]
      /\ outbox' = [outbox EXCEPT ![r] = Append(@, Announcement[Target[o]])]
    BY DEF Commit
<1>4. /\ statusOf \in [ResId -> Status]
      /\ statusOf' = [statusOf EXCEPT ![r] = Target[o]]
      /\ statusOf[r] = rows[r].status
    BY <1>2, <1>3 DEF statusOf, IInv, TypeOK, Row
<1>5. /\ rows[r].status = IF o = "Reserve" THEN Absent ELSE "PENDING"
      /\ job[w].version = IF o = "Reserve" THEN 0 ELSE 1
      /\ o = "Reserve" => ~Rival(statusOf, r)
    BY <1>1 DEF IInv, WriteInv, JobInv, InTx
<1>6. Moved(w, events[e])
    BY <1>1 DEF IInv, ImageInv, Writing
<1> QED BY <1>2, <1>3, <1>4, <1>5, <1>6

\* The statuses a use case leads to.
LEMMA Targets ==
    ASSUME NEW o \in Op
    PROVE  /\ Target[o] # Absent
           /\ o = "Reserve" => Target[o] = "PENDING"
           /\ o = "Confirm" => Target[o] = "CONFIRMED"
           /\ o \notin {"Reserve", "Confirm"} => Target[o] \in Released
           /\ o # "Reserve" => Target[o] \in Decided
           /\ Applied(o, Target[o])
BY DEF Op, Target, Applied, Released, Decided, Absent

\* The second event of a reservation follows the first.
LEMMA AppendSecond ==
    ASSUME NEW a, NEW b PROVE Append(<<a>>, b) = <<a, b>>
<1>1. <<a>> \in Seq({a, b}) /\ <<a, b>> \in Seq({a, b})
    OBVIOUS
<1>2. /\ Append(<<a>>, b) \in Seq({a, b}) /\ Len(Append(<<a>>, b)) = 2
      /\ Append(<<a>>, b)[1] = a /\ Append(<<a>>, b)[2] = b
    BY <1>1
<1> DEFINE x == Append(<<a>>, b)
           y == <<a, b>>
<1>3. /\ x \in Seq({a, b}) /\ y \in Seq({a, b}) /\ Len(x) = Len(y)
      /\ \A i \in 1..Len(x) : x[i] = y[i]
    BY <1>1, <1>2
<1> HIDE DEF x, y
<1>4. x = y
    BY <1>3, SeqEqual
<1> QED BY <1>4 DEF x, y

\* A COMMIT keeps versions, outbox and the one-active rule in step.
LEMMA CommitKeepsRows ==
    ASSUME IInv, NEW w \in Worker, Commit(w)
    PROVE  RowInv' /\ OutboxMatches' /\ OneActivePerUser'
<1> DEFINE r == job[w].res
           o == job[w].op
           s == Target[o]
           Told(q) == IF rows[q].status = Absent THEN <<>>
                      ELSE IF rows[q].status = "PENDING" THEN <<Announcement["PENDING"]>>
                      ELSE <<Announcement["PENDING"], Announcement[rows[q].status]>>
<1>0. /\ r \in ResId /\ o \in Op
      /\ rows' = [rows EXCEPT ![r] = [status |-> s, version |-> job[w].version + 1]]
      /\ rows[r].status = IF o = "Reserve" THEN Absent ELSE "PENDING"
      /\ job[w].version = IF o = "Reserve" THEN 0 ELSE 1
      /\ o = "Reserve" => ~Rival(statusOf, r)
      /\ outbox' = [outbox EXCEPT ![r] = Append(@, Announcement[s])]
    BY CommitFacts
<1>1. /\ s # Absent
      /\ IF o = "Reserve" THEN s = "PENDING" ELSE s \in Decided
    BY <1>0, Targets
<1>2. /\ rows \in [ResId -> Row] /\ outbox \in [ResId -> Seq(EventType)]
      /\ RowInv /\ OutboxMatches /\ OneActivePerUser
    BY DEF IInv, TypeOK
<1>3. \A q \in ResId \ {r} : rows'[q] = rows[q] /\ outbox'[q] = outbox[q]
    BY <1>0, <1>2
<1>4. rows'[r].status = s /\ rows'[r].version = job[w].version + 1
    BY <1>0, <1>2
<1>5. outbox'[r] = Append(outbox[r], Announcement[s])
    BY <1>0, <1>2
<1> HIDE DEF r, o, s
<1>6. RowInv'
    BY <1>0, <1>1, <1>2, <1>3, <1>4 DEF RowInv, Decided, Released, Absent
<1>7. OutboxMatches'
    <2> SUFFICES ASSUME NEW q \in ResId PROVE outbox'[q] = Told(q)'
        BY DEF OutboxMatches
    <2>1. CASE q # r
        BY <1>2, <1>3, <2>1 DEF OutboxMatches
    <2>2. CASE q = r /\ o = "Reserve"
        <3>1. outbox'[r] = Append(<<>>, Announcement["PENDING"])
            BY <1>0, <1>1, <1>2, <1>5, <2>2 DEF OutboxMatches
        <3>2. outbox'[r] = <<Announcement["PENDING"]>>
            BY <3>1
        <3> QED BY <1>1, <1>4, <2>2, <3>2 DEF Absent
    <2>3. CASE q = r /\ o # "Reserve"
        <3>1. outbox'[r] = Append(<<Announcement["PENDING"]>>, Announcement[s])
            BY <1>0, <1>1, <1>2, <1>5, <2>3 DEF OutboxMatches, Absent
        <3>2. outbox'[r] = <<Announcement["PENDING"], Announcement[s]>>
            BY <3>1, AppendSecond
        <3> QED BY <1>1, <1>4, <2>3, <3>2 DEF Absent, Decided, Released
    <2> QED BY <2>1, <2>2, <2>3
<1>8. OneActivePerUser'
    <2> SUFFICES ASSUME NEW p \in ResId, NEW q \in ResId, p # q,
                        Request[p].event = Request[q].event,
                        Request[p].user = Request[q].user
                 PROVE  ~(rows'[p].status \in Active /\ rows'[q].status \in Active)
        BY DEF OneActivePerUser, Rival, statusOf
    <2>1. ~(rows[p].status \in Active /\ rows[q].status \in Active)
        BY <1>2 DEF OneActivePerUser, Rival, statusOf
    <2>2. CASE o = "Reserve"
        <3>0. \A x \in ResId \ {r} :
                 Request[x].event = Request[r].event /\ Request[x].user = Request[r].user
                    => rows[x].status \notin Active
            BY <1>0, <2>2 DEF Rival, statusOf
        <3>1. p = r => rows[q].status \notin Active
            BY <3>0
        <3>2. q = r => rows[p].status \notin Active
            BY <3>0
        <3> QED BY <1>3, <2>1, <3>1, <3>2
    <2>3. CASE o # "Reserve"
        BY <1>0, <1>3, <2>1, <2>3 DEF Active
    <2> QED BY <2>2, <2>3
<1> QED BY <1>6, <1>7, <1>8

\* A COMMIT moves the counters of the event by exactly the tickets that the
\* reservation's change of status moves, and never past the capacity.
LEMMA CommitKeepsCounters ==
    ASSUME IInv, NEW w \in Worker, Commit(w)
    PROVE  CountersFit' /\ Conservation'
<1> DEFINE r == job[w].res
           o == job[w].op
           s == Target[o]
           e == eventOf(w)
           n == qtyOf(w)
           ev == events[e]
<1>1. /\ r \in ResId /\ o \in Op /\ e \in EventId /\ e = Request[r].event
      /\ statusOf \in [ResId -> Status]
      /\ statusOf' = [statusOf EXCEPT ![r] = s]
      /\ statusOf[r] = IF o = "Reserve" THEN Absent ELSE "PENDING"
      /\ Moved(w, ev)
      /\ events' = [events EXCEPT ![e] = image[w]]
    BY CommitFacts
<1>2. /\ o = "Reserve" => s = "PENDING"
      /\ o = "Confirm" => s = "CONFIRMED"
      /\ o \notin {"Reserve", "Confirm"} => s \in Released
    BY <1>1, Targets
<1>3. /\ events \in [EventId -> Counters] /\ ev.reserved \in Nat /\ ev.sold \in Nat
      /\ n \in Nat /\ n = Request[r].quantity /\ Capacity[e] \in Nat /\ s \in Status
    BY <1>1, JobTypes DEF IInv, TypeOK, Counters, Commit, qtyOf
<1>4. /\ \A f \in EventId : /\ events[f].reserved = Held(statusOf, f) /\ events[f].sold = Sold(statusOf, f)
                            /\ events[f].reserved + events[f].sold <= Capacity[f]
    BY DEF IInv, Conservation, CountersFit, Held, Sold
<1>5. /\ events'[e] = image[w]
      /\ \A f \in EventId \ {e} : events'[f] = events[f]
    BY <1>1, <1>3
<1>6. /\ \A f \in EventId \ {e} : Held(statusOf', f) = Held(statusOf, f) /\ Sold(statusOf', f) = Sold(statusOf, f)
      /\ o = "Reserve" =>
            Held(statusOf', e) = Held(statusOf, e) + n /\ Sold(statusOf', e) = Sold(statusOf, e)
      /\ o = "Confirm" =>
            Held(statusOf', e) = Held(statusOf, e) - n /\ Sold(statusOf', e) = Sold(statusOf, e) + n
      /\ o \notin {"Reserve", "Confirm"} =>
            Held(statusOf', e) = Held(statusOf, e) - n /\ Sold(statusOf', e) = Sold(statusOf, e)
    <2> DEFINE a == statusOf
               b == statusOf'
    <2>1. Changes(a, b, r, s)
        BY <1>1 DEF Changes
    <2>2. /\ a[r] = IF o = "Reserve" THEN Absent ELSE "PENDING"
          /\ e = Request[r].event /\ n = Request[r].quantity
        BY <1>1, <1>3
    <2> HIDE DEF r, s, o, e, n, a, b
    <2>3. /\ \A f \in EventId \ {e} : Held(b, f) = Held(a, f) /\ Sold(b, f) = Sold(a, f)
          /\ a[r] = Absent /\ s = "PENDING" =>
                Held(b, e) = Held(a, e) + n /\ Sold(b, e) = Sold(a, e)
          /\ a[r] = "PENDING" /\ s = "CONFIRMED" =>
                Held(b, e) = Held(a, e) - n /\ Sold(b, e) = Sold(a, e) + n
          /\ a[r] = "PENDING" /\ s \in Released =>
                Held(b, e) = Held(a, e) - n /\ Sold(b, e) = Sold(a, e)
        BY <2>1, <2>2, TicketsMove
    <2> QED BY <1>2, <2>2, <2>3 DEF a, b
<1>7. /\ events'[e].reserved = Held(statusOf', e) /\ events'[e].sold = Sold(statusOf', e)
      /\ events'[e].reserved + events'[e].sold <= Capacity[e]
    <2>1. /\ ev.reserved = Held(statusOf, e) /\ ev.sold = Sold(statusOf, e)
          /\ ev.reserved + ev.sold <= Capacity[e]
        BY <1>1, <1>4
    <2>2. /\ o = "Reserve" => /\ ev.reserved + ev.sold + n <= Capacity[e]
                              /\ image[w].reserved = ev.reserved + n /\ image[w].sold = ev.sold
          /\ o = "Confirm" => /\ ev.reserved >= n
                              /\ image[w].reserved = ev.reserved - n /\ image[w].sold = ev.sold + n
          /\ o \notin {"Reserve", "Confirm"} =>
                              /\ ev.reserved >= n
                              /\ image[w].reserved = ev.reserved - n /\ image[w].sold = ev.sold
        <3> HIDE DEF e, ev
        <3> QED BY <1>1 DEF Moved, e
    <2> HIDE DEF r, s, o, e, n, ev
    <2>3. CASE o = "Reserve"
        BY <1>3, <1>5, <1>6, <2>1, <2>2, <2>3
    <2>4. CASE o = "Confirm"
        BY <1>3, <1>5, <1>6, <2>1, <2>2, <2>4
    <2>5. CASE o \notin {"Reserve", "Confirm"}
        BY <1>3, <1>5, <1>6, <2>1, <2>2, <2>5
    <2> QED BY <2>3, <2>4, <2>5
<1> HIDE DEF r, s, o, e, n
<1>8. \A f \in EventId : /\ events'[f].reserved = Held(statusOf', f) /\ events'[f].sold = Sold(statusOf', f)
                         /\ events'[f].reserved + events'[f].sold <= Capacity[f]
    BY <1>4, <1>5, <1>6, <1>7
<1> QED BY <1>8 DEF Conservation, CountersFit, Held, Sold

\* A step that does not commit leaves the invariant of the data alone.
LEMMA DataSame ==
    ASSUME IInv, UNCHANGED db
    PROVE  (RowInv /\ CountersFit /\ Conservation /\ OutboxMatches /\ OneActivePerUser)'
<1>1. UNCHANGED <<rows, events, outbox, statusOf>>
    BY DEF db, statusOf
<1> QED BY <1>1 DEF IInv, RowInv, CountersFit, Conservation, OutboxMatches, OneActivePerUser

\* Only a COMMIT touches the data, and it takes a reservation one step on.
LEMMA RowMoves ==
    ASSUME IInv, [Next]_vars, NEW r \in ResId, rows'[r] # rows[r]
    PROVE  \E w \in Worker : Commit(w) /\ job[w].res = r
<1>1. TypeOK
    BY DEF IInv
<1>2. ~ UNCHANGED db
    BY DEF db
<1>3. PICK w \in Worker : Commit(w)
    <2>1. ASSUME NEW w \in Worker, Counts(w) PROVE UNCHANGED db
        BY <1>1, <2>1, EventUpdates DEF Counts
    <2> QED BY <1>1, <1>2, <2>1, StepKinds
            DEF Waits, Begins, Deliver, Writes, GivesUp, Rollback, Holds
<1>4. rows' = [rows EXCEPT ![job[w].res] = [status |-> Target[job[w].op], version |-> job[w].version + 1]]
    BY <1>3 DEF Commit
<1>5. rows \in [ResId -> Row]
    BY <1>1 DEF TypeOK
<1>6. job[w].res = r
    BY <1>4, <1>5
<1> QED BY <1>3, <1>6

\* What has taken effect stays in effect: a decision is never taken back.
LEMMA AppliedStays ==
    ASSUME IInv, [Next]_vars, NEW r \in ResId, NEW o \in Op, Applied(o, rows[r].status)
    PROVE  Applied(o, rows'[r].status)
<1>1. CASE rows'[r] = rows[r]
    BY <1>1
<1>2. CASE rows'[r] # rows[r]
    <2>1. PICK w \in Worker : Commit(w) /\ job[w].res = r
        BY <1>2, RowMoves
    <2>2. /\ job[w].op \in Op
          /\ rows' = [rows EXCEPT ![r] = [status |-> Target[job[w].op], version |-> job[w].version + 1]]
          /\ rows[r].status = IF job[w].op = "Reserve" THEN Absent ELSE "PENDING"
        BY <2>1, CommitFacts
    <2>3. rows'[r].status = Target[job[w].op]
        BY <2>2 DEF IInv, TypeOK
    <2>4. o = "Reserve" /\ rows[r].status # Absent
        BY <2>2 DEF Applied, Released, Absent, Op
    <2> QED BY <2>2, <2>3, <2>4, Targets DEF Applied
<1> QED BY <1>1, <1>2

\* A worker past its COMMIT stays right about it.
LEMMA DoneStep ==
    ASSUME IInv, [Next]_vars PROVE DoneInv'
<1> SUFFICES ASSUME NEW v \in Worker, pc'[v] \in {"hold", "set", "ack"}
             PROVE  Applied(job'[v].op, rows'[job'[v].res].status)
    BY DEF DoneInv
<1> DEFINE Goal == Applied(job'[v].op, rows'[job'[v].res].status)
<1>t. TypeOK /\ DoneInv
    BY DEF IInv
<1>0. ASSUME pc[v] \in {"hold", "set", "ack"}, job'[v] = job[v] PROVE Goal
    <2>1. job[v].op \in Op /\ job[v].res \in ResId /\ Applied(job[v].op, rows[job[v].res].status)
        BY <1>0, <1>t, JobTypes DEF DoneInv
    <2> QED BY <1>0, <2>1, AppliedStays
<1>1. CASE Waits
    BY <1>0, <1>1 DEF Waits, tx
<1>2. ASSUME NEW w \in Worker, NEW o \in Op, NEW r \in ResId,
             NEW next \in {"update", "hold", "nak"}, Begins(w, o, r, next)
      PROVE  Goal
    <2>1. CASE v # w
        BY <1>0, <1>2, <1>t, <2>1 DEF Begins, Deliver, TypeOK
    <2>2. CASE v = w
        BY <1>2, <1>t, <2>2 DEF Begins, Deliver, TypeOK, db
    <2> QED BY <2>1, <2>2
<1>3. ASSUME NEW w \in Worker, Counts(w) PROVE Goal
    BY <1>0, <1>3, <1>t, EventUpdates DEF Counts, TypeOK
<1>4. ASSUME NEW w \in Worker, Writes(w) \/ Holds(w) PROVE Goal
    BY <1>0, <1>4, <1>t DEF Writes, Holds, TypeOK
<1>5. ASSUME NEW w \in Worker, NEW next \in {"idle", "nak"}, GivesUp(w, next) PROVE Goal
    BY <1>0, <1>5, <1>t DEF GivesUp, Rollback, TypeOK
<1>6. ASSUME NEW w \in Worker, Commit(w) PROVE Goal
    <2>1. CASE v # w
        BY <1>0, <1>6, <1>t, <2>1 DEF Commit, TypeOK
    <2>2. CASE v = w
        <3>1. job[w].op \in Op /\ job[w].res \in ResId /\ job' = job
            BY <1>6, <1>t, JobTypes DEF Commit
        <3>2. rows'[job[w].res].status = Target[job[w].op]
            BY <1>6, <1>t, <3>1 DEF Commit, TypeOK
        <3> QED BY <2>2, <3>1, <3>2, Targets
    <2> QED BY <2>1, <2>2
<1> QED BY <1>1, <1>2, <1>3, <1>4, <1>5, <1>6, <1>t, StepKinds

\* A hold is set for a reservation that is there, and reservations stay.
LEMMA HoldStep ==
    ASSUME IInv, [Next]_vars PROVE HoldBacked'
<1>1. TypeOK /\ HoldBacked /\ DoneInv
    BY DEF IInv
<1>2. \A r \in ResId : rows[r].status # Absent => rows'[r].status # Absent
    BY AppliedStays DEF Applied, Op
<1>3. \A r \in hold' : r \in hold \/ (r \in ResId /\ rows[r].status # Absent)
    <2>1. ASSUME NEW w \in Worker, Holds(w)
          PROVE  job[w].res \in ResId /\ rows[job[w].res].status # Absent
        BY <1>1, <2>1, JobTypes DEF Holds, DoneInv, Applied, Released, Absent
    <2>2. ASSUME NEW w \in Worker, Counts(w) PROVE hold' = hold
        BY <1>1, <2>2, EventUpdates DEF Counts
    <2> QED BY <1>1, <2>1, <2>2, StepKinds
            DEF Waits, Begins, Deliver, Writes, GivesUp, Rollback, Commit, Holds
<1> QED BY <1>1, <1>2, <1>3 DEF HoldBacked, TypeOK

-----------------------------------------------------------------------------
(* The theorems. *)

\* Before the first delivery nothing is held, sold, locked or announced.
LEMMA InitInv == Init => IInv
<1> SUFFICES ASSUME Init PROVE IInv
    OBVIOUS
<1>1. TypeOK
    BY DEF Init, TypeOK, Row, Counters, NoRow, NoImage, Status, Absent, Pc, FreeAt
<1>2. LockInv /\ JobInv /\ ImageInv /\ WriteInv /\ DoneInv /\ HoldBacked
    BY DEF Init, LockInv, JobInv, ImageInv, WriteInv, DoneInv, HoldBacked, Writing, InTx
<1>3. RowInv /\ OutboxMatches
    BY DEF Init, RowInv, OutboxMatches, NoRow
<1>4. OneActivePerUser
    BY DEF Init, OneActivePerUser, NoRow, Active, Absent
<1>5. \A e \in EventId : events[e].reserved = 0 /\ events[e].sold = 0 /\ Capacity[e] \in Nat
    BY TicketsAssumption DEF Init
<1>6. CountersFit
    BY <1>5 DEF CountersFit
<1>7. Conservation
    <2>1. \A e \in EventId : /\ TicketsIn(statusOf, e, {"PENDING"}) = {}
                             /\ TicketsIn(statusOf, e, {"CONFIRMED"}) = {}
        BY DEF Init, TicketsIn, statusOf, NoRow, Absent
    <2> QED BY <1>5, <2>1, FS_EmptySet DEF Conservation
<1> QED BY <1>1, <1>2, <1>3, <1>4, <1>6, <1>7 DEF IInv

\* Every step keeps the inductive invariant.
LEMMA InvStep == IInv /\ [Next]_vars => IInv'
<1> SUFFICES ASSUME IInv, [Next]_vars PROVE IInv'
    OBVIOUS
<1>1. /\ TypeOK /\ LockInv /\ RowInv /\ JobInv /\ ImageInv /\ WriteInv
    BY DEF IInv
<1>2. TypeOK' /\ LockInv' /\ JobInv' /\ ImageInv' /\ WriteInv'
    BY <1>1, TypeStep, LockStep, JobStep, ImageStep, WriteStep
<1>3. DoneInv' /\ HoldBacked'
    BY DoneStep, HoldStep
<1>4. (RowInv /\ CountersFit /\ Conservation /\ OutboxMatches /\ OneActivePerUser)'
    <2>1. CASE UNCHANGED db
        BY <2>1, DataSame
    <2>2. ASSUME NEW w \in Worker, Commit(w)
          PROVE  (RowInv /\ CountersFit /\ Conservation /\ OutboxMatches /\ OneActivePerUser)'
        BY <2>2, CommitKeepsRows, CommitKeepsCounters
    <2>3. ASSUME NEW w \in Worker, Counts(w) PROVE UNCHANGED db
        BY <1>1, <2>3, EventUpdates DEF Counts
    <2> QED BY <1>1, <2>1, <2>2, <2>3, StepKinds
            DEF Waits, Begins, Deliver, Writes, GivesUp, Rollback, Holds
<1> QED BY <1>2, <1>3, <1>4 DEF IInv

\* The strengthening holds in every reachable state of pulsar-core.
THEOREM Invariance == Spec => []IInv
BY InitInv, InvStep, PTL DEF Spec

\* The counters of every event agree with its reservations at every commit,
\* for any number of workers and reservations.
THEOREM CountersConserved == Spec => []Conservation
<1>1. IInv => Conservation
    BY DEF IInv
<1> QED BY <1>1, Invariance, PTL

\* Zero overbooking, whatever the capacities and quantities: the counters are
\* what the live reservations hold, and no image past the capacity is committed.
THEOREM NeverOverbooked == Spec => []NoOverbooking
<1>1. IInv => NoOverbooking
    <2> SUFFICES ASSUME IInv, NEW e \in EventId
                 PROVE  Cardinality(TicketsIn(statusOf, e, Active)) <= Capacity[e]
        BY DEF NoOverbooking
    <2> DEFINE a == statusOf
    <2>1. /\ events[e].reserved = Held(a, e)
          /\ events[e].sold = Sold(a, e)
          /\ events[e].reserved + events[e].sold <= Capacity[e]
        BY DEF IInv, Conservation, CountersFit, Held, Sold
    <2> HIDE DEF a
    <2>2. Active = {"PENDING"} \cup {"CONFIRMED"} /\ {"PENDING"} \cap {"CONFIRMED"} = {}
        BY DEF Active
    <2>3. Cardinality(TicketsIn(a, e, Active)) = Held(a, e) + Sold(a, e)
        BY <2>2, TicketsInDisjoint DEF Held, Sold
    <2> QED BY <2>1, <2>3 DEF a
<1> QED BY <1>1, Invariance, PTL

\* The outbox of every reservation is exactly the announcement of what became
\* of it, although the broker may deliver anything again at any time.
THEOREM OutboxFaithful == Spec => []OutboxMatches
<1>1. IInv => OutboxMatches
    BY DEF IInv
<1> QED BY <1>1, Invariance, PTL

\* What a handler acknowledged has taken effect and remains in effect.
THEOREM AcknowledgedIsApplied == Spec => []AckedApplied
<1>1. IInv => AckedApplied
    BY DEF IInv, DoneInv, AckedApplied
<1> QED BY <1>1, Invariance, PTL

\* Redis holds only reservations that PostgreSQL has.
THEOREM HoldsAreBacked == Spec => []HoldBacked
<1>1. IInv => HoldBacked
    BY DEF IInv
<1> QED BY <1>1, Invariance, PTL

\* A user never has two live reservations for one event.
THEOREM OneActive == Spec => []OneActivePerUser
<1>1. IInv => OneActivePerUser
    BY DEF IInv
<1> QED BY <1>1, Invariance, PTL

\* No committed decision is ever changed by a later delivery.
THEOREM DecisionsAreFinal == Spec => DecisionFinal
<1>1. ASSUME IInv, [Next]_vars
      PROVE  [\A r \in ResId : rows[r].status \in Decided => rows'[r] = rows[r]]_rows
    <2> SUFFICES ASSUME NEW r \in ResId, rows[r].status \in Decided, rows'[r] # rows[r]
                 PROVE  FALSE
        OBVIOUS
    <2>1. PICK w \in Worker : Commit(w) /\ job[w].res = r
        BY <1>1, RowMoves
    <2>2. rows[r].status = IF job[w].op = "Reserve" THEN Absent ELSE "PENDING"
        BY <1>1, <2>1, CommitFacts
    <2> QED BY <2>2 DEF Decided, Released, Absent
<1> QED BY <1>1, Invariance, PTL DEF Spec, DecisionFinal

\* Every COMMIT is one step of TicketInventory, and every other step none: the
\* concurrent, faulty service implements the indivisible one.
THEOREM Implements == Spec => Refinement
<1>1. /\ Promise!Absent = Absent /\ Promise!Decided = Decided
      /\ Promise!Active = Active /\ Promise!Announcement = Announcement
      /\ \A st, e, S : Promise!TicketsIn(st, e, S) = TicketsIn(st, e, S)
      /\ \A st, r : Promise!Rival(st, r) <=> Rival(st, r)
    BY DEF Promise!Absent, Absent, Promise!Decided, Decided, Promise!Released, Released,
           Promise!Active, Active, Promise!Announcement, Announcement,
           Promise!TicketsIn, TicketsIn, Promise!Rival, Rival
<1>2. \A S : Promise!Cardinality(S) = Cardinality(S)
    BY Zenon DEF Promise!Cardinality, Cardinality
<1>3. Init => Promise!Init
    BY <1>1 DEF Init, Promise!Init, statusOf, NoRow
<1>4. ASSUME IInv, [Next]_vars PROVE [Promise!Next]_(Promise!vars)
    <2>1. ASSUME UNCHANGED db PROVE UNCHANGED Promise!vars
        BY <2>1 DEF db, statusOf, Promise!vars
    <2>2. ASSUME NEW w \in Worker, Counts(w) PROVE UNCHANGED db
        BY <1>4, <2>2, EventUpdates DEF Counts, IInv
    <2>3. ASSUME NEW w \in Worker, Commit(w) PROVE Promise!Next
        <3> DEFINE r == job[w].res
                   o == job[w].op
                   e == eventOf(w)
                   a == statusOf
        <3>1. /\ r \in ResId /\ o \in Op /\ e \in EventId /\ e = Request[r].event
              /\ statusOf' = [statusOf EXCEPT ![r] = Target[o]]
              /\ statusOf[r] = IF o = "Reserve" THEN Absent ELSE "PENDING"
              /\ o = "Reserve" => ~Rival(statusOf, r)
              /\ Moved(w, events[e])
              /\ outbox' = [outbox EXCEPT ![r] = Append(@, Announcement[Target[o]])]
            BY <1>4, <2>3, CommitFacts
        <3>2. Promise!Enter(r, Target[o])
            BY <1>1, <3>1 DEF Promise!Enter
        <3>3. CASE o = "Reserve"
            <4>1. events[e].reserved + events[e].sold + Request[r].quantity <= Capacity[e]
                BY <3>1, <3>3 DEF Moved, qtyOf
            <4>2. Cardinality(TicketsIn(statusOf, e, Active)) = events[e].reserved + events[e].sold
                <5>1. events[e].reserved = Held(a, e) /\ events[e].sold = Sold(a, e)
                    BY <1>4, <3>1 DEF IInv, Conservation, Held, Sold
                <5>2. Active = {"PENDING"} \cup {"CONFIRMED"} /\ {"PENDING"} \cap {"CONFIRMED"} = {}
                    BY DEF Active
                <5> HIDE DEF a, e
                <5>3. Cardinality(TicketsIn(a, e, Active)) = Held(a, e) + Sold(a, e)
                    BY <5>2, TicketsInDisjoint DEF Held, Sold
                <5> QED BY <5>1, <5>3 DEF a
            <4>3. Target[o] = "PENDING"
                BY <3>1, <3>3, Targets
            <4>4. Cardinality(TicketsIn(statusOf, Request[r].event, Active)) + Request[r].quantity
                    <= Capacity[Request[r].event]
                BY <3>1, <4>1, <4>2
            <4>5. /\ statusOf[r] = Promise!Absent /\ ~Promise!Rival(statusOf, r)
                  /\ Promise!Cardinality(Promise!TicketsIn(statusOf, Request[r].event, Promise!Active))
                        + Request[r].quantity <= Capacity[Request[r].event]
                  /\ Promise!Enter(r, "PENDING")
                BY <1>1, <1>2, <3>1, <3>2, <3>3, <4>3, <4>4
            <4>6. Promise!Reserve(r)
                BY <4>5 DEF Promise!Reserve
            <4> QED BY <3>1, <4>6 DEF Promise!Next
        <3>4. CASE o # "Reserve"
            <4>1. Target[o] \in Decided
                BY <3>1, <3>4, Targets
            <4>2. Promise!Decide(r, Target[o])
                BY <3>1, <3>2, <3>4 DEF Promise!Decide
            <4> QED BY <1>1, <3>1, <4>1, <4>2 DEF Promise!Next
        <3> QED BY <3>3, <3>4
    <2> QED BY <1>4, <2>1, <2>2, <2>3, StepKinds
            DEF IInv, Waits, Begins, Deliver, Writes, GivesUp, Rollback, Holds
<1> QED BY <1>3, <1>4, Invariance, PTL DEF Spec, Refinement, Promise!Spec

-----------------------------------------------------------------------------
(* What the liveness properties rest on and TLC alone cannot show for every *)
(* number of workers: nobody waits for a waiter, and the holds run out.      *)

\* A held row lock belongs to a worker that is past its last wait, in a transaction
\* on that very event.
HeldByWriter ==
    \A e \in EventId : lock[e] # None => pc[lock[e]] \in Writing /\ eventOf(lock[e]) = e

\* A lock is taken on the way to the write and given back by whatever comes after
\* it: a COMMIT, a failed write, a failed statement or the death of the replica.
LEMMA HeldStep ==
    ASSUME TypeOK, LockInv, HeldByWriter, [Next]_vars PROVE HeldByWriter'
<1> SUFFICES ASSUME NEW e \in EventId, lock'[e] # None
             PROVE  pc'[lock'[e]] \in Writing /\ Request[job'[lock'[e]].res].event = e
    BY DEF HeldByWriter, eventOf
<1> DEFINE Kept == pc'[lock'[e]] \in Writing /\ Request[job'[lock'[e]].res].event = e
<1> USE DEF eventOf
<1>1. ASSUME lock'[e] = lock[e], pc'[lock[e]] \in {pc[lock[e]], "commit"},
             job'[lock[e]] = job[lock[e]]
      PROVE  Kept
    BY <1>1 DEF HeldByWriter, Writing
<1>2. lock[e] # None => lock[e] \in Worker /\ pc[lock[e]] \in Writing
    BY DEF TypeOK, HeldByWriter
<1>3. CASE Waits
    BY <1>1, <1>3 DEF Waits, tx
<1>4. ASSUME NEW w \in Worker, NEW o \in Op, NEW r \in ResId,
             NEW next \in {"update", "hold", "nak"}, Begins(w, o, r, next)
      PROVE  Kept
    <2>1. lock'[e] = lock[e] /\ w # lock[e]
        BY <1>2, <1>4 DEF Begins, Deliver, FreeAt, Writing
    <2> QED BY <1>1, <1>2, <1>4, <2>1 DEF Begins, Deliver, TypeOK
<1>5. ASSUME NEW w \in Worker, Counts(w) PROVE Kept
    <2>1. pc[w] = "update" /\ eventOf(w) \in EventId /\ job' = job
        BY <1>5, EventUpdates, JobTypes DEF Counts
    <2>2. CASE lock'[e] = lock[e]
        <3>1. lock[e] # w
            BY <1>2, <2>1, <2>2 DEF Writing
        <3> QED BY <1>1, <1>2, <1>5, <2>1, <2>2, <3>1, EventUpdates DEF Counts, TypeOK
    <2>3. CASE lock'[e] # lock[e]
        BY <1>5, <2>1, <2>3, EventUpdates DEF Counts, TypeOK, Writing
    <2> QED BY <2>2, <2>3
<1>6. ASSUME NEW w \in Worker, Writes(w) PROVE Kept
    BY <1>1, <1>2, <1>6 DEF Writes, TypeOK
<1>7. ASSUME NEW w \in Worker, NEW next \in {"idle", "nak"}, GivesUp(w, next) PROVE Kept
    <2>1. lock'[e] = lock[e] /\ w # lock[e]
        BY <1>7 DEF GivesUp, Rollback
    <2> QED BY <1>1, <1>2, <1>7, <2>1 DEF GivesUp, Rollback, TypeOK
<1>8. ASSUME NEW w \in Worker, Commit(w) PROVE Kept
    <2>1. lock'[e] = lock[e] /\ eventOf(w) # e
        BY <1>8 DEF Commit, TypeOK
    <2>2. w # lock[e]
        BY <2>1 DEF HeldByWriter
    <2> QED BY <1>1, <1>2, <1>8, <2>1, <2>2 DEF Commit, TypeOK
<1>9. ASSUME NEW w \in Worker, Holds(w) PROVE Kept
    <2>1. lock'[e] = lock[e] /\ w # lock[e]
        BY <1>2, <1>9 DEF Holds, Writing
    <2> QED BY <1>1, <1>2, <1>9, <2>1 DEF Holds, TypeOK
<1> QED BY <1>3, <1>4, <1>5, <1>6, <1>7, <1>8, <1>9, StepKinds

\* Nobody waits for a waiter: who holds the row of an event never waits for another
\* row, so the transactions of any number of workers cannot block each other in a
\* circle, and every lock ends with its holder's own next steps (pgtx.go WithinTx,
\* inventory.go).
THEOREM NoCircularWait == Spec => []HeldByWriter
<1>1. Init => HeldByWriter
    BY DEF Init, HeldByWriter
<1>2. IInv /\ HeldByWriter /\ [Next]_vars => HeldByWriter'
    BY HeldStep DEF IInv
<1> QED BY <1>1, <1>2, Invariance, PTL DEF Spec

\* The handlers on their way to write the hold of r with a TTL computed in time.
Setting(r) == {w \in Worker : pc[w] = "set" /\ job[w].res = r}

\* Once the window of a reservation is over the handlers about to write its hold
\* only become fewer, and a hold that is gone comes back only with the SET of one
\* of them: at most as often as there were such handlers when the window ended
\* (the safety half of HoldsEnd).
HoldsRunOut ==
    [][\A r \in elapsed :
          /\ Setting(r)' \subseteq Setting(r)
          /\ r \in hold' \ hold => Setting(r)' # Setting(r)]_vars

\* The clock is read before the SET and not again, so no handler that reads it
\* after expires_at writes a hold (service.go Reserve, holds.go Set).
THEOREM HoldsComeToAnEnd == Spec => HoldsRunOut
<1> DEFINE Goal(r) == /\ Setting(r)' \subseteq Setting(r)
                      /\ r \in hold' \ hold => Setting(r)' # Setting(r)
<1>1. ASSUME TypeOK, [Next]_vars, NEW r \in elapsed PROVE Goal(r)
    <2>1. ASSUME hold' \subseteq hold,
                 \A w \in Worker : pc'[w] = "set" => pc[w] = "set" /\ job'[w] = job[w]
          PROVE  Goal(r)
        BY <2>1 DEF Setting
    <2>2. ASSUME NEW w \in Worker, RemainingTTL(w) PROVE Goal(r)
        <3>1. hold' = hold /\ job' = job
            BY <2>2 DEF RemainingTTL
        <3>2. \A v \in Worker : pc'[v] = "set" /\ job[v].res = r => pc[v] = "set"
            BY <1>1, <2>2 DEF RemainingTTL, TypeOK
        <3> QED BY <3>1, <3>2 DEF Setting
    <2>3. ASSUME NEW w \in Worker, SetHold(w) PROVE Goal(r)
        <3>1. /\ job' = job /\ pc[w] = "set" /\ pc'[w] = "ack"
              /\ \A v \in Worker : pc'[v] = "set" => pc[v] = "set"
            BY <1>1, <2>3 DEF SetHold, TypeOK
        <3>2. r \in hold' \ hold => job[w].res = r
            BY <2>3 DEF SetHold
        <3>3. r \in hold' \ hold => w \in Setting(r) /\ w \notin Setting(r)'
            BY <3>1, <3>2 DEF Setting
        <3> QED BY <3>1, <3>3 DEF Setting
    <2>4. ASSUME NEW w \in Worker, ReleaseHold(w) PROVE Goal(r)
        BY <1>1, <2>1, <2>4 DEF ReleaseHold, TypeOK
    <2>5. ASSUME NEW w \in Worker, Counts(w) PROVE Goal(r)
        BY <1>1, <2>1, <2>5, EventUpdates DEF Counts, TypeOK
    <2>6. ASSUME NEW w \in Worker, Create(w) \/ Update(w) \/ Commit(w) PROVE Goal(r)
        BY <1>1, <2>1, <2>6 DEF Create, Update, WriteRow, Commit, Rollback, TypeOK
    <2>7. ASSUME NEW w \in Worker, StatementFails(w) \/ Crash(w) PROVE Goal(r)
        BY <1>1, <2>1, <2>7 DEF StatementFails, Crash, Rollback, TypeOK
    <2>8. ASSUME NEW w \in Worker, NEW q \in ResId, NEW o \in {"Expire", "Fail", "Cancel"},
                 Reserve(w, q) \/ Confirm(w, q) \/ Release(w, o, q)
          PROVE  Goal(r)
        BY <1>1, <2>1, <2>8 DEF Reserve, Confirm, Release, Deliver, TypeOK
    <2>9. ASSUME NEW q \in ResId, Elapse(q) \/ HoldLapses(q) PROVE Goal(r)
        BY <2>1, <2>9 DEF Elapse, HoldLapses, tx
    <2>10. ASSUME NEW e \in EventId, OpenSale(e) PROVE Goal(r)
        BY <2>1, <2>10 DEF OpenSale, tx
    <2>11. CASE UNCHANGED vars
        BY <2>1, <2>11 DEF vars
    <2> QED BY <1>1, <2>2, <2>3, <2>4, <2>5, <2>6, <2>7, <2>8, <2>9, <2>10, <2>11
            DEF Next, Handle, Counts
<1>2. TypeOK /\ [Next]_vars => [\A r \in elapsed : Goal(r)]_vars
    BY <1>1
<1> QED BY <1>2, TypeCorrect, PTL DEF Spec, HoldsRunOut
=============================================================================
