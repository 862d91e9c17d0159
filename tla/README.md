# A TLA+ verification of PulsarPass

PulsarPass sells tickets for flash sales: a client reserves seats, pays within a
retention window, and seats that are not paid for go back on sale. Five Go
services do this together over NATS JetStream, PostgreSQL and Redis. This
directory holds TLA+ modules for the parts that carry the protocol, the TLC
configurations that check them on small instances, and TLAPS proofs of their
main properties for every instance.

`PROJECT.json` lists the components, the runs, a mutant for every property, the
source lines each definition stands for, the hazards and the findings.

## 1. Inventory

| Part | State | Operations | Speaks with |
|---|---|---|---|
| **pulsar-core** `internal/core` | `events` (capacity, reserved, sold), `reservations` (status, version), `outbox_events` | Reserve, Confirm, Expire, Fail, Cancel, each one transaction, then the Redis hold | consumes reserve commands, payment outcomes and `reservation.expired`; announces `ticket.*` through its outbox |
| **pulsar-payment** `internal/payment` | `reservation_context`, `payments`, `outbox_events` | projection of `ticket.reserved`; payment command: wait for the projection, load or create, check the window, charge, finish | the acquirer; announces `payment.succeeded` and `payment.failed` |
| **pulsar-horizon** `internal/horizon` | `outbox_events.processed_at` | fetch a batch, publish row by row, mark | both databases, JetStream |
| **pulsar-chrono** `internal/chrono` | none of its own | find overdue reservations, publish `reservation.expired`, delete holds | the core database, JetStream, Redis |
| **hold store** `internal/holds` | `hold:{id}` keys, a circuit breaker per process | Set, Release, Exists behind the breaker | Redis, a metrics observer |
| **event bus** `pkg/eventbus` | streams with a duplicate window, durable consumers; per process the loop, the consumers it owns, whether it is closed | Connect, Publish, Subscribe, the fetch loop, ack and paced NAK, dead letters, Close | all services |
| **pulsar-gateway** `internal/gateway` | a table of tokens | Create and ConfirmPayment behind Auth: an HTTP call becomes a command | clients, JetStream |
| **binaries** `cmd` | the life of each process | start, shutdown, failure of the health server | all of the above |
| telemetry, config, health, logging | none of the protocol | | |

What is hard about it:

* **Interleaving.** Any number of replicas consume the same subjects. Two
  transactions on one event, one reservation or one user overlap, and each works
  on a row it read some statements ago. PostgreSQL runs at READ COMMITTED.
* **At-least-once delivery in any order.** A message comes again after a lost
  ack, after a nak, or while its first handler is still at it (`AckWait`).
  `payment.succeeded` and `reservation.expired` race.
* **Crashes between steps.** Between COMMIT and ack, between publish and mark,
  between the charge and the transaction that records it.
* **Stale values.** The window checked before the charge; the decision that led
  to the hold; the copy of a payment that a redelivery re-announces.
* **Shutdown.** Close cancels the handlers and waits for them, in the middle of a batch,
  before the pool goes away; a crash takes the batch along.
* **Time.** A batch is handled one message after the other, while the `AckWait` of all
  of them runs.
* **Clients that repeat.** A client that got no answer calls again, and gets another
  reservation id; it pays with a key it has used before.
* **Progress.** The row lock of an event, a poisoned row at the head of the
  outbox, an event dropped as a duplicate of one that was dead-lettered, a
  breaker that late failures keep open.

What makes it correct: tickets are neither oversold nor lost, counters agree with
reservations, one live reservation per user and event, a decision is final and
announced exactly once, a success was charged, an outcome names the reservation
it pays for, no event is lost between database and stream, no seat stays reserved
for ever, no message is forgotten, the hold store never stands in the way, and across
the services nobody gets a ticket that was not paid for, and a charge is on a call of its owner.

## 2. Modules

| Module | Models | Notes |
|---|---|---|
| `Tickets` | vocabulary of pulsar-core | statuses, the announcement of each status, the tickets held by a set of reservations |
| `TicketInventory` | the promise of pulsar-core | abstract specification, each use case one step |
| `ReservationService` | `service.go`, the domain, the PostgreSQL adapter, the subscribers | every SQL statement an action; implements `TicketInventory` |
| `Payments` | vocabulary of pulsar-payment | commands, rows, outcomes |
| `PaymentLedger` | the promise of pulsar-payment | abstract specification: attempts that go from the row to the outcome, without workers and deliveries |
| `PaymentProcessor` | `processor.go`, its subscribers and adapter | every statement, the charge and the ack; implements `PaymentLedger` |
| `OutboxRelay` | `relay.go`, `store.go`, `JetStream.Publish` | any number of relays over one outbox |
| `HoldBreaker` | the breaker of `holds.go` | any number of goroutines in one process |
| `Sweeper` | `sweeper.go`, `source.go`, the consumer of `reservation.expired` | use cases of pulsar-core as the single steps of `TicketInventory` |
| `EventBus` | `jetstream.go` on the consumer's side, `main.go` of pulsar-core and pulsar-payment | replicas of one service on one durable consumer |
| `Gateway` | `handler.go`, `auth.go`, `routes.go` | which calls become commands, and what the client is told |
| `Saga` | the services together | composes `Gateway`, `TicketInventory`, `PaymentLedger` and a sweeper |
| `*Proofs` | | the theorems about the module of that name |
| `MC*` | | constants and symmetry for TLC |

An operator whose comment begins with *Slip* is not part of a specification: it is
a plausible mistake in the definition after it, used as a mutant.

### ReservationService

A worker is a consumer goroutine of any replica. `Reserve`, `Confirm` and `Release`
are the reads and the replay guards, `ReserveCapacity`, `CommitSold` and
`ReleaseCapacity` the conditional UPDATE of the event row (which waits for the row
lock and then tests its WHERE on the committed row), `Create` and `Update` the
reservation statement with its unique index or version guard, `Commit` the outbox
row and the COMMIT, `RemainingTTL`, `SetHold` and `ReleaseHold` what follows the commit:
the clock is read once, before the SET, which may reach Redis after `expires_at`. With
`Faults`, `StatementFails` rolls back, or reports an error although the COMMIT took
place, and `Crash` ends a worker wherever it is.

Left out: locks on reservation rows, since every writer first takes the lock of the
event row and keeps it to the end; the CHECK `events_counts_valid`, which the WHERE
clauses imply (`CountersFit` is part of the proof); payload decoding; amounts.
`Elapse` and `OpenSale` are the clock passing `expires_at` and `sale_opens_at`.
A reservation id carries one command, because the gateway mints a new id for each.

### PaymentProcessor

Messages are separate from keys: two submissions may carry one key. `ledger` is how often
the acquirer charged on each message, known to nobody in the program: a charge is made with
the reservation and the token of the command, not of the row, and an acquirer that charges
and then returns an error is recorded as FAILED. `GivesUp` is a
crash, a failed statement or a cancelled wait. A message is delivered at most
`MaxDeliver` times; a second worker may get it while the first still works.

The mapping to `PaymentLedger` (`Refinement`) forgets workers, deliveries and waits: an
attempt is a pair of a message and the step it has reached, and the messages charged are
those with a count in `ledger`. The ledger lets overlapping attempts of one message stay
where they were when one of them goes on, as two deliveries do.

### OutboxRelay

Rows are named by their rank in `created_at`. `PublishFails` either loses the
message or only its ack. `Lapse` is a message id leaving the duplicate window.
`Abandon` is a crash, a failed `MarkProcessed` or an empty result. `MaxLapses` and
`MaxFaults` bound how often these happen.

### HoldBreaker

Time is counted in ticks. `Tick` cannot let an operation grow older than `opTimeout`:
the context of the operation ends it, and the report that follows is taken to be
immediate on the scale of the cooldown (200 ms against 30 s). Set, Release and Exists
run the same protocol and are one set of actions.

### Sweeper

`overdue` and `late` are the same deadline on the clocks of PostgreSQL and of
pulsar-core. `FindExpired(w, locked)` skips the rows other transactions have locked at
that moment; the locks end with the query. `Confirm` stands for every decision of the
reservation other than the expiry.

### EventBus

The main goroutine of a replica goes through `Connect`, `Subscribe`, `Close` and `Drain`,
or ends by `Abort` (the health server failed: `run` returns without closing the bus) or
`Crash`. The fetch loop has at most one pull request open (`room`) and a `batch` whose first
message is being handled; `isClosed` is asked between batches only. The broker, which is not
part of the repository, sends a message that is ready, sends it again when `AckWait` or the
delay of a NAK is over, and gives it up after `MaxDeliver` deliveries with an advisory.
`HeardBy` says who gets the advisory: listeners of other services and, by the queue group,
one replica of this one. Acks and NAKs may be lost, and an ack is taken however late.

A service has several consumers (four, two); they are independent but for Close, and one
stands for them. `HandlerTime` bounds a handler. What a handler does is the business of
`ReservationService` and `PaymentProcessor`.

### Gateway and Saga

A call of `POST /v1/reservations` is named by the id that the gateway mints for it, so a
repeated call is another member of `ResId`, whatever its key. `Answers` is what the
client hears: an error of Publish is a 503, whether or not the command was stored. A payment
call names a reservation whose 202 its client saw, and its user comes from the token table.

In `Saga` the services are their abstract specifications. Streams and outboxes only grow, and
a handler may take any message in them at any time, any number of times: late, repeated and
reordered delivery. Reserve commands are the exception: `left` counts the deliveries still to
come of each, because these can be used up before anything has come of the command. `OnReserve`
acknowledges a reservation that is made, that was made before, or that finds the event sold out,
and hands every other error back (a rival reservation, a sale that is not open, an unknown event, a
failing store) until the last delivery, which is the dead letter. An acknowledgement may leave
deliveries that are under way, or be lost. `Sweep`
announces a PENDING reservation whose window is over, and the windows of both services end
together (`Elapse`; clocks apart are the business of `Sweeper`). Cancel, which no consumer calls,
is no step of the saga.

## 3. Runs

Each run finishes within a minute or so with two workers of TLC, `pay_safety` and `saga` within three.

| Run | Shows | States |
|---|---|---|
| `core_safety` | `Conservation`, `NoOverbooking`, `OutboxMatches`, `AckedApplied`, `HoldBacked`, `DecisionFinal`, `Refinement` | 596,284 |
| `core_rivals` | `OneActivePerUser` | 589,718 |
| `core_liveness` | `HandlerReturns`: every delivery ends; `HoldsEnd`: no hold outlives its window for good | 19,434 |
| `pay_safety` | `DecidedAnnounced`, `SuccessWasCharged`, `OutcomeBelongs`, `RowOfOwner`, `ChargesBounded` (no more charges on a command than deliveries of it), `CommandSettles` (acknowledged and decided, or dead-lettered), `Refinement` | 430,368 |
| `relay` | `NothingLost`, `DedupAbsorbs`, `Drained` | 119,592 |
| `breaker` | `ProbeAlone`, `FastPathReturns` | 54,918 |
| `sweeper` | `CleanedAfterAnnounced`, `NoSeatLeaks` | 161,056 |
| `bus` | `OneInstance` (a batch fits into `AckWait`), `QuietOnceClosed`, `CountedOnce`, `BudgetLasts`, `CloseReturns`, `MessageSettles` | 150,114 |
| `saga` | `ConfirmedWasCharged`, `ChargedOnOwnCall`, `OneAccount`, `AcceptedSettles` | 383,483 |

Three further runs (`pay_double_charge`, `pay_conflict`, `saga_late_success`) end in a
counterexample: see section 6. `OutboxRelay` and `Sweeper` need no MC module: their constants
are numbers and model values.

### Bounds, and why they are enough to be interesting

* **Core.** Two workers and two reservations of three tickets together, for an event of
  two: the last ticket is contended, one reservation needs the seats the other gives
  back, and both workers may run the same or opposite use cases on one reservation. The
  rival run gives both reservations to one user. Versions stay below three because a
  reservation changes twice. Deliveries are not bounded.
* **Payment.** Two workers, three submissions (the owner, a stranger, and a second
  reservation reusing the first key), two deliveries each, one re-read of the projection
  (the code has three; each is the same step). Two deliveries are the first and a
  repetition.
* **Relay.** Three rows and batches of two, so a batch neither holds everything nor is
  ever the same after a mark; one fault, one lapse per row.
* **Breaker.** Three callers around a threshold of two: one more operation is in flight
  than it takes to open. An operation lasts up to two ticks, the cooldown three.
* **Sweeper.** Two reservations, two sweepers; a batch size of one, so that a reservation waits
  behind another, or of two, so that a publication fails in the middle of a batch (`batchSize` is
  chosen at the start); one delivery, so that each failure is a dead letter.
* **Bus.** Two replicas and two messages in batches of two, so that a message waits behind
  another and either replica may get it again; two deliveries, a handler of one tick under an
  `AckWait` of three, one stop of any kind, and a listener of
  another service. `lived` stops at the sum of the pauses, where more makes no difference.
* **Saga.** Two users after one seat, so that the loser is turned down, dead-lettered, or gets
  the seat when it is free again; each pays its own reservation under the same key, and the second
  also tries to pay the first one's under another. Two deliveries of a reserve command: one that
  fails and one more. `saga_late_success` has one reservation and one payment.

CHECK_DEADLOCK is off where the system may really come to rest: everything paid, relayed,
expired or dead-lettered. The core, the breaker and the bus never rest, and are checked
for deadlock.

### Fairness

* **Core**: strong fairness of a worker's own steps. A worker that waits for a row lock is
  enabled only while the lock is free; PostgreSQL queues the waiters of a row, so it is
  not overtaken for ever. For `HoldsEnd`, weak fairness of Redis dropping an expired key.
  Deliveries, crashes and clocks are not fair.
* **Payment**: weak fairness of a running handler, and of the broker offering an
  unacknowledged message that has deliveries left.
* **Relay**: weak fairness of fetch and mark (the ticker), strong fairness of a publication:
  a broker that is up now and again accepts a message now and again.
* **Breaker**: time passes, the service goes on asking for holds, an operation returns, and
  a Redis that stays up does not fail every operation. Outages are not fair.
* **Sweeper**: the ticker of one replica sweeps and a row is not locked at every sweep, while the
  others may stop for good anywhere; the broker does not
  refuse every message, nor the consumer fail every delivery; the duplicate window
  passes. Crashes, failures and expiry itself are not fair.
* **Bus**: weak fairness of a process's own steps and of its restart, of time, and of the
  broker's timers; strong fairness of a delivery, since a pull request is open only now and
  again. Publication, Close and crashes are not fair.
* **Saga**: the broker goes on delivering a reserve command while it has deliveries left
  (`MessageSettles`), and what becomes of each of them is open; time passes, and the sweeper
  announces an overdue reservation until one of its events is handled (`NoSeatLeaks`). Payments and
  their outcomes are not fair: a reservation comes to an end whatever pulsar-payment does.

## 4. Proofs

TLAPS proves these for every value of the constants: any number of workers, relays,
sweepers, goroutines, reservations, batch sizes and delivery limits. The assumptions are
the ASSUMEs of the modules, which TLC evaluates on every run: finitely many reservation
ids, positive capacities and quantities, one command per id, an operation shorter than the
cooldown, delays of NAKs below `AckWait`, a reserve command with the user of its token.
Three theorems assume more, in their statement: `OneAtATime` that a whole batch is handled
within `AckWait`; `AloneOneOutcome` and `AloneChargedOnce` that handlers of one key do not
overlap (`KeyAlone`), the latter also that nothing fails. Each names the condition under which
one of the disagreements of section 6 cannot happen.

| Module | Theorems |
|---|---|
| `TicketsProofs` | lemmas on the cardinality of tickets held, when a reservation enters, leaves or changes status |
| `ReservationServiceProofs` | `TypeCorrect`, `CountersConserved`, `NeverOverbooked`, `OutboxFaithful`, `AcknowledgedIsApplied`, `HoldsAreBacked`, `OneActive`, `DecisionsAreFinal`, `NoCircularWait`, `HoldsComeToAnEnd`, `Implements` |
| `PaymentProcessorProofs` | `TypeCorrect`, `DecisionsAnnounced`, `SuccessesCharged`, `OutcomesBelong`, `RowsOfOwners`, `ChargesAreBounded`, `AloneOneOutcome`, `AloneChargedOnce`, `Implements` |
| `OutboxRelayProofs` | `TypeCorrect`, `NoEventLost`, `DuplicatesAbsorbed`, `SweepsKeepOrder`, `NobodyJumpsTheQueue` |
| `HoldBreakerProofs` | `TypeCorrect`, `ProbesAreAlone` |
| `SweeperProofs` | `TypeCorrect`, `HygieneFollows`, `NobodyExpiresEarly` |
| `EventBusProofs` | `TypeCorrect`, `ClosedIsQuiet`, `DeadLettersCountedOnce`, `PausesPass`, `OneAtATime` |
| `SagaProofs` | `TypeCorrect`, `NoTicketUnpaid`, `NobodyElsePays`, `OneKeySuffices`, `NeverOversold` |

**Core.** `Conservation` is not inductive: a worker about to commit carries counters
computed earlier and a version read earlier still. The strengthening `IInv` says why both
are still good: the worker holds the lock of the event row (`LockInv`); its image is the
committed counters moved by its quantity (`ImageInv`); the version of a row says which
status it has (`RowInv`), so a version guard that matched implies the row is still PENDING
(`WriteInv`). A step is a commit, a worker's move that leaves the data alone, or a step of
the surroundings (`StepKinds`), and each conjunct has its lemma. `Implements` then maps
`Commit` to `Reserve` or `Decide` of `TicketInventory` and every other step to a stutter.
Two theorems are the safety halves of the liveness properties: a row lock is always held by a
worker past its last wait (`NoCircularWait`), so that no circle of waiters can form; and a hold
that is gone after its window comes back only by the SET of a handler that had computed its TTL in
time, of which there are ever fewer (`HoldsComeToAnEnd`).

**Payment.** A handler works on a copy of the payment and carries a verdict. Both are good
when used because the reservation of a row never changes and the ledger only grows
(`CopyInv`, `VerdictInv`, `OwnerInv`, `ChargeInv`). `Implements` needs one more fact: what a
redelivery records again is in the outbox already (`RecordInv`), so that it is a stutter.

How often a command is charged is counted by deliveries: every delivery of it that
was made pays for at most one charge, and a handler that has not charged yet still has its own to
spend (`BudgetOf`), so charges never exceed deliveries (`ChargesAreBounded`) although nothing about
a charge is stored before it is made. Two different outcomes of one key need two handlers of it at
the same time (`AloneOneOutcome`: without the overlap a handler that has passed the status check is
the only one that can settle the row, `SoleInv`); two charges need that overlap or a failure between
the charge and the record (`AloneChargedOnce`, `OnceInv`). `OneAtATime` says when the bus keeps
deliveries of one message apart; two messages with one key may overlap all the same.

**Relay.** What a relay has sent is stored (`SentStored`), what the window remembers is
stored (`RecentStored`), and what it forgot has as many copies as lapses (`Forgotten`). A sweep
takes at most `BatchSize` rows and publishes them oldest first (`SweepsKeepOrder`), and starts with
the oldest unmarked rows there are (`NobodyJumpsTheQueue`): no row waits behind younger ones. Both
rest on what ORDER BY and LIMIT do to a set of rows (`OldestFacts`).

**Breaker.** While the breaker is open, every operation in Redis is at least as old as the
window (`OldOps`), so when the cooldown has passed nobody is left; a probe in Redis means
the breaker is still open (`ProbeOpen`).

**Sweeper.** A sweeper that cleans has sent its whole batch (`CleanComplete`), and what it
sent is announced (`SentAnnounced`), so that no hold goes before all events of its batch are stored
(`HygieneFollows`). What is delivered was announced (`DeliveredAnnounced`), so an
expired reservation was overdue on both clocks (`NobodyExpiresEarly`).

**Bus.** Whatever the times are, a loop that has ended has neither a batch nor a pull request
(`LoopInv`), and a batch and its pull request never exceed `Batch` (`Fits`). For `OneAtATime` a
message at place i of a batch has i handlers to wait for, its own included; what it has behind
it and what it may have before it never exceed the time of a whole batch (`InTime`), so the broker
still counts it as out (`Held`) and sends it to nobody else.

`PausesPass` needs no condition on times. What endangers it is a delivery that `AckWait` cuts short
while it waits in a batch: its NAK comes late and shortens the pause of a later delivery. But such
a delivery has waited longer than its own pause, by what its NAK can still save: these ticks are the
credit of the deliveries that are still in a batch, and a message has always lived through the pauses
behind it and that credit (`Due`). The sum of the pauses is a recursive function; that it satisfies
its recurrence is shown by a least counterexample (`Least`), since induction over data is not
available.

**Saga.** The services know each other through messages only, so the invariant says where
each piece of state came from: an attempt, and a charge, is on a call that passed the checks of
`Handle` and has a row (`AttemptInv`, `ChargeInv`); a row has a call of the owner
and a projected reservation (`RowInv`), which pulsar-core made (`ContextInv`); an outcome has a row
and, if a success, a charge on a call with its key (`OutcomeInv`); a decision has an outcome or an
elapsed window (`DecisionInv`). All of these are about sets that only grow (`Grows`). The theorems
are about the abstract specifications of the two services, which `Implements` of
`ReservationServiceProofs` and of `PaymentProcessorProofs` connect to the detailed ones. Counting
seats through the steps of pulsar-core gives zero overbooking from the HTTP call to the outcome
(`NeverOversold`). `NobodyElsePays` is about the call each charge is taken on, and names the one way
in which it pays for something else: another call with the same key. `OneKeySuffices` says what the
client owes: with one key for a reservation it is charged under that key alone, and while its window
is open it fails after a charge only if the same key was also turned down.

Only model-checked: the liveness properties (`HandlerReturns`, `HoldsEnd`, `CommandSettles`,
`Drained`, `FastPathReturns`, `NoSeatLeaks`, `CloseReturns`, `MessageSettles`,
`AcceptedSettles`), which rest on fairness and are out of the prover's reach. Every invariant and
action property of the runs is proved. Conversely, the type invariants of the saga and of
the payment service, and the theorems that name no property of section 3, are proved and not part of a
run.

## 5. Hazards

`PROJECT.json` lists them at the lines where they bite, with the properties that would
catch them. One has no property, and is described below: the breaker's gauge, which nothing
reads.

## 6. Where the code and its documents disagree

* `pay_double_charge`: the charge precedes anything stored about it. A replica that dies
  between `Charge` and the commit of `finish` charges again on redelivery, against the
  comment on `Processor`. A real acquirer could absorb this by the key it is given.
* `pay_conflict`: two handlers of one key both find the payment PENDING, and `UpdateStatus`
  does not look at the status it replaces: `payment.succeeded` and `payment.failed` of one
  key are both announced. README.md promises that a repeated key has no second effect.
  `AloneOneOutcome` shows that it takes the overlap, and `AloneChargedOnce` that the double charge
  takes an overlap or a failure.
* `saga_late_success`: the window is compared with the clock once, before the acquirer is called
  (`processor.go:220`), and the sweeper knows nothing of a payment on its way. So a charge may go
  through, or its outcome arrive, when the reservation is EXPIRED: `confirm` refuses it, and nothing
  gives the money back. `service.go:198-200` says that a succeeded payment is honored.

Seen on the way, and not given a run of their own:

* Payments are unique per key, not per reservation (`processor.go:284`): two keys charge one
  reservation twice, and the failure of one of them releases what the other has paid. A payer who
  stays with one key is safe from that (`OneAccount`).
* Keys are not separate by user either. `Handle` compares the user of the command with the owner of
  the reservation the command names, and `loadOrCreate` then returns whatever payment has the key
  (`processor.go:304`). When two users use one key, each for a reservation of its own, the PENDING
  payment of the first is charged with the token of the second, where `processor.go:193-194` says
  that only the user who created the reservation may pay it. `ChargedOnOwnCall` names exactly this
  exception; the outcome goes to the reservation of the row (`OutcomeBelongs`,
  `ConfirmedWasCharged`).
* Each `POST /v1/reservations` gets a reservation id and a message id of its own
  (`handler.go:72`, `84`), and nobody reads its `Idempotency-Key` after the gateway. A repeated call
  makes a second reservation as soon as the first is no longer alive, where README.md:159 says that
  a repeated key has no second effect. While the first is alive the index of pulsar-core keeps the
  second out (`OneActivePerUser`).
* A batch of up to 16 messages is handled one after the other under one `AckWait`
  (`jetstream.go:212`). A handler that is quick enough by itself does not keep the last message of
  the batch from being sent to another replica, where the comment on `Subscribe` says that each
  message is handled by exactly one instance. `OneAtATime` gives the condition under which that is
  so, and the handlers are modelled to survive without it.
* The locks of `FindExpired` end with its transaction, before the first publication
  (`source.go:54`), where the comment on the source says that two sweepers never claim the same
  batch. The stable message id absorbs the repetition while the duplicate window lasts.
* Transitions of the breaker reach its gauge outside the mutex, possibly in the other order
  (`holds.go:196`); the gauge then says open over a closed breaker until the next outage has
  ended.
* An advisory may reach a replica that is connected and has not subscribed yet, which drops
  it as another service's, or a replica that has just closed: the dead letter is then counted by
  nobody, where `jetstream.go:44-48` says that exactly one process counts it. `CountedOnce` is
  therefore *at most once*.
* When the health server fails, `run` returns without closing the bus (`main.go:95`), and
  handlers run on over a closed pool for a moment; their errors are NAKs, and
  `MessageSettles` holds with this.
* pulsar-gateway closes the bus before the API server (`main.go:82`), so calls in that moment
  are answered 503.
* The hold is written after the commit without a second look at the reservation
  (`service.go:77`), so it may be written after the decision that deletes it, and only its
  TTL removes it then (`HoldsEnd`). docs/ARCHITECTURE.md 7.4 has it removed on confirmation or release.
* The relay polls with a plain SELECT (`store.go:32`), where docs/ARCHITECTURE.md 7.2 says
  `FOR UPDATE SKIP LOCKED`. `DedupAbsorbs` shows overlapping relays to be harmless while
  the duplicate window lasts.
* docs/ARCHITECTURE.md 7.3 describes a `processed_messages` table; the schema has it,
  no code writes it, and the replay guards on the status take its
  place.

## 7. Not modelled

| Part | Why not |
|---|---|
| in-memory bus (`eventbus.go`) | a double for development and tests: synchronous, in one process, without redelivery |
| middleware other than Auth, `GET /v1/reservations/{id}` | observe, or answer 501; they change nothing |
| telemetry (`metrics.go`, `trace.go`, `observer_otel.go`), config, health, logging, uid | I/O and wiring without protocol state |
| `main.go` of gateway, chrono, horizon | wiring; a crash of them is part of `OutboxRelay` and `Sweeper` |
| envelope fields and JSON | the event types are modelled, their encoding is not |
| tickets table | declared, used by no code |

Modules were built in the order of what matters most: the ticket pool and its promise, the
payment and its promise, the relay, the breaker, the sweeper, the bus, the gateway and the saga
that composes them. What remains beyond reach is liveness; its safety halves are proved where they
say something on their own (`NoCircularWait`, `HoldsComeToAnEnd`, `NobodyJumpsTheQueue`).
