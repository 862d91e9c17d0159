------------------------------- MODULE EventBus -------------------------------
(***************************************************************************)
(* The JetStream bus (pkg/eventbus/jetstream.go) as the replicas of one    *)
(* service use it to consume from one durable consumer, and the life of    *)
(* such a replica (cmd/pulsar-core/main.go, cmd/pulsar-payment/main.go):   *)
(* it connects, subscribes, works through the batches it fetches, and is   *)
(* shut down by Close, by an error of its health server, or by a crash.    *)
(*                                                                         *)
(* A batch is handled one message after the other, and the broker started  *)
(* the AckWait of every message of it when it sent it.  Time is counted in *)
(* ticks: how long a message has been out or paced, and how long the       *)
(* handler of the first message of a batch has been running.  What lies    *)
(* between two handlers takes no time.                                     *)
(*                                                                         *)
(* The handlers themselves are ReservationService and PaymentProcessor;    *)
(* here a handler returns nil or an error.                                 *)
(***************************************************************************)
EXTENDS Naturals, Sequences, FiniteSets

CONSTANTS
    Replica,        \* processes of the service, which share the durable
    Foreign,        \* processes of other services that listen for advisories
    Msg,            \* messages
    Batch,          \* messages one Fetch asks for (16)
    HandlerTime,    \* how long a handler may take
    AckWait,        \* after which the broker sends a message again
    Delay,          \* redeliveryDelay after each delivery
    MaxDeliver,     \* deliveries of one message
    MaxStops        \* bound: how often a replica is stopped, one way or other

ASSUME BusAssumption ==
    /\ Replica \cap Foreign = {}
    /\ Batch \in Nat \ {0}
    /\ HandlerTime \in Nat
    /\ AckWait \in Nat
    /\ MaxDeliver \in Nat \ {0}
    /\ MaxStops \in Nat
    /\ Delay \in [1..MaxDeliver -> 0..AckWait]

VARIABLES
    phase,      \* where the main goroutine of each replica is
    listening,  \* replicas whose DLQ listener is subscribed
    looping,    \* replicas whose fetch loop runs
    stops,      \* stops so far
    room,       \* messages the open pull request of each loop may still get
    batch,      \* what the loop has yet to handle; the handler is at the first
    busy,       \* how long that handler has been running
    at,         \* what the broker has to do with each message
    delivered,  \* deliveries of each message so far
    age,        \* time since its last delivery, or since its NAK
    lived,      \* time since its first delivery, as far as it matters
    counted     \* how often its dead letter was counted

process == <<phase, listening, looping, stops>>
loop    == <<room, batch, busy>>
broker  == <<at, delivered, age, lived>>
vars    == <<phase, listening, looping, stops, room, batch, busy, at, delivered, age,
             lived, counted>>

Phase == {"down", "connected", "running", "closing", "drained", "aborting"}
Where == {"unsent", "ready", "out", "paced", "acked", "dead"}

\* How long the first n NAKs of a message put it off.
Pauses[n \in 0..MaxDeliver] == IF n = 0 THEN 0 ELSE Pauses[n - 1] + Delay[n]

Patience == Pauses[MaxDeliver - 1]

\* A delivery: the message and its NumDelivered.
Delivery == [msg : Msg, num : 1..MaxDeliver]

\* durables: what Subscribe recorded in this process.
ownsConsumer(p) == p \in Replica /\ phase[p] \notin {"down", "connected"}

TypeOK ==
    /\ phase \in [Replica -> Phase]
    /\ listening \subseteq Replica
    /\ looping \subseteq Replica
    /\ stops \in 0..MaxStops
    /\ room \in [Replica -> 0..Batch]
    /\ batch \in [Replica -> Seq(Delivery)]
    /\ busy \in [Replica -> 0..HandlerTime]
    /\ at \in [Msg -> Where]
    /\ delivered \in [Msg -> 0..MaxDeliver]
    /\ age \in [Msg -> 0..AckWait]
    /\ lived \in [Msg -> Nat]
    /\ counted \in [Msg -> Nat]

Init ==
    /\ phase = [p \in Replica |-> "down"]
    /\ listening = {}
    /\ looping = {}
    /\ stops = 0
    /\ room = [p \in Replica |-> 0]
    /\ batch = [p \in Replica |-> <<>>]
    /\ busy = [p \in Replica |-> 0]
    /\ at = [m \in Msg |-> "unsent"]
    /\ delivered = [m \in Msg |-> 0]
    /\ age = [m \in Msg |-> 0]
    /\ lived = [m \in Msg |-> 0]
    /\ counted = [m \in Msg |-> 0]

-----------------------------------------------------------------------------
(* The life of a replica. *)

\* ConnectJetStream starts the DLQ listener.
Connect(p) ==
    /\ phase[p] = "down"
    /\ phase' = [phase EXCEPT ![p] = "connected"]
    /\ listening' = listening \cup {p}
    /\ UNCHANGED <<looping, stops, loop, broker, counted>>

\* Register, and the health server is up.
Subscribe(p) ==
    /\ phase[p] = "connected"
    /\ phase' = [phase EXCEPT ![p] = "running"]
    /\ looping' = looping \cup {p}
    /\ UNCHANGED <<listening, stops, loop, broker, counted>>

Stops == stops < MaxStops /\ stops' = stops + 1

\* Close, up to wg.Wait: the loop may be in the middle of a batch.
Close(p) ==
    /\ phase[p] = "running"
    /\ Stops
    /\ phase' = [phase EXCEPT ![p] = "closing"]
    /\ UNCHANGED <<listening, looping, loop, broker, counted>>

\* listenDLQ sees the cancelled context.
ListenerEnds(p) ==
    /\ phase[p] = "closing"
    /\ p \in listening
    /\ listening' = listening \ {p}
    /\ UNCHANGED <<phase, looping, stops, loop, broker, counted>>

\* Slip: Close does not wait for the goroutines.
DrainAtOnce(p) ==
    /\ phase[p] = "closing"
    /\ phase' = [phase EXCEPT ![p] = "drained"]
    /\ UNCHANGED <<listening, looping, stops, loop, broker, counted>>

\* wg.Wait is over: Drain, and Close returns.
Drain(p) ==
    /\ phase[p] = "closing"
    /\ p \notin looping \cup listening
    /\ phase' = [phase EXCEPT ![p] = "drained"]
    /\ UNCHANGED <<listening, looping, stops, loop, broker, counted>>

\* The health server fails: run returns through the deferred calls, which close
\* the pool, and the bus is not closed.
Abort(p) ==
    /\ phase[p] = "running"
    /\ Stops
    /\ phase' = [phase EXCEPT ![p] = "aborting"]
    /\ UNCHANGED <<listening, looping, loop, broker, counted>>

\* The process is gone, whatever its goroutines were doing.
Gone(p) ==
    /\ phase' = [phase EXCEPT ![p] = "down"]
    /\ listening' = listening \ {p}
    /\ looping' = looping \ {p}
    /\ room' = [room EXCEPT ![p] = 0]
    /\ batch' = [batch EXCEPT ![p] = <<>>]
    /\ busy' = [busy EXCEPT ![p] = 0]
    /\ UNCHANGED <<broker, counted>>

\* main returns after the deferred calls.
Exit(p) == phase[p] \in {"drained", "aborting"} /\ Gone(p) /\ UNCHANGED stops

Crash(p) == phase[p] \in {"connected", "running", "closing"} /\ Gone(p) /\ Stops

-----------------------------------------------------------------------------
(* The fetch loop. *)

\* Slip: the loop never asks whether the bus was closed.
FetchForever(p) ==
    /\ p \in looping /\ room[p] = 0 /\ batch[p] = <<>>
    /\ room' = [room EXCEPT ![p] = Batch]
    /\ UNCHANGED <<process, batch, busy, broker, counted>>

\* Slip: one message more than the loop has room for.
FetchOneMore(p) ==
    /\ p \in looping /\ room[p] = 0 /\ batch[p] = <<>>
    /\ phase[p] # "closing"
    /\ room' = [room EXCEPT ![p] = Batch + 1]
    /\ UNCHANGED <<process, batch, busy, broker, counted>>

\* isClosed is asked between two batches.
Fetch(p) ==
    /\ p \in looping /\ room[p] = 0 /\ batch[p] = <<>>
    /\ phase[p] # "closing"
    /\ room' = [room EXCEPT ![p] = Batch]
    /\ UNCHANGED <<process, batch, busy, broker, counted>>

\* Slip: the loop returns when Fetch fails.
FetchEndsLoop(p) ==
    /\ room[p] > 0
    /\ room' = [room EXCEPT ![p] = 0]
    /\ looping' = looping \ {p}
    /\ UNCHANGED <<phase, listening, stops, batch, busy, broker, counted>>

\* FetchMaxWait is over, or Fetch failed.
FetchEnds(p) ==
    /\ room[p] > 0
    /\ room' = [room EXCEPT ![p] = 0]
    /\ UNCHANGED <<process, batch, busy, broker, counted>>

LoopEnds(p) ==
    /\ p \in looping /\ room[p] = 0 /\ batch[p] = <<>>
    /\ phase[p] = "closing"
    /\ looping' = looping \ {p}
    /\ UNCHANGED <<phase, listening, stops, loop, broker, counted>>

\* The loop goes on to the next message of the batch.
Advance(p) ==
    /\ batch[p] # <<>>
    /\ batch' = [batch EXCEPT ![p] = Tail(@)]
    /\ busy' = [busy EXCEPT ![p] = 0]
    /\ UNCHANGED <<process, room, counted>>

\* The handler returns nil.  The broker takes the ack, however late, unless it is
\* lost.
HandleOk(p) ==
    LET m == batch[p][1].msg IN
    /\ Advance(p)
    /\ at' \in {at} \cup (IF at[m] = "dead" THEN {} ELSE {[at EXCEPT ![m] = "acked"]})
    /\ UNCHANGED <<delivered, age, lived>>

\* Slip: a plain NAK.
HandleErrorUnpaced(p) ==
    LET m == batch[p][1].msg IN
    /\ Advance(p)
    /\ at' \in {at} \cup (IF at[m] = "out" THEN {[at EXCEPT ![m] = "ready"]} ELSE {})
    /\ UNCHANGED <<delivered, age, lived>>

\* Slip: the loop stays at the message it has sent a NAK for.
HandleErrorInPlace(p) ==
    /\ batch[p] # <<>> /\ at[batch[p][1].msg] = "out"
    /\ at' = [at EXCEPT ![batch[p][1].msg] = "paced"]
    /\ age' = [age EXCEPT ![batch[p][1].msg] = AckWait - Delay[batch[p][1].num]]
    /\ UNCHANGED <<process, loop, delivered, lived, counted>>

\* It returns an error, as every handler does that looks at the context of a
\* closing bus or at a closed pool: NakWithDelay, which may be lost.  age is set
\* so that AckWait - Delay is behind the message already.
HandleError(p) ==
    LET d == batch[p][1] IN
    /\ Advance(p)
    /\ \/ UNCHANGED <<at, age>>
       \/ /\ at[d.msg] = "out"
          /\ at' = [at EXCEPT ![d.msg] = "paced"]
          /\ age' = [age EXCEPT ![d.msg] = AckWait - Delay[d.num]]
    /\ UNCHANGED <<delivered, lived>>

-----------------------------------------------------------------------------
(* The broker (external). *)

Publish(m) ==
    /\ at[m] = "unsent"
    /\ at' = [at EXCEPT ![m] = "ready"]
    /\ UNCHANGED <<process, loop, delivered, age, lived, counted>>

Deliver(p, m) ==
    /\ room[p] > 0
    /\ at[m] = "ready" /\ delivered[m] < MaxDeliver
    /\ room' = [room EXCEPT ![p] = @ - 1]
    /\ batch' = [batch EXCEPT ![p] = Append(@, [msg |-> m, num |-> delivered[m] + 1])]
    /\ at' = [at EXCEPT ![m] = "out"]
    /\ delivered' = [delivered EXCEPT ![m] = @ + 1]
    /\ age' = [age EXCEPT ![m] = 0]
    /\ UNCHANGED <<process, busy, lived, counted>>

\* AckWait, or the delay of a NAK, is over.
Lapse(m) ==
    /\ at[m] \in {"out", "paced"} /\ age[m] = AckWait
    /\ at' = [at EXCEPT ![m] = "ready"]
    /\ UNCHANGED <<process, loop, delivered, age, lived, counted>>

\* listenDLQ, in each process that gets the advisory.
Count(S) == Cardinality({p \in S : ownsConsumer(p)})

\* Slip: the advisory is subscribed to without a queue group.
HeardByAll == {Foreign, listening \cup Foreign}

\* Who gets the advisory: the listeners of other services, and one listener of
\* this one (DLQQueueGroup), unless the advisory is lost or nobody subscribed.
HeardBy == {Foreign} \cup {{p} \cup Foreign : p \in listening}

Exhaust(m) ==
    /\ at[m] = "ready" /\ delivered[m] = MaxDeliver
    /\ at' = [at EXCEPT ![m] = "dead"]
    /\ \E S \in HeardBy : counted' = [counted EXCEPT ![m] = @ + Count(S)]
    /\ UNCHANGED <<process, loop, delivered, age, lived>>

\* A handler is over before it has run longer than HandlerTime.
Tick ==
    /\ \A p \in Replica : batch[p] # <<>> => busy[p] < HandlerTime
    /\ busy' = [p \in Replica |-> IF batch[p] # <<>> THEN busy[p] + 1 ELSE busy[p]]
    /\ age' = [m \in Msg |-> IF at[m] \in {"out", "paced"} /\ age[m] < AckWait
                             THEN age[m] + 1 ELSE age[m]]
    /\ lived' = [m \in Msg |-> IF delivered[m] > 0 /\ lived[m] < Patience
                               THEN lived[m] + 1 ELSE lived[m]]
    /\ UNCHANGED <<process, room, batch, at, delivered, counted>>

-----------------------------------------------------------------------------
Handle(p) == HandleOk(p) \/ HandleError(p)

Closes(p) == ListenerEnds(p) \/ FetchEnds(p) \/ LoopEnds(p) \/ Drain(p)

Next ==
    \/ \E p \in Replica :
          \/ Connect(p) \/ Subscribe(p) \/ Close(p) \/ Abort(p)
          \/ Closes(p) \/ Exit(p) \/ Crash(p)
          \/ Fetch(p) \/ Handle(p)
          \/ \E m \in Msg : Deliver(p, m)
    \/ \E m \in Msg : Publish(m) \/ Lapse(m) \/ Exhaust(m)
    \/ Tick

Spec == Init /\ [][Next]_vars

\* A process goes on with its own steps, and is started again when it is gone;
\* time passes; the broker sends a message that is due to a replica that asks
\* for messages again and again.
FairSpec ==
    /\ Spec
    /\ \A p \in Replica :
          /\ WF_vars(Connect(p)) /\ WF_vars(Subscribe(p)) /\ WF_vars(Exit(p))
          /\ WF_vars(Fetch(p)) /\ WF_vars(Handle(p)) /\ WF_vars(Closes(p))
    /\ \A m \in Msg :
          /\ SF_vars(\E p \in Replica : Deliver(p, m))
          /\ WF_vars(Lapse(m)) /\ WF_vars(Exhaust(m))
    /\ WF_vars(Tick)

-----------------------------------------------------------------------------
(* Properties. *)

\* Each message is with one instance at a time: while a replica has it in its
\* batch, no other replica has it, nor the same one twice, through redelivery,
\* shutdown and lost answers (jetstream.go Subscribe).  It depends on a whole
\* batch being handled within AckWait.
OneInstance ==
    \A p, q \in Replica : \A i \in 1..Len(batch[p]), j \in 1..Len(batch[q]) :
        batch[p][i].msg = batch[q][j].msg => p = q /\ i = j

\* The pool outlives the handlers: once Close has returned, and the deferred
\* calls of main close the pool, no message is left in a batch and none can
\* arrive any more (jetstream.go Close, main.go run).
QuietOnceClosed ==
    \A p \in Replica : phase[p] = "drained" =>
        batch[p] = <<>> /\ room[p] = 0 /\ p \notin looping

\* A dead letter is counted by one process at most, whatever other services and
\* replicas listen (jetstream.go listenDLQ), and only once the broker gave up.
CountedOnce ==
    \A m \in Msg : counted[m] <= IF at[m] = "dead" THEN 1 ELSE 0

\* A message that keeps failing does not use up its deliveries at once: before
\* it is given up, all its pauses have passed, also where AckWait or a stop of
\* the replica cut a delivery short (jetstream.go handle, redeliveryDelay).
BudgetLasts == \A m \in Msg : at[m] = "dead" => lived[m] = Patience

\* Close comes to its end, although the loop may be in the middle of a batch, or
\* a pull request be open, when the context is cancelled.
CloseReturns ==
    \A p \in Replica : phase[p] = "closing" ~> phase[p] # "closing"

\* No message is forgotten: it is acknowledged or its deliveries are used up,
\* although a replica may die, or be closed, with the message in its batch, and
\* acks and NAKs get lost.
MessageSettles ==
    \A m \in Msg : at[m] = "ready" ~> at[m] \in {"acked", "dead"}
=============================================================================
