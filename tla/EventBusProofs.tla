---------------------------- MODULE EventBusProofs ----------------------------
(***************************************************************************)
(* For any number of replicas, messages and stops: a closed bus is quiet   *)
(* before the pool is closed, a dead letter is counted once at most, a     *)
(* message is given up only after all its pauses, and, where a whole batch *)
(* can be handled within AckWait, it is with one instance at a time.       *)
(*                                                                         *)
(* The last one rests on a bound on time.  A message at place i of a batch *)
(* has i handlers to wait for, its own included, of which the first has    *)
(* been running for busy; what it has behind it since its delivery and     *)
(* what it may have before it never exceed the time of a whole batch       *)
(* (InTime).  So AckWait is not over for any message of a batch, and the   *)
(* broker still counts it as out (Held).                                   *)
(*                                                                         *)
(* The one about the pauses needs no such bound: it adds up, for every     *)
(* message, the pauses behind it and the credit of the deliveries that are *)
(* still in some batch (Due).                                              *)
(***************************************************************************)
EXTENDS EventBus, TLAPS, FiniteSetTheorems, WellFoundedInduction

LoopInv ==
    /\ \A p \in Replica : p \notin looping => batch[p] = <<>> /\ room[p] = 0
    /\ \A p \in Replica : phase[p] = "drained" => p \notin looping
    /\ \A p \in Replica : p \in looping => phase[p] \notin {"down", "connected"}

Fits == \A p \in Replica : Len(batch[p]) + room[p] <= Batch

IInv == TypeOK /\ LoopInv /\ Fits /\ CountedOnce

-----------------------------------------------------------------------------
(* What holds whatever the times are. *)

\* An advisory is counted by the one replica that gets it, or by nobody.
LEMMA CountAtMostOne ==
    ASSUME NEW S \in HeardBy
    PROVE  Count(S) \in {0, 1}
<1> DEFINE C == {p \in S : ownsConsumer(p)}
<1>1. C = {} \/ \E p \in S : C = {p}
    BY BusAssumption DEF HeardBy, ownsConsumer
<1>2. CASE C = {}
    BY <1>2, FS_EmptySet DEF Count
<1>3. CASE \E p \in S : C = {p}
    BY <1>3, FS_Singleton DEF Count
<1> QED BY <1>1, <1>2, <1>3

\* Nothing is connected, fetched or sent at first.
LEMMA InitInv == Init => IInv
BY BusAssumption DEF Init, IInv, TypeOK, LoopInv, Fits, CountedOnce, Phase, Where

\* The steps of the main goroutine and of the listener.
LEMMA ProcessInv ==
    ASSUME IInv, NEW p \in Replica,
           \/ Connect(p) \/ Subscribe(p) \/ Close(p) \/ Abort(p)
           \/ ListenerEnds(p) \/ Drain(p)
    PROVE  IInv'
<1>0. stops' \in 0..MaxStops
    BY BusAssumption DEF IInv, TypeOK, Connect, Subscribe, Close, Abort, ListenerEnds,
       Drain, Stops
<1>1. TypeOK'
    <2>1. phase' \in [Replica -> Phase]
        BY DEF IInv, TypeOK, Phase, Connect, Subscribe, Close, Abort, ListenerEnds, Drain
    <2>2. listening' \subseteq Replica /\ looping' \subseteq Replica
        BY DEF IInv, TypeOK, Connect, Subscribe, Close, Abort, ListenerEnds, Drain
    <2>3. UNCHANGED <<loop, broker, counted>>
        BY DEF Connect, Subscribe, Close, Abort, ListenerEnds, Drain
    <2> QED BY <1>0, <2>1, <2>2, <2>3 DEF IInv, TypeOK, loop, broker
<1>2. LoopInv'
    BY DEF IInv, TypeOK, LoopInv, Connect, Subscribe, Close, Abort, ListenerEnds, Drain, loop
<1>3. Fits' /\ CountedOnce'
    BY DEF IInv, Fits, CountedOnce, Connect, Subscribe, Close, Abort, ListenerEnds, Drain,
       loop, broker
<1> QED BY <1>1, <1>2, <1>3 DEF IInv

\* A process that is gone takes its batch with it.
LEMMA GoneInv ==
    ASSUME IInv, NEW p \in Replica, Exit(p) \/ Crash(p)
    PROVE  IInv'
<1> USE BusAssumption DEF Exit, Crash, Gone
<1>1. TypeOK'
    <2>1. stops' \in 0..MaxStops
        BY DEF IInv, TypeOK, Stops
    <2>2. /\ phase' \in [Replica -> Phase]
          /\ listening' \subseteq Replica /\ looping' \subseteq Replica
        BY DEF IInv, TypeOK, Phase
    <2>3. /\ room' = [room EXCEPT ![p] = 0]
          /\ busy' = [busy EXCEPT ![p] = 0]
          /\ batch' = [batch EXCEPT ![p] = <<>>]
        OBVIOUS
    <2>4. room' \in [Replica -> 0..Batch] /\ busy' \in [Replica -> 0..HandlerTime]
        <3> HIDE DEF Exit, Crash, Gone
        <3> QED BY <2>3 DEF IInv, TypeOK
    <2>6. batch' \in [Replica -> Seq(Delivery)]
        <3> HIDE DEF Exit, Crash, Gone
        <3> QED BY <2>3 DEF IInv, TypeOK
    <2>5. UNCHANGED <<broker, counted>>
        OBVIOUS
    <2> HIDE DEF Exit, Crash, Gone
    <2> QED BY <2>1, <2>2, <2>4, <2>5, <2>6 DEF IInv, TypeOK, broker
<1>2. LoopInv'
    BY DEF IInv, TypeOK, LoopInv
<1>3. Fits'
    <2>1. /\ room' = [room EXCEPT ![p] = 0]
          /\ batch' = [batch EXCEPT ![p] = <<>>]
        OBVIOUS
    <2> HIDE DEF Exit, Crash, Gone
    <2>2. /\ room'[p] = 0 /\ batch'[p] = <<>> /\ Len(<<>>) = 0
          /\ \A q \in Replica \ {p} : room'[q] = room[q] /\ batch'[q] = batch[q]
        BY <2>1 DEF IInv, TypeOK
    <2> QED BY <2>2 DEF IInv, Fits
<1>4. CountedOnce'
    BY DEF IInv, CountedOnce, broker
<1> QED BY <1>1, <1>2, <1>3, <1>4 DEF IInv

\* The fetch loop between two batches.
LEMMA FetchInv ==
    ASSUME IInv, NEW p \in Replica, Fetch(p) \/ FetchEnds(p) \/ LoopEnds(p)
    PROVE  IInv'
<1> USE BusAssumption DEF Fetch, FetchEnds, LoopEnds
<1>0. room' \in [Replica -> 0..Batch] /\ looping' \subseteq looping
    <2>1. \/ room' = [room EXCEPT ![p] = 0]
          \/ room' = [room EXCEPT ![p] = Batch]
          \/ room' = room
        BY DEF loop
    <2>2. looping' \subseteq looping
        BY DEF process
    <2> HIDE DEF Fetch, FetchEnds, LoopEnds
    <2>3. room \in [Replica -> 0..Batch] /\ 0 \in 0..Batch /\ Batch \in 0..Batch
        BY DEF IInv, TypeOK
    <2> QED BY <2>1, <2>2, <2>3
<1>1. TypeOK'
    <2>1. UNCHANGED <<phase, listening, stops, batch, busy, broker, counted>>
        BY DEF loop, process
    <2> HIDE DEF Fetch, FetchEnds, LoopEnds
    <2> QED BY <1>0, <2>1 DEF IInv, TypeOK, broker
<1>2. LoopInv'
    BY DEF IInv, TypeOK, LoopInv, loop, process
<1>3. Fits'
    <2> SUFFICES ASSUME NEW q \in Replica PROVE Len(batch'[q]) + room'[q] <= Batch
        BY DEF Fits
    <2>1. /\ batch' = batch /\ Len(<<>>) = 0
          /\ batch[q] \in Seq(Delivery) /\ room[q] \in Nat
          /\ Len(batch[q]) + room[q] <= Batch
        BY DEF IInv, TypeOK, Fits, loop
    <2>2. Len(batch[q]) \in Nat
        BY <2>1
    <2>3. room'[q] \in {0, room[q]} \/ (batch[q] = <<>> /\ room'[q] = Batch)
        BY DEF IInv, TypeOK, loop
    <2> HIDE DEF Fetch, FetchEnds, LoopEnds
    <2> QED BY <2>1, <2>2, <2>3
<1>4. CountedOnce'
    BY DEF IInv, CountedOnce, broker
<1> QED BY <1>1, <1>2, <1>3, <1>4 DEF IInv

\* A handler returns: the batch of its replica gets shorter.
LEMMA HandleInv ==
    ASSUME IInv, NEW p \in Replica, Handle(p)
    PROVE  IInv'
<1> DEFINE m == batch[p][1].msg
<1>0. Advance(p) /\ batch[p] # <<>>
    BY DEF Handle, HandleOk, HandleError, Advance
<1>1. /\ batch[p] \in Seq(Delivery)
      /\ batch[p][1] \in Delivery
      /\ Tail(batch[p]) \in Seq(Delivery)
      /\ Len(Tail(batch[p])) = Len(batch[p]) - 1
    BY <1>0 DEF IInv, TypeOK
<1>2. /\ batch' \in [Replica -> Seq(Delivery)]
      /\ busy' \in [Replica -> 0..HandlerTime]
    BY <1>0, <1>1, BusAssumption DEF Advance, IInv, TypeOK
<1>3. /\ at' \in [Msg -> Where]
      /\ age' \in [Msg -> 0..AckWait]
      /\ \A n \in Msg : at[n] = "dead" <=> at'[n] = "dead"
      /\ UNCHANGED <<delivered, lived>>
    <2>1. CASE HandleOk(p)
        BY <1>1, <2>1 DEF HandleOk, IInv, TypeOK, Where, Delivery
    <2>2. CASE HandleError(p)
        <3>1. /\ batch[p][1].num \in 1..MaxDeliver
              /\ batch[p][1].msg \in Msg
            BY <1>1 DEF Delivery
        <3>2. AckWait - Delay[batch[p][1].num] \in 0..AckWait
            <4>1. Delay[batch[p][1].num] \in 0..AckWait /\ AckWait \in Nat
                BY <3>1, BusAssumption
            <4> QED BY <4>1
        <3>3. CASE UNCHANGED <<at, age>>
            BY <2>2, <3>3 DEF HandleError, IInv, TypeOK
        <3>4. CASE /\ at[m] = "out"
                   /\ at' = [at EXCEPT ![m] = "paced"]
                   /\ age' = [age EXCEPT ![m] = AckWait - Delay[batch[p][1].num]]
            BY <2>2, <3>1, <3>2, <3>4 DEF HandleError, IInv, TypeOK, Where
        <3> QED BY <2>2, <3>3, <3>4 DEF HandleError
    <2> QED BY <2>1, <2>2 DEF Handle
<1>4. TypeOK'
    BY <1>0, <1>2, <1>3 DEF Advance, process, IInv, TypeOK
<1>5. LoopInv'
    BY <1>0 DEF Advance, process, IInv, TypeOK, LoopInv
<1>6. Fits'
    <2> SUFFICES ASSUME NEW q \in Replica PROVE Len(batch'[q]) + room'[q] <= Batch
        BY DEF Fits
    <2>1. batch[q] \in Seq(Delivery) /\ room[q] \in Nat /\ Batch \in Nat
        BY BusAssumption DEF IInv, TypeOK
    <2>2. CASE q = p
        BY <1>0, <1>1, <2>1, <2>2 DEF Advance, IInv, TypeOK, Fits
    <2>3. CASE q # p
        BY <1>0, <2>3 DEF Advance, IInv, TypeOK, Fits
    <2> QED BY <2>2, <2>3
<1>7. CountedOnce'
    BY <1>0, <1>3 DEF Advance, IInv, CountedOnce
<1> QED BY <1>4, <1>5, <1>6, <1>7 DEF IInv

\* The broker sends a message: the batch gets longer, the request shorter.
LEMMA DeliverInv ==
    ASSUME IInv, NEW p \in Replica, NEW m \in Msg, Deliver(p, m)
    PROVE  IInv'
<1> DEFINE d == [msg |-> m, num |-> delivered[m] + 1]
<1>1. /\ delivered[m] \in 0..MaxDeliver /\ delivered[m] < MaxDeliver
      /\ room[p] \in 0..Batch /\ room[p] > 0
      /\ batch[p] \in Seq(Delivery)
    BY DEF Deliver, IInv, TypeOK
<1>2. d \in Delivery /\ delivered[m] + 1 \in 0..MaxDeliver
    BY <1>1, BusAssumption DEF Delivery
<1>3. /\ Append(batch[p], d) \in Seq(Delivery)
      /\ Len(Append(batch[p], d)) = Len(batch[p]) + 1
    BY <1>1, <1>2
<1>4. TypeOK'
    <2>1. batch' \in [Replica -> Seq(Delivery)]
        BY <1>3 DEF Deliver, IInv, TypeOK
    <2>2. room' \in [Replica -> 0..Batch]
        <3>1. room[p] - 1 \in 0..Batch
            BY <1>1, BusAssumption
        <3> QED BY <3>1 DEF Deliver, IInv, TypeOK
    <2>3. delivered' \in [Msg -> 0..MaxDeliver]
        BY <1>2 DEF Deliver, IInv, TypeOK
    <2>4. at' \in [Msg -> Where] /\ age' \in [Msg -> 0..AckWait]
        <3>1. at' = [at EXCEPT ![m] = "out"] /\ age' = [age EXCEPT ![m] = 0]
            BY DEF Deliver
        <3>2. at \in [Msg -> Where] /\ age \in [Msg -> 0..AckWait]
            BY DEF IInv, TypeOK
        <3>3. "out" \in Where /\ 0 \in 0..AckWait
            BY BusAssumption DEF Where
        <3> QED BY <3>1, <3>2, <3>3
    <2>5. UNCHANGED <<process, busy, lived, counted>>
        BY DEF Deliver
    <2> QED BY <2>1, <2>2, <2>3, <2>4, <2>5 DEF process, IInv, TypeOK
<1>5. LoopInv'
    BY <1>1 DEF Deliver, process, IInv, TypeOK, LoopInv
<1>6. Fits'
    <2> SUFFICES ASSUME NEW q \in Replica PROVE Len(batch'[q]) + room'[q] <= Batch
        BY DEF Fits
    <2>1. Len(batch[p]) \in Nat /\ Batch \in Nat
        BY <1>1, BusAssumption
    <2>2. CASE q = p
        BY <1>1, <1>3, <2>1, <2>2 DEF Deliver, IInv, TypeOK, Fits
    <2>3. CASE q # p
        BY <2>3 DEF Deliver, IInv, TypeOK, Fits
    <2> QED BY <2>2, <2>3
<1>7. CountedOnce'
    BY DEF Deliver, IInv, TypeOK, CountedOnce
<1> QED BY <1>4, <1>5, <1>6, <1>7 DEF IInv

\* The broker's steps on a message by itself.
LEMMA MessageInv ==
    ASSUME IInv, NEW m \in Msg, Publish(m) \/ Lapse(m) \/ Exhaust(m)
    PROVE  IInv'
<1>1. CASE Publish(m) \/ Lapse(m)
    BY <1>1 DEF Publish, Lapse, process, loop, IInv, TypeOK, LoopInv, Fits, CountedOnce, Where
<1>2. CASE Exhaust(m)
    <2>1. PICK S \in HeardBy : counted' = [counted EXCEPT ![m] = @ + Count(S)]
        BY <1>2 DEF Exhaust
    <2>2. Count(S) \in {0, 1}
        BY CountAtMostOne
    <2>3. counted[m] = 0
        <3>1. at[m] # "dead" /\ counted[m] \in Nat
            BY <1>2 DEF Exhaust, IInv, TypeOK
        <3>2. counted[m] <= 0
            BY <3>1 DEF IInv, CountedOnce
        <3> QED BY <3>1, <3>2
    <2>4. /\ counted' \in [Msg -> Nat]
          /\ counted'[m] <= 1
          /\ \A n \in Msg \ {m} : counted'[n] = counted[n]
        BY <2>1, <2>2, <2>3 DEF IInv, TypeOK
    <2>5. /\ at' = [at EXCEPT ![m] = "dead"]
          /\ UNCHANGED <<process, loop, delivered, age, lived>>
        BY <1>2 DEF Exhaust
    <2>6. TypeOK'
        BY <2>4, <2>5 DEF process, loop, IInv, TypeOK, Where
    <2>7. LoopInv' /\ Fits'
        BY <2>5 DEF process, loop, IInv, LoopInv, Fits
    <2>8. CountedOnce'
        BY <2>4, <2>5 DEF IInv, TypeOK, CountedOnce
    <2> QED BY <2>6, <2>7, <2>8 DEF IInv
<1> QED BY <1>1, <1>2

\* Time passes.
LEMMA TickInv == ASSUME IInv, Tick PROVE IInv'
<1>1. TypeOK'
    <2>1. busy' \in [Replica -> 0..HandlerTime]
        BY BusAssumption DEF Tick, IInv, TypeOK
    <2>2. age' \in [Msg -> 0..AckWait]
        BY BusAssumption DEF Tick, IInv, TypeOK
    <2>3. lived' \in [Msg -> Nat]
        BY DEF Tick, IInv, TypeOK
    <2> QED BY <2>1, <2>2, <2>3 DEF Tick, process, IInv, TypeOK
<1> QED BY <1>1 DEF Tick, process, IInv, LoopInv, Fits, CountedOnce

\* Every step keeps the invariant.
LEMMA NextInv == IInv /\ [Next]_vars => IInv'
<1> SUFFICES ASSUME IInv, [Next]_vars PROVE IInv'
    OBVIOUS
<1>1. CASE UNCHANGED vars
    BY <1>1 DEF vars, IInv, TypeOK, LoopInv, Fits, CountedOnce
<1>2. CASE Next
    BY <1>2, ProcessInv, GoneInv, FetchInv, HandleInv, DeliverInv, MessageInv, TickInv
       DEF Next, Closes
<1> QED BY <1>1, <1>2

LEMMA Invariance == Spec => []IInv
BY InitInv, NextInv, PTL DEF Spec

-----------------------------------------------------------------------------
(* What depends on a batch being handled within AckWait. *)

Held ==
    \A p \in Replica : \A i \in 1..Len(batch[p]) : at[batch[p][i].msg] = "out"

InTime ==
    \A p \in Replica : \A i \in 1..Len(batch[p]) :
        age[batch[p][i].msg] + i * HandlerTime <= Batch * HandlerTime + busy[p]

TimeInv == Held /\ InTime /\ OneInstance

\* What a place of a batch holds.
LEMMA Places ==
    ASSUME TypeOK, NEW p \in Replica
    PROVE  /\ Len(batch[p]) \in Nat
           /\ busy[p] \in Nat /\ busy[p] <= HandlerTime
           /\ \A i \in 1..Len(batch[p]) :
                 /\ batch[p][i] \in Delivery
                 /\ batch[p][i].msg \in Msg
                 /\ age[batch[p][i].msg] \in Nat
<1>1. batch[p] \in Seq(Delivery)
    BY DEF TypeOK
<1>0. \A i \in 1..Len(batch[p]) : batch[p][i] \in Delivery
    BY <1>1
<1>2. \A i \in 1..Len(batch[p]) : batch[p][i] \in Delivery /\ batch[p][i].msg \in Msg
    BY <1>0 DEF Delivery
<1>3. \A m \in Msg : age[m] \in Nat
    BY BusAssumption DEF TypeOK
<1> QED BY <1>1, <1>2, <1>3, BusAssumption DEF TypeOK

\* The time of n handlers.
LEMMA Times ==
    ASSUME NEW n \in Nat
    PROVE  /\ n * HandlerTime \in Nat
           /\ (n + 1) * HandlerTime = n * HandlerTime + HandlerTime
           /\ n >= 1 => n * HandlerTime >= HandlerTime
BY BusAssumption

\* A longer row of handlers takes longer.
LEMMA TimesGrow ==
    ASSUME NEW n \in Nat, NEW k \in Nat, n <= k
    PROVE  n * HandlerTime <= k * HandlerTime
<1>1. k = n + (k - n) /\ k - n \in Nat
    OBVIOUS
<1>2. k * HandlerTime = n * HandlerTime + (k - n) * HandlerTime
    BY <1>1, BusAssumption
<1> QED BY <1>1, <1>2, BusAssumption

\* The time of no message of a batch is over.
LEMMA NotLapsed ==
    ASSUME TypeOK, InTime, Batch * HandlerTime < AckWait,
           NEW p \in Replica, NEW i \in 1..Len(batch[p])
    PROVE  age[batch[p][i].msg] # AckWait
<1> DEFINE m == batch[p][i].msg
           t == i * HandlerTime
           b == Batch * HandlerTime
<1>1. age[m] + t <= b + busy[p]
    BY DEF InTime
<1>2. t \in Nat /\ t >= HandlerTime
    BY Times, Places
<1>3. b \in Nat
    BY Times, BusAssumption
<1>4. age[m] \in Nat /\ busy[p] \in Nat /\ busy[p] <= HandlerTime
    BY Places
<1>5. b < AckWait
    OBVIOUS
<1> HIDE DEF m, t, b
<1>6. age[m] # AckWait
    BY <1>1, <1>2, <1>3, <1>4, <1>5, BusAssumption
<1> QED BY <1>6 DEF m

\* No batch changes, and the broker leaves the messages in them alone.
LEMMA SameBatches ==
    ASSUME TypeOK, TimeInv, UNCHANGED <<batch, busy>>,
           \A p \in Replica : \A i \in 1..Len(batch[p]) :
               /\ at'[batch[p][i].msg] = at[batch[p][i].msg]
               /\ age'[batch[p][i].msg] = age[batch[p][i].msg]
    PROVE  TimeInv'
BY DEF TimeInv, Held, InTime, OneInstance

\* A batch is lost with its process.
LEMMA GoneInTime ==
    ASSUME TypeOK, TimeInv, NEW p \in Replica, Gone(p)
    PROVE  TimeInv'
<1>1. /\ batch' = [batch EXCEPT ![p] = <<>>]
      /\ busy' = [busy EXCEPT ![p] = 0]
      /\ UNCHANGED <<at, age>>
    BY DEF Gone, broker
<1>2. /\ batch'[p] = <<>> /\ Len(batch'[p]) = 0
      /\ \A q \in Replica \ {p} : batch'[q] = batch[q] /\ busy'[q] = busy[q]
    BY <1>1 DEF TypeOK
<1>3. \A q \in Replica : \A i \in 1..Len(batch'[q]) : q # p
    BY <1>2
<1>4. Held' /\ InTime'
    BY <1>1, <1>2, <1>3 DEF TimeInv, Held, InTime
<1>5. OneInstance'
    BY <1>2, <1>3 DEF TimeInv, OneInstance
<1> QED BY <1>4, <1>5 DEF TimeInv

\* A handler returns: the message leaves the batch as the broker hears of it, and
\* the others come one handler nearer.
LEMMA HandleInTime ==
    ASSUME TypeOK, TimeInv, NEW p \in Replica, Handle(p)
    PROVE  TimeInv'
<1> DEFINE m == batch[p][1].msg
<1>0. Advance(p) /\ batch[p] # <<>>
    BY DEF Handle, HandleOk, HandleError, Advance
<1>1. \A n \in Msg \ {m} : at'[n] = at[n] /\ age'[n] = age[n]
    BY DEF Handle, HandleOk, HandleError, TypeOK
<1>2. batch[p] \in Seq(Delivery) /\ Len(batch[p]) \in Nat \ {0}
    BY <1>0 DEF TypeOK
<1>3. /\ batch'[p] = Tail(batch[p]) /\ busy'[p] = 0
      /\ \A q \in Replica \ {p} : batch'[q] = batch[q] /\ busy'[q] = busy[q]
    BY <1>0 DEF Advance, TypeOK
<1>4. /\ Len(batch'[p]) = Len(batch[p]) - 1
      /\ \A i \in 1..Len(batch'[p]) : batch'[p][i] = batch[p][i + 1]
    BY <1>2, <1>3
<1>5. \A i \in 1..Len(batch'[p]) : i + 1 \in 1..Len(batch[p]) /\ i + 1 # 1
    BY <1>2, <1>4
<1>6. \A i \in 1..Len(batch'[p]) : batch'[p][i].msg \in Msg \ {m}
    BY <1>2, <1>4, <1>5, Places DEF TimeInv, OneInstance
<1>7. \A q \in Replica \ {p} : \A i \in 1..Len(batch'[q]) : batch'[q][i].msg \in Msg \ {m}
    <2> SUFFICES ASSUME NEW q \in Replica \ {p}, NEW i \in 1..Len(batch[q])
                 PROVE  batch[q][i].msg \in Msg \ {m}
        BY <1>3
    <2>1. batch[q][i].msg \in Msg
        BY Places
    <2>2. 1 \in 1..Len(batch[p])
        BY <1>2
    <2> QED BY <2>1, <2>2 DEF TimeInv, OneInstance
<1>8. Held'
    <2>1. ASSUME NEW i \in 1..Len(batch'[p]) PROVE at'[batch'[p][i].msg] = "out"
        <3>1. batch'[p][i].msg \in Msg \ {m}
            BY <1>6
        <3>2. batch'[p][i] = batch[p][i + 1] /\ i + 1 \in 1..Len(batch[p])
            BY <1>4, <1>5
        <3>3. at[batch[p][i + 1].msg] = "out"
            BY <3>2 DEF TimeInv, Held
        <3> QED BY <1>1, <3>1, <3>2, <3>3
    <2>2. ASSUME NEW q \in Replica \ {p}, NEW i \in 1..Len(batch'[q])
          PROVE  at'[batch'[q][i].msg] = "out"
        <3>1. batch'[q][i].msg \in Msg \ {m} /\ batch'[q] = batch[q]
            BY <1>3, <1>7
        <3>2. at[batch[q][i].msg] = "out"
            BY <3>1 DEF TimeInv, Held
        <3> QED BY <1>1, <3>1, <3>2
    <2> QED BY <2>1, <2>2 DEF Held
<1>9. InTime'
    <2>1. ASSUME NEW i \in 1..Len(batch'[p])
          PROVE  age'[batch'[p][i].msg] + i * HandlerTime <= Batch * HandlerTime + busy'[p]
        <3> DEFINE n == batch'[p][i].msg
                   t == i * HandlerTime
                   u == (i + 1) * HandlerTime
                   b == Batch * HandlerTime
        <3>1. n = batch[p][i + 1].msg /\ age'[n] = age[n]
            BY <1>1, <1>4, <1>6
        <3>2. age[n] + u <= b + busy[p]
            BY <1>5, <3>1 DEF TimeInv, InTime
        <3>3. u = t + HandlerTime /\ t \in Nat /\ b \in Nat /\ HandlerTime \in Nat
            BY Times, BusAssumption
        <3>4. age[n] \in Nat /\ busy[p] \in Nat /\ busy[p] <= HandlerTime
            BY <1>5, <3>1, Places
        <3>5. age'[n] = age[n] /\ busy'[p] = 0
            BY <1>3, <3>1
        <3> HIDE DEF n, t, u, b
        <3>6. age[n] + t <= b
            BY <3>2, <3>3, <3>4
        <3>7. age'[n] + t <= b + busy'[p]
            BY <3>3, <3>4, <3>5, <3>6
        <3> QED BY <3>7 DEF n, t, b
    <2>2. ASSUME NEW q \in Replica \ {p}, NEW i \in 1..Len(batch'[q])
          PROVE  age'[batch'[q][i].msg] + i * HandlerTime <= Batch * HandlerTime + busy'[q]
        BY <1>1, <1>3, <1>7 DEF TimeInv, InTime
    <2> QED BY <2>1, <2>2 DEF InTime
<1>10. OneInstance'
    <2> SUFFICES ASSUME NEW q \in Replica, NEW r \in Replica,
                        NEW i \in 1..Len(batch'[q]), NEW j \in 1..Len(batch'[r]),
                        batch'[q][i].msg = batch'[r][j].msg
                 PROVE  q = r /\ i = j
        BY DEF OneInstance
    <2>0. \A s \in Replica : \A h \in 1..Len(batch'[s]) :
            \E k \in 1..Len(batch[s]) :
                batch'[s][h] = batch[s][k] /\ k = IF s = p THEN h + 1 ELSE h
        <3> SUFFICES ASSUME NEW s \in Replica, NEW h \in 1..Len(batch'[s])
                     PROVE  \E k \in 1..Len(batch[s]) :
                                batch'[s][h] = batch[s][k] /\ k = IF s = p THEN h + 1 ELSE h
            OBVIOUS
        <3>1. CASE s = p
            <4>1. h + 1 \in 1..Len(batch[p]) /\ batch'[p][h] = batch[p][h + 1]
                BY <1>4, <1>5, <3>1
            <4> QED BY <3>1, <4>1
        <3>2. CASE s # p
            BY <1>3, <3>2
        <3> QED BY <3>1, <3>2
    <2>1. PICK k \in 1..Len(batch[q]) :
            batch'[q][i] = batch[q][k] /\ k = IF q = p THEN i + 1 ELSE i
        BY <2>0
    <2>2. PICK l \in 1..Len(batch[r]) :
            batch'[r][j] = batch[r][l] /\ l = IF r = p THEN j + 1 ELSE j
        BY <2>0
    <2>3. batch[q][k].msg = batch[r][l].msg
        BY <2>1, <2>2
    <2>4. q = r /\ k = l
        BY <2>3 DEF TimeInv, OneInstance
    <2> QED BY <2>1, <2>2, <2>4
<1> QED BY <1>8, <1>9, <1>10 DEF TimeInv

\* A message the broker sends is in no batch yet, and finds a place in time.
LEMMA DeliverInTime ==
    ASSUME IInv, TimeInv, NEW p \in Replica, NEW m \in Msg, Deliver(p, m)
    PROVE  TimeInv'
<1> DEFINE l == Len(batch[p])
           d == [msg |-> m, num |-> delivered[m] + 1]
<1>1. TypeOK /\ batch[p] \in Seq(Delivery) /\ l \in Nat
    BY DEF IInv, TypeOK
<1>2. \A q \in Replica : \A i \in 1..Len(batch[q]) : batch[q][i].msg \in Msg \ {m}
    BY <1>1, Places DEF Deliver, TimeInv, Held
<1>3. /\ batch'[p] = Append(batch[p], d)
      /\ \A q \in Replica \ {p} : batch'[q] = batch[q]
      /\ busy' = busy
    BY <1>1 DEF Deliver, TypeOK
<1>4. /\ at'[m] = "out" /\ age'[m] = 0
      /\ \A n \in Msg \ {m} : at'[n] = at[n] /\ age'[n] = age[n]
    BY <1>1 DEF Deliver, TypeOK
<1>5. d \in Delivery
    <2>1. delivered[m] \in 0..MaxDeliver /\ delivered[m] < MaxDeliver
        BY <1>1 DEF Deliver, TypeOK
    <2>2. delivered[m] + 1 \in 1..MaxDeliver
        BY <2>1, BusAssumption
    <2> QED BY <2>2 DEF Delivery
<1>6. /\ Len(batch'[p]) = l + 1
      /\ batch'[p][l + 1] = d
      /\ \A i \in 1..l : batch'[p][i] = batch[p][i]
    BY <1>1, <1>3, <1>5
<1>7. \A q \in Replica : \A i \in 1..Len(batch'[q]) :
        \/ q = p /\ i = l + 1 /\ batch'[q][i].msg = m
        \/ /\ i \in 1..Len(batch[q]) /\ batch'[q][i] = batch[q][i]
           /\ batch'[q][i].msg \in Msg \ {m}
    <2> TAKE q \in Replica
    <2> TAKE i \in 1..Len(batch'[q])
    <2>1. CASE q # p
        BY <1>2, <1>3, <2>1
    <2>2. CASE q = p /\ i = l + 1
        BY <1>6, <2>2
    <2>3. CASE q = p /\ i # l + 1
        <3>1. i \in 1..l
            BY <1>1, <1>6, <2>3
        <3> QED BY <1>2, <1>6, <2>3, <3>1
    <2> QED BY <2>1, <2>2, <2>3
<1>8. Held'
    BY <1>4, <1>7 DEF TimeInv, Held
<1>9. InTime'
    <2>1. l + 1 <= Batch /\ l + 1 \in Nat
        <3>1. l + room[p] <= Batch /\ room[p] \in Nat /\ room[p] > 0
            BY BusAssumption DEF IInv, TypeOK, Fits, Deliver
        <3> HIDE DEF l
        <3> QED BY <1>1, <3>1, BusAssumption
    <2>2. (l + 1) * HandlerTime <= Batch * HandlerTime
        BY <2>1, TimesGrow, BusAssumption
    <2>3. (l + 1) * HandlerTime \in Nat /\ Batch * HandlerTime \in Nat /\ busy[p] \in Nat
        BY <1>1, <2>1, Times, Places, BusAssumption
    <2>4. age'[m] + (l + 1) * HandlerTime <= Batch * HandlerTime + busy'[p]
        <3> DEFINE t == (l + 1) * HandlerTime
                   b == Batch * HandlerTime
        <3> HIDE DEF t, b
        <3>1. age'[m] + t <= b + busy'[p]
            BY <1>3, <1>4, <2>2, <2>3 DEF t, b
        <3> QED BY <3>1 DEF t, b
    <2>5. ASSUME NEW q \in Replica, NEW i \in 1..Len(batch[q])
          PROVE  age[batch[q][i].msg] + i * HandlerTime <= Batch * HandlerTime + busy[q]
        BY DEF TimeInv, InTime
    <2> SUFFICES ASSUME NEW q \in Replica, NEW i \in 1..Len(batch'[q])
                 PROVE  age'[batch'[q][i].msg] + i * HandlerTime
                            <= Batch * HandlerTime + busy'[q]
        BY DEF InTime
    <2>6. CASE q = p /\ i = l + 1 /\ batch'[q][i].msg = m
        BY <2>4, <2>6
    <2>7. CASE /\ i \in 1..Len(batch[q]) /\ batch'[q][i] = batch[q][i]
               /\ batch'[q][i].msg \in Msg \ {m}
        BY <1>3, <1>4, <2>5, <2>7
    <2> QED BY <1>7, <2>6, <2>7
<1>10. OneInstance'
    <2> SUFFICES ASSUME NEW q \in Replica, NEW r \in Replica,
                        NEW i \in 1..Len(batch'[q]), NEW j \in 1..Len(batch'[r]),
                        batch'[q][i].msg = batch'[r][j].msg
                 PROVE  q = r /\ i = j
        BY DEF OneInstance
    <2>1. CASE batch'[q][i].msg = m
        <3>1. q = p /\ i = l + 1
            BY <1>7, <2>1
        <3>2. r = p /\ j = l + 1
            BY <1>7, <2>1
        <3> QED BY <3>1, <3>2
    <2>2. CASE batch'[q][i].msg # m
        <3>1. /\ i \in 1..Len(batch[q]) /\ batch'[q][i] = batch[q][i]
              /\ j \in 1..Len(batch[r]) /\ batch'[r][j] = batch[r][j]
            BY <1>7, <2>2
        <3> QED BY <3>1 DEF TimeInv, OneInstance
    <2> QED BY <2>1, <2>2
<1> QED BY <1>8, <1>9, <1>10 DEF TimeInv

\* A tick adds the same to what is behind a message and to what its handler has
\* been running.
LEMMA TickInTime ==
    ASSUME IInv, TimeInv, Tick
    PROVE  TimeInv'
<1>1. TypeOK /\ batch' = batch /\ at' = at
    BY DEF IInv, Tick
<1>2. ASSUME NEW p \in Replica, NEW i \in 1..Len(batch[p])
      PROVE  age'[batch[p][i].msg] + i * HandlerTime <= Batch * HandlerTime + busy'[p]
    <2> DEFINE n == batch[p][i].msg
               t == i * HandlerTime
               b == Batch * HandlerTime
    <2>1. batch[p] # <<>>
        BY <1>1 DEF TypeOK
    <2>2. busy'[p] = busy[p] + 1
        BY <2>1 DEF Tick
    <2>3. n \in Msg /\ age[n] \in Nat /\ busy[p] \in Nat
        BY <1>1, Places
    <2>4. age'[n] \in {age[n], age[n] + 1}
        BY <2>3 DEF Tick
    <2>5. age[n] + t <= b + busy[p]
        BY DEF TimeInv, InTime
    <2>6. t \in Nat /\ b \in Nat
        BY <1>1, Places, Times, BusAssumption
    <2> HIDE DEF n, t, b
    <2>7. age'[n] + t <= b + busy'[p]
        <3> DEFINE x == age[n]
                   y == age'[n]
                   u == busy[p]
                   v == busy'[p]
        <3>1. /\ x \in Nat /\ u \in Nat /\ t \in Nat /\ b \in Nat
              /\ v = u + 1 /\ (y = x \/ y = x + 1) /\ x + t <= b + u
            BY <2>2, <2>3, <2>4, <2>5, <2>6
        <3> HIDE DEF x, y, u, v
        <3>2. y + t <= b + v
            BY <3>1
        <3> QED BY <3>2 DEF y, v
    <2> QED BY <2>7 DEF n, t, b
<1> QED BY <1>1, <1>2 DEF TimeInv, Held, InTime, OneInstance

\* Every step keeps what is in time.
LEMMA NextInTime ==
    ASSUME IInv, TimeInv, [Next]_vars, Batch * HandlerTime < AckWait
    PROVE  TimeInv'
<1> USE DEF IInv
<1>1. ASSUME NEW p \in Replica,
             \/ Connect(p) \/ Subscribe(p) \/ Close(p) \/ Abort(p) \/ ListenerEnds(p)
             \/ Drain(p) \/ Fetch(p) \/ FetchEnds(p) \/ LoopEnds(p)
      PROVE  TimeInv'
    <2>1. UNCHANGED <<batch, busy, at, age>>
        BY <1>1 DEF Connect, Subscribe, Close, Abort, ListenerEnds, Drain, Fetch, FetchEnds,
           LoopEnds, loop, broker
    <2> QED BY <2>1, SameBatches
<1>2. ASSUME NEW p \in Replica, Exit(p) \/ Crash(p) PROVE TimeInv'
    BY <1>2, GoneInTime DEF Exit, Crash
<1>3. ASSUME NEW m \in Msg, Publish(m) \/ Lapse(m) \/ Exhaust(m) PROVE TimeInv'
    <2>1. UNCHANGED <<batch, busy, age>>
        BY <1>3 DEF Publish, Lapse, Exhaust, loop
    <2>2. \A n \in Msg \ {m} : at'[n] = at[n]
        BY <1>3 DEF Publish, Lapse, Exhaust, TypeOK
    <2>3. \A p \in Replica : \A i \in 1..Len(batch[p]) : batch[p][i].msg \in Msg \ {m}
        BY <1>3, Places, NotLapsed DEF Publish, Lapse, Exhaust, TimeInv, Held
    <2> QED BY <2>1, <2>2, <2>3, SameBatches
<1>4. CASE UNCHANGED vars
    BY <1>4, SameBatches DEF vars
<1> QED BY <1>1, <1>2, <1>3, <1>4, HandleInTime, DeliverInTime, TickInTime DEF Next, Closes

-----------------------------------------------------------------------------
(* The pauses of a message. *)

\* A set of numbers has a least element; stands in for induction.
LEMMA Least ==
    ASSUME NEW T, T \subseteq Nat, T # {}
    PROVE  \E x \in T : \A y \in T : x <= y
<1> DEFINE L == {p \in Nat \X Nat : p[1] < p[2]}
<1>1. IsWellFoundedOn(L, Nat)
    BY NatLessThanWellFounded DEF OpToRel
<1>2. \A x, y \in Nat : x < y => <<x, y>> \in L
    OBVIOUS
<1> HIDE DEF L
<1>3. PICK x \in T : \A y \in T : ~ (<<y, x>> \in L)
    BY <1>1, WFMin, Zenon
<1>4. ASSUME NEW y \in T PROVE x <= y
    <2>1. x \in Nat /\ y \in Nat
        OBVIOUS
    <2>2. ~(y < x)
        BY <1>2, <1>3, <2>1
    <2> QED BY <2>1, <2>2
<1> QED BY <1>4

\* f adds up the first n delays.
Sums(f, n) ==
    /\ f \in [0..n -> Nat]
    /\ f[0] = 0
    /\ \A i \in 1..n : f[i] = f[i - 1] + Delay[i]

\* One more delay can always be added.
LEMMA SumsExist == \E f : Sums(f, MaxDeliver)
<1> DEFINE T == {n \in 0..MaxDeliver : ~ \E f : Sums(f, n)}
<1>0. MaxDeliver \in 0..MaxDeliver
    BY BusAssumption
<1> SUFFICES ASSUME T # {} PROVE FALSE
    BY <1>0
<1>1. PICK n \in T : \A k \in T : n <= k
    <2>1. T \subseteq Nat
        OBVIOUS
    <2> HIDE DEF T
    <2> QED BY <2>1, Least
<1>2. n \in 0..MaxDeliver /\ ~ \E f : Sums(f, n)
    OBVIOUS
<1>3. CASE n = 0
    <2>1. Sums([i \in 0..0 |-> 0], 0)
        BY DEF Sums
    <2> QED BY <1>2, <1>3, <2>1
<1>4. CASE n # 0
    <2>1. n - 1 \in 0..MaxDeliver /\ ~(n <= n - 1) /\ n \in 1..MaxDeliver
        BY <1>2, <1>4, BusAssumption
    <2>2. PICK f : Sums(f, n - 1)
        <3>1. n - 1 \notin T
            <4> HIDE DEF T
            <4> QED BY <1>1, <2>1
        <3> QED BY <2>1, <3>1
    <2> DEFINE g == [i \in 0..n |-> IF i = n THEN f[n - 1] + Delay[n] ELSE f[i]]
    <2>3. /\ f \in [0..n - 1 -> Nat] /\ f[0] = 0
          /\ \A i \in 1..(n - 1) : f[i] = f[i - 1] + Delay[i]
        BY <2>2 DEF Sums
    <2>4. Delay[n] \in Nat /\ f[n - 1] \in Nat
        BY <1>2, <2>1, <2>3, BusAssumption
    <2>5. g \in [0..n -> Nat] /\ g[0] = 0
        BY <1>2, <1>4, <2>3, <2>4
    <2>6. ASSUME NEW i \in 1..n PROVE g[i] = g[i - 1] + Delay[i]
        <3>1. n \in Nat /\ i \in 0..n /\ i - 1 \in 0..n /\ i - 1 # n
            BY <1>2
        <3>2. g[i - 1] = f[i - 1]
            BY <3>1
        <3>3. CASE i = n
            BY <3>1, <3>2, <3>3
        <3>4. CASE i # n
            BY <2>3, <3>1, <3>2, <3>4
        <3> QED BY <3>3, <3>4
    <2>7. Sums(g, n)
        <3> HIDE DEF g
        <3> QED BY <2>5, <2>6 DEF Sums
    <2> QED BY <1>2, <2>7
<1> QED BY <1>3, <1>4

\* Pauses, a recursive function, is what its definition says.
LEMMA PausesRecur ==
    Pauses = [n \in 0..MaxDeliver |-> IF n = 0 THEN 0 ELSE Pauses[n - 1] + Delay[n]]
<1> DEFINE E(f) == f = [n \in 0..MaxDeliver |-> IF n = 0 THEN 0 ELSE f[n - 1] + Delay[n]]
<1>1. PICK f : Sums(f, MaxDeliver)
    BY SumsExist
<1>2. E(f)
    BY <1>1, BusAssumption DEF Sums
<1>3. Pauses = CHOOSE g : E(g)
    BY DEF Pauses
<1> HIDE DEF E
<1>4. E(Pauses)
    BY <1>2, <1>3
<1> QED BY <1>4 DEF E

\* It adds up the delays, from none on.
LEMMA PausesSum ==
    /\ Pauses[0] = 0
    /\ \A n \in 0..MaxDeliver : Pauses[n] \in Nat
    /\ \A n \in 1..MaxDeliver : Pauses[n] = Pauses[n - 1] + Delay[n]
    /\ \A n \in 1..MaxDeliver : Delay[n] \in Nat /\ Delay[n] <= AckWait
<1> DEFINE T == {n \in 0..MaxDeliver : Pauses[n] \notin Nat}
<1>0. MaxDeliver \in Nat
    BY BusAssumption
<1>1. Pauses[0] = 0
    BY <1>0, PausesRecur
<1>2. ASSUME NEW n \in 1..MaxDeliver PROVE Pauses[n] = Pauses[n - 1] + Delay[n]
    BY <1>0, PausesRecur
<1>3. ASSUME NEW n \in 1..MaxDeliver PROVE Delay[n] \in Nat /\ Delay[n] <= AckWait
    BY BusAssumption
<1>4. ASSUME T # {} PROVE FALSE
    <2>1. PICK n \in T : \A k \in T : n <= k
        <3>1. T \subseteq Nat
            BY <1>0
        <3> HIDE DEF T
        <3> QED BY <1>4, <3>1, Least
    <2>2. n \in 1..MaxDeliver /\ n - 1 \in 0..MaxDeliver /\ ~(n <= n - 1)
        BY <1>0, <1>1
    <2>3. Pauses[n - 1] \in Nat
        <3>1. n - 1 \notin T
            <4> HIDE DEF T
            <4> QED BY <2>1, <2>2
        <3> QED BY <2>2, <3>1
    <2>4. Pauses[n] = Pauses[n - 1] + Delay[n] /\ Delay[n] \in Nat
        BY <1>2, <1>3, <2>2
    <2> QED BY <2>3, <2>4
<1> QED BY <1>1, <1>2, <1>3, <1>4

-----------------------------------------------------------------------------
(* A message that keeps failing lives through all its pauses, whatever the *)
(* times are.  A delivery that AckWait cuts short while it waits in a      *)
(* batch leaves a NAK behind that may come late and shorten the pause of a *)
(* later delivery; but the time it waited exceeds its own pause by what    *)
(* the late NAK can save.  These ticks are its credit.                     *)

\* The deliveries of m that are still in a batch.
Open(m) ==
    {k \in 1..MaxDeliver : \E p \in Replica : \E i \in 1..Len(batch[p]) :
        batch[p][i] = [msg |-> m, num |-> k]}

\* The credit of the deliveries K, one element for each tick.
Credit(K) == {c \in K \X (1..AckWait) : c[2] + Delay[c[1]] <= AckWait}

Owed(m) == Cardinality(Credit(Open(m)))

\* No delivery is in two places.
Apart ==
    \A p, q \in Replica : \A i \in 1..Len(batch[p]), j \in 1..Len(batch[q]) :
        batch[p][i] = batch[q][j] => p = q /\ i = j

\* None has a number that is still to come.
Numbered ==
    \A p \in Replica : \A i \in 1..Len(batch[p]) :
        batch[p][i].num <= delivered[batch[p][i].msg]

\* What a message has lived through, and what it owes to its open deliveries.
Due(m) ==
    /\ lived[m] <= Patience
    /\ at[m] = "unsent" => delivered[m] = 0
    /\ at[m] \in {"out", "paced"} => delivered[m] > 0
    /\ at[m] = "ready" =>
          \/ lived[m] = Patience
          \/ lived[m] >= Pauses[delivered[m]] + Owed(m)
    /\ at[m] \in {"out", "paced"} =>
          \/ lived[m] = Patience
          \/ lived[m] + AckWait >= Pauses[delivered[m]] + Owed(m) + age[m]
    /\ at[m] = "dead" => lived[m] = Patience

BudgetInv == Apart /\ Numbered /\ \A m \in Msg : Due(m)

\* Credit can be counted, and grows with the deliveries.
LEMMA CreditFinite ==
    ASSUME NEW K, K \subseteq 1..MaxDeliver, NEW J, J \subseteq K
    PROVE  /\ IsFiniteSet(Credit(K)) /\ Cardinality(Credit(K)) \in Nat
           /\ IsFiniteSet(Credit(J)) /\ Cardinality(Credit(J)) \in Nat
           /\ Cardinality(Credit(J)) <= Cardinality(Credit(K))
<1> DEFINE all == (1..MaxDeliver) \X (1..AckWait)
<1>1. IsFiniteSet(1..MaxDeliver) /\ IsFiniteSet(1..AckWait)
    BY FS_Interval, BusAssumption
<1>2. IsFiniteSet(all)
    BY <1>1, FS_Product
<1>3. Credit(K) \in SUBSET all /\ Credit(J) \in SUBSET Credit(K)
    BY DEF Credit
<1> HIDE DEF all
<1>4. IsFiniteSet(Credit(K))
    BY <1>2, <1>3, FS_Subset
<1>5. IsFiniteSet(Credit(J)) /\ Cardinality(Credit(J)) <= Cardinality(Credit(K))
    BY <1>3, <1>4, FS_Subset
<1> QED BY <1>4, <1>5, FS_CardinalityType

\* The credit of one delivery more.
LEMMA CreditAdd ==
    ASSUME NEW K, K \subseteq 1..MaxDeliver, NEW k \in 1..MaxDeliver, k \notin K
    PROVE  Cardinality(Credit(K \cup {k})) = Cardinality(Credit(K)) + (AckWait - Delay[k])
<1> DEFINE n == AckWait - Delay[k]
           C == {k} \X (1..n)
<1>1. n \in Nat /\ n <= AckWait /\ AckWait \in Nat /\ Delay[k] \in Nat
    BY PausesSum, BusAssumption
<1>2. Credit(K \cup {k}) = Credit(K) \cup C
    <2>1. \A t \in 1..AckWait : t + Delay[k] <= AckWait <=> t \in 1..n
        BY <1>1
    <2>2. 1..n \subseteq 1..AckWait
        BY <1>1
    <2> HIDE DEF n
    <2>3. \A c \in {k} \X (1..AckWait) : c[2] + Delay[c[1]] <= AckWait <=> c[2] \in 1..n
        BY <2>1
    <2>4. {c \in {k} \X (1..AckWait) : c[2] + Delay[c[1]] <= AckWait} = {k} \X (1..n)
        BY <2>2, <2>3
    <2>5. Credit(K \cup {k})
            = Credit(K) \cup {c \in {k} \X (1..AckWait) : c[2] + Delay[c[1]] <= AckWait}
        BY DEF Credit
    <2> QED BY <2>4, <2>5
<1>3. Credit(K) \cap C = {}
    BY DEF Credit
<1>4. IsFiniteSet(1..n) /\ Cardinality(1..n) = n
    <2>0. n \in Int /\ 1 \in Int
        BY <1>1
    <2> HIDE DEF n
    <2>1. /\ IsFiniteSet(1..n)
          /\ Cardinality(1..n) = IF 1 > n THEN 0 ELSE n - 1 + 1
        BY <2>0, FS_Interval
    <2>2. (IF 1 > n THEN 0 ELSE n - 1 + 1) = n
        BY <1>1
    <2> QED BY <2>1, <2>2
<1>5. IsFiniteSet({k}) /\ Cardinality({k}) = 1
    BY FS_Singleton
<1>6. IsFiniteSet(C) /\ Cardinality(C) = n
    <2> DEFINE I == 1..n
    <2>1. IsFiniteSet(I) /\ Cardinality(I) = n
        BY <1>4
    <2> HIDE DEF I, n
    <2>2. IsFiniteSet({k} \X I) /\ Cardinality({k} \X I) = Cardinality({k}) * Cardinality(I)
        BY <1>5, <2>1, FS_Product, Zenon
    <2>3. Cardinality({k} \X I) = n
        BY <1>1, <1>5, <2>1, <2>2
    <2> QED BY <2>2, <2>3 DEF I
<1>7. IsFiniteSet(Credit(K)) /\ Cardinality(Credit(K)) \in Nat
    <2>1. K \subseteq K
        OBVIOUS
    <2> QED BY <2>1, CreditFinite
<1> HIDE DEF C, n
<1>8. Cardinality(Credit(K) \cup C)
        = Cardinality(Credit(K)) + Cardinality(C) - Cardinality(Credit(K) \cap C)
    BY <1>6, <1>7, FS_Union
<1>9. Cardinality(Credit(K) \cap C) = 0
    BY <1>3, FS_EmptySet
<1>10. Cardinality(Credit(K) \cup C) = Cardinality(Credit(K)) + n
    BY <1>1, <1>6, <1>7, <1>8, <1>9
<1> QED BY <1>2, <1>10 DEF n

\* What is owed can be counted, before and after a step.
LEMMA OwedNat ==
    ASSUME NEW m
    PROVE  Owed(m) \in Nat /\ Owed(m)' \in Nat
<1>1. Open(m) \subseteq 1..MaxDeliver /\ Open(m)' \subseteq 1..MaxDeliver
    BY DEF Open
<1>2. ASSUME NEW K, K \subseteq 1..MaxDeliver PROVE Cardinality(Credit(K)) \in Nat
    <2>1. K \subseteq K
        OBVIOUS
    <2> QED BY <1>2, <2>1, CreditFinite
<1> QED BY <1>1, <1>2 DEF Owed, Credit

\* Fewer deliveries in the batches owe less.
LEMMA OwedShrinks ==
    ASSUME NEW m, Open(m)' \subseteq Open(m)
    PROVE  Owed(m)' <= Owed(m)
<1>1. Open(m) \subseteq 1..MaxDeliver
    BY DEF Open
<1> QED BY <1>1, CreditFinite DEF Owed, Credit

\* The numbers of a message.
LEMMA Numbers ==
    ASSUME TypeOK, NEW m \in Msg
    PROVE  /\ lived[m] \in Nat /\ age[m] \in Nat /\ age[m] <= AckWait /\ AckWait \in Nat
           /\ delivered[m] \in 0..MaxDeliver /\ Pauses[delivered[m]] \in Nat
           /\ Patience \in Nat
<1>1. MaxDeliver - 1 \in 0..MaxDeliver
    BY BusAssumption
<1>2. Patience \in Nat
    BY <1>1, PausesSum DEF Patience
<1> QED BY <1>2, PausesSum, BusAssumption DEF TypeOK

\* Deliveries leave their batches, and the broker is left alone or hears an ack.
LEMMA StaysDue ==
    ASSUME TypeOK, NEW m \in Msg, Due(m), UNCHANGED <<delivered, lived>>,
           Open(m)' \subseteq Open(m),
           (at'[m] = at[m] /\ age'[m] = age[m]) \/ at'[m] = "acked"
    PROVE  Due(m)'
<1>1. Owed(m)' <= Owed(m) /\ Owed(m) \in Nat /\ Owed(m)' \in Nat
    BY OwedShrinks, OwedNat
<1>2. /\ lived[m] \in Nat /\ age[m] \in Nat /\ AckWait \in Nat
      /\ Pauses[delivered[m]] \in Nat /\ Patience \in Nat
    BY Numbers
<1>3. CASE at'[m] = "acked"
    BY <1>3 DEF Due
<1>4. CASE at'[m] = at[m] /\ age'[m] = age[m]
    BY <1>1, <1>2, <1>4 DEF Due
<1> QED BY <1>3, <1>4

\* A replica is gone, with its batch.
LEMMA GoneDue ==
    ASSUME TypeOK, BudgetInv, NEW p \in Replica, Gone(p)
    PROVE  BudgetInv'
<1>1. batch' = [batch EXCEPT ![p] = <<>>] /\ UNCHANGED <<at, delivered, age, lived>>
    BY DEF Gone, broker
<1>2. /\ batch'[p] = <<>> /\ Len(batch'[p]) = 0
      /\ \A q \in Replica \ {p} : batch'[q] = batch[q]
    BY <1>1 DEF TypeOK
<1>3. ASSUME NEW q \in Replica, NEW i \in 1..Len(batch'[q])
      PROVE  q # p /\ batch'[q] = batch[q] /\ i \in 1..Len(batch[q])
    BY <1>2
<1>4. \A m \in Msg : Open(m)' \subseteq Open(m)
    BY <1>3 DEF Open
<1>5. Apart'
    BY <1>3 DEF BudgetInv, Apart
<1>6. Numbered'
    BY <1>1, <1>3 DEF BudgetInv, Numbered
<1> QED BY <1>1, <1>4, <1>5, <1>6, StaysDue DEF BudgetInv

\* A handler returns.  The pause of its NAK is what the delivery had to its credit
\* less than AckWait.
LEMMA HandleDue ==
    ASSUME TypeOK, BudgetInv, NEW p \in Replica, Handle(p)
    PROVE  BudgetInv'
<1>0. Advance(p) /\ batch[p] # <<>> /\ UNCHANGED <<delivered, lived>>
    BY DEF Handle, HandleOk, HandleError, Advance
<1>1. batch[p] \in Seq(Delivery) /\ Len(batch[p]) \in Nat \ {0} /\ 1 \in 1..Len(batch[p])
    BY <1>0 DEF TypeOK
<1>2. PICK m \in Msg, k \in 1..MaxDeliver : batch[p][1] = [msg |-> m, num |-> k]
    <2>1. batch[p][1] \in Delivery
        BY <1>1
    <2> QED BY <2>1 DEF Delivery
<1>3. /\ batch'[p] = Tail(batch[p])
      /\ \A q \in Replica \ {p} : batch'[q] = batch[q]
    BY <1>0 DEF Advance, TypeOK
<1>4. /\ Len(batch'[p]) = Len(batch[p]) - 1
      /\ \A i \in 1..Len(batch'[p]) : batch'[p][i] = batch[p][i + 1]
    BY <1>1, <1>3
<1>5. \A i \in 1..Len(batch'[p]) : i + 1 \in 1..Len(batch[p]) /\ i + 1 # 1
    BY <1>1, <1>4
<1>6. \A q \in Replica : \A h \in 1..Len(batch'[q]) : \E j \in 1..Len(batch[q]) :
          batch'[q][h] = batch[q][j] /\ j = IF q = p THEN h + 1 ELSE h
    <2> SUFFICES ASSUME NEW q \in Replica, NEW h \in 1..Len(batch'[q])
                 PROVE  \E j \in 1..Len(batch[q]) :
                            batch'[q][h] = batch[q][j] /\ j = IF q = p THEN h + 1 ELSE h
        OBVIOUS
    <2>1. CASE q = p
        BY <1>4, <1>5, <2>1
    <2>2. CASE q # p
        BY <1>3, <2>2
    <2> QED BY <2>1, <2>2
<1>7. Apart' /\ Numbered'
    <2>1. ASSUME NEW q \in Replica, NEW r \in Replica,
                 NEW h \in 1..Len(batch'[q]), NEW i \in 1..Len(batch'[r]),
                 batch'[q][h] = batch'[r][i]
          PROVE  q = r /\ h = i
        <3>1. PICK j \in 1..Len(batch[q]) :
                batch'[q][h] = batch[q][j] /\ j = IF q = p THEN h + 1 ELSE h
            BY <1>6
        <3>2. PICK l \in 1..Len(batch[r]) :
                batch'[r][i] = batch[r][l] /\ l = IF r = p THEN i + 1 ELSE i
            BY <1>6
        <3>3. batch[q][j] = batch[r][l]
            BY <2>1, <3>1, <3>2
        <3>4. q = r /\ j = l
            BY <3>3 DEF BudgetInv, Apart
        <3> QED BY <3>1, <3>2, <3>4
    <2>2. \A q \in Replica : \A i \in 1..Len(batch'[q]) :
              batch'[q][i].num <= delivered'[batch'[q][i].msg]
        BY <1>0, <1>6 DEF BudgetInv, Numbered
    <2> QED BY <2>1, <2>2 DEF Apart, Numbered
<1>8. ASSUME NEW n \in Msg PROVE Open(n)' \subseteq Open(n)
    <2> SUFFICES ASSUME NEW num \in 1..MaxDeliver, NEW q \in Replica,
                        NEW h \in 1..Len(batch'[q]), batch'[q][h] = [msg |-> n, num |-> num]
                 PROVE  num \in Open(n)
        BY DEF Open
    <2>1. PICK j \in 1..Len(batch[q]) : batch'[q][h] = batch[q][j]
        BY <1>6
    <2> QED BY <2>1 DEF Open
<1>9. ASSUME NEW n \in Msg,
             (at'[n] = at[n] /\ age'[n] = age[n]) \/ at'[n] = "acked"
      PROVE  Due(n)'
    BY <1>0, <1>8, <1>9, StaysDue DEF BudgetInv
<1>10. CASE HandleOk(p)
    <2>1. \A n \in Msg : (at'[n] = at[n] /\ age'[n] = age[n]) \/ at'[n] = "acked"
        BY <1>10 DEF HandleOk, TypeOK
    <2> QED BY <1>7, <1>9, <2>1 DEF BudgetInv
<1>11. CASE HandleError(p) /\ UNCHANGED <<at, age>>
    BY <1>7, <1>9, <1>11 DEF BudgetInv
<1>12. CASE /\ at[m] = "out"
            /\ at' = [at EXCEPT ![m] = "paced"]
            /\ age' = [age EXCEPT ![m] = AckWait - Delay[k]]
    <2>1. k \in Open(m) /\ k \notin Open(m)'
        <3>1. k \in Open(m)
            BY <1>1, <1>2 DEF Open
        <3>2. ASSUME NEW q \in Replica, NEW i \in 1..Len(batch'[q]),
                     batch'[q][i] = [msg |-> m, num |-> k]
              PROVE  FALSE
            <4>1. PICK j \in 1..Len(batch[q]) :
                    batch'[q][i] = batch[q][j] /\ j = IF q = p THEN i + 1 ELSE i
                BY <1>6
            <4>2. batch[q][j] = batch[p][1]
                BY <1>2, <3>2, <4>1
            <4>3. q = p /\ j = 1
                BY <1>1, <4>2 DEF BudgetInv, Apart
            <4> QED BY <1>5, <4>1, <4>3
        <3> QED BY <3>1, <3>2 DEF Open
    <2>2. Owed(m) >= Owed(m)' + (AckWait - Delay[k])
        <3> DEFINE K == Open(m)'
        <3>1. K \subseteq 1..MaxDeliver /\ Open(m) \subseteq 1..MaxDeliver
            BY DEF Open
        <3>2. K \cup {k} \subseteq Open(m)
            BY <1>8, <2>1
        <3>3. Owed(m)' = Cardinality(Credit(K))
            BY DEF Owed, Credit
        <3>4. k \notin K
            BY <2>1
        <3> HIDE DEF K
        <3>5. Cardinality(Credit(K \cup {k})) = Cardinality(Credit(K)) + (AckWait - Delay[k])
            BY <3>1, <3>4, CreditAdd
        <3>6. Cardinality(Credit(K \cup {k})) <= Owed(m)
            BY <3>1, <3>2, CreditFinite DEF Owed
        <3>7. Cardinality(Credit(K \cup {k})) \in Nat /\ Owed(m) \in Nat
            BY <3>1, <3>2, CreditFinite, OwedNat
        <3> QED BY <3>3, <3>5, <3>6, <3>7
    <2>3. Due(m)'
        <3>1. /\ lived[m] \in Nat /\ age[m] \in Nat /\ AckWait \in Nat
              /\ Pauses[delivered[m]] \in Nat /\ Patience \in Nat
            BY Numbers
        <3>2. Owed(m) \in Nat /\ Owed(m)' \in Nat /\ Delay[k] \in Nat
            BY OwedNat, PausesSum
        <3>3. /\ at'[m] = "paced" /\ age'[m] = AckWait - Delay[k]
              /\ lived'[m] = lived[m] /\ delivered'[m] = delivered[m]
            BY <1>0, <1>12 DEF TypeOK
        <3>4. /\ lived[m] <= Patience /\ delivered[m] > 0
              /\ \/ lived[m] = Patience
                 \/ lived[m] + AckWait >= Pauses[delivered[m]] + Owed(m) + age[m]
            BY <1>12 DEF BudgetInv, Due
        <3>5. \/ lived[m] = Patience
              \/ lived[m] + AckWait >= Pauses[delivered[m]] + Owed(m)' + (AckWait - Delay[k])
            BY <2>2, <3>1, <3>2, <3>4
        <3> QED BY <3>3, <3>4, <3>5 DEF Due
    <2>4. ASSUME NEW n \in Msg \ {m} PROVE Due(n)'
        BY <1>9, <1>12 DEF TypeOK
    <2> QED BY <1>7, <2>3, <2>4 DEF BudgetInv
<1> QED BY <1>2, <1>10, <1>11, <1>12 DEF Handle, HandleError

\* No batch changes, so nobody owes more or less.
LEMMA SameOwed ==
    ASSUME batch' = batch
    PROVE  \A m \in Msg : Open(m)' = Open(m) /\ Owed(m)' = Owed(m)
<1>1. \A m \in Msg : Open(m)' = Open(m)
    BY DEF Open
<1> QED BY <1>1 DEF Owed, Credit

\* The broker sends a message: the delivery starts with its whole credit.
LEMMA DeliverDue ==
    ASSUME TypeOK, BudgetInv, NEW p \in Replica, NEW m \in Msg, Deliver(p, m)
    PROVE  BudgetInv'
<1> DEFINE l == Len(batch[p])
           k == delivered[m] + 1
<1>1. batch[p] \in Seq(Delivery) /\ l \in Nat
    BY DEF TypeOK
<1>2. k \in 1..MaxDeliver /\ delivered[m] \in Nat /\ delivered[m] = k - 1
    <2>1. delivered[m] \in 0..MaxDeliver /\ delivered[m] < MaxDeliver
        BY DEF Deliver, TypeOK
    <2> QED BY <2>1, BusAssumption
<1>3. /\ batch'[p] = Append(batch[p], [msg |-> m, num |-> k])
      /\ \A q \in Replica \ {p} : batch'[q] = batch[q]
    BY DEF Deliver, TypeOK
<1>4. /\ Len(batch'[p]) = l + 1
      /\ batch'[p][l + 1] = [msg |-> m, num |-> k]
      /\ \A i \in 1..l : batch'[p][i] = batch[p][i]
    <2>1. [msg |-> m, num |-> k] \in Delivery
        BY <1>2 DEF Delivery
    <2> QED BY <1>1, <1>3, <2>1
<1>5. ASSUME NEW q \in Replica, NEW i \in 1..Len(batch'[q])
      PROVE  \/ q = p /\ i = l + 1 /\ batch'[q][i] = [msg |-> m, num |-> k]
             \/ i \in 1..Len(batch[q]) /\ batch'[q][i] = batch[q][i]
    <2>1. CASE q = p
        <3>1. i = l + 1 \/ i \in 1..l
            BY <1>1, <1>4, <2>1
        <3> QED BY <1>4, <2>1, <3>1
    <2>2. CASE q # p
        BY <1>3, <2>2
    <2> QED BY <2>1, <2>2
<1>6. /\ at'[m] = "out" /\ age'[m] = 0 /\ delivered'[m] = k
      /\ \A n \in Msg \ {m} :
            at'[n] = at[n] /\ age'[n] = age[n] /\ delivered'[n] = delivered[n]
      /\ lived' = lived
    BY DEF Deliver, TypeOK
<1>7. \A q \in Replica : \A i \in 1..Len(batch[q]) : batch[q][i] # [msg |-> m, num |-> k]
    <2> SUFFICES ASSUME NEW q \in Replica, NEW i \in 1..Len(batch[q]),
                        batch[q][i] = [msg |-> m, num |-> k]
                 PROVE  FALSE
        OBVIOUS
    <2>1. batch[q][i].num <= delivered[batch[q][i].msg]
        BY DEF BudgetInv, Numbered
    <2>2. k <= delivered[m]
        BY <2>1
    <2> HIDE DEF k
    <2> QED BY <1>2, <2>2
<1>8. Apart'
    <2> SUFFICES ASSUME NEW q \in Replica, NEW r \in Replica,
                        NEW i \in 1..Len(batch'[q]), NEW j \in 1..Len(batch'[r]),
                        batch'[q][i] = batch'[r][j]
                 PROVE  q = r /\ i = j
        BY DEF Apart
    <2>1. CASE batch'[q][i] = [msg |-> m, num |-> k]
        <3>1. q = p /\ i = l + 1
            BY <1>5, <1>7, <2>1
        <3>2. r = p /\ j = l + 1
            <4>1. batch'[r][j] = [msg |-> m, num |-> k]
                BY <2>1
            <4>2. ~(j \in 1..Len(batch[r]) /\ batch'[r][j] = batch[r][j])
                BY <1>7, <4>1
            <4> QED BY <1>5, <4>2
        <3> QED BY <3>1, <3>2
    <2>2. CASE batch'[q][i] # [msg |-> m, num |-> k]
        <3>1. /\ i \in 1..Len(batch[q]) /\ j \in 1..Len(batch[r])
              /\ batch[q][i] = batch[r][j]
            BY <1>5, <2>2
        <3> QED BY <3>1 DEF BudgetInv, Apart
    <2> QED BY <2>1, <2>2
<1>9. Numbered'
    <2> SUFFICES ASSUME NEW q \in Replica, NEW i \in 1..Len(batch'[q])
                 PROVE  batch'[q][i].num <= delivered'[batch'[q][i].msg]
        BY DEF Numbered
    <2>1. CASE batch'[q][i] = [msg |-> m, num |-> k]
        BY <1>2, <1>6, <2>1
    <2>2. CASE i \in 1..Len(batch[q]) /\ batch'[q][i] = batch[q][i]
        <3>1. /\ batch[q][i].num <= delivered[batch[q][i].msg]
              /\ batch[q][i].msg \in Msg
              /\ batch[q][i].num \in Nat
            <4>1. batch[q][i] \in Delivery
                BY <2>2, Places
            <4> QED BY <2>2, <4>1, BusAssumption DEF BudgetInv, Numbered, Delivery
        <3>2. CASE batch[q][i].msg = m
            BY <1>2, <1>6, <2>2, <3>1, <3>2
        <3>3. CASE batch[q][i].msg # m
            BY <1>6, <2>2, <3>1, <3>3
        <3> QED BY <3>2, <3>3
    <2> QED BY <1>5, <2>1, <2>2
<1>10. ASSUME NEW n \in Msg \ {m} PROVE Due(n)'
    <2>1. Open(n)' \subseteq Open(n)
        BY <1>5 DEF Open
    <2>2. Owed(n)' <= Owed(n) /\ Owed(n) \in Nat /\ Owed(n)' \in Nat
        BY <2>1, OwedShrinks, OwedNat
    <2>3. /\ lived[n] \in Nat /\ age[n] \in Nat /\ AckWait \in Nat
          /\ Pauses[delivered[n]] \in Nat /\ Patience \in Nat
        BY Numbers
    <2>4. Due(n)
        BY DEF BudgetInv
    <2>5. /\ at'[n] = at[n] /\ age'[n] = age[n] /\ delivered'[n] = delivered[n]
          /\ lived'[n] = lived[n]
        BY <1>6
    <2> QED BY <2>2, <2>3, <2>4, <2>5 DEF Due
<1>11. Due(m)'
    <2>1. PICK num \in 1..MaxDeliver : num = k
        BY <1>2
    <2>2. Open(m)' \subseteq Open(m) \cup {num} /\ num \notin Open(m)
        BY <1>5, <1>7, <2>1 DEF Open
    <2>3. Owed(m)' <= Owed(m) + (AckWait - Delay[num])
        <3> DEFINE K == Open(m)
                   J == Open(m)'
        <3>1. K \subseteq 1..MaxDeliver /\ K \cup {num} \subseteq 1..MaxDeliver
            BY DEF Open
        <3>2. J \subseteq K \cup {num} /\ num \notin K
            BY <2>2
        <3>3. Owed(m)' = Cardinality(Credit(J)) /\ Owed(m) = Cardinality(Credit(K))
            BY DEF Owed, Credit
        <3> HIDE DEF K, J
        <3>4. Cardinality(Credit(K \cup {num})) = Cardinality(Credit(K)) + (AckWait - Delay[num])
            BY <3>1, <3>2, CreditAdd
        <3>5. Cardinality(Credit(J)) <= Cardinality(Credit(K \cup {num}))
            BY <3>1, <3>2, CreditFinite
        <3> QED BY <3>3, <3>4, <3>5
    <2>4. /\ Owed(m) \in Nat /\ Owed(m)' \in Nat
          /\ Delay[num] \in Nat /\ Pauses[num] = Pauses[num - 1] + Delay[num]
        BY OwedNat, PausesSum
    <2>5. /\ lived[m] \in Nat /\ AckWait \in Nat /\ Patience \in Nat
          /\ Pauses[delivered[m]] \in Nat /\ delivered[m] = num - 1
        BY <1>2, <2>1, Numbers
    <2>6. /\ lived[m] <= Patience
          /\ lived[m] = Patience \/ lived[m] >= Pauses[num - 1] + Owed(m)
        BY <2>5 DEF BudgetInv, Due, Deliver
    <2>7. /\ at'[m] = "out" /\ age'[m] = 0 /\ delivered'[m] = num /\ lived'[m] = lived[m]
        BY <1>6, <2>1
    <2>8. lived[m] = Patience \/ lived[m] + AckWait >= Pauses[num] + Owed(m)' + 0
        BY <2>3, <2>4, <2>5, <2>6
    <2> QED BY <2>6, <2>7, <2>8 DEF Due
<1> QED BY <1>8, <1>9, <1>10, <1>11 DEF BudgetInv

\* The broker's steps on a message by itself.
LEMMA MessageDue ==
    ASSUME TypeOK, BudgetInv, NEW m \in Msg, Publish(m) \/ Lapse(m) \/ Exhaust(m)
    PROVE  BudgetInv'
<1>1. batch' = batch /\ UNCHANGED <<delivered, age, lived>>
    BY DEF Publish, Lapse, Exhaust, loop
<1>2. Apart' /\ Numbered'
    BY <1>1 DEF BudgetInv, Apart, Numbered
<1>3. \A n \in Msg : Open(n)' = Open(n) /\ Owed(n)' = Owed(n)
    BY <1>1, SameOwed
<1>4. ASSUME NEW n \in Msg \ {m} PROVE Due(n)'
    <2>1. at'[n] = at[n]
        BY DEF Publish, Lapse, Exhaust, TypeOK
    <2> QED BY <1>1, <1>3, <2>1 DEF BudgetInv, Due
<1>5. /\ lived[m] \in Nat /\ AckWait \in Nat /\ Patience \in Nat
      /\ Pauses[delivered[m]] \in Nat /\ Owed(m) \in Nat /\ delivered[m] \in 0..MaxDeliver
    BY Numbers, OwedNat
<1>6. Due(m) /\ Owed(m)' = Owed(m) /\ lived'[m] = lived[m] /\ delivered'[m] = delivered[m]
    BY <1>1, <1>3 DEF BudgetInv
<1>7. ASSUME Publish(m) PROVE Due(m)'
    <2>1. at'[m] = "ready" /\ delivered[m] = 0
        BY <1>6, <1>7 DEF Publish, Due, TypeOK
    <2>2. Owed(m) = 0
        <3>1. Open(m) = {}
            <4>1. ASSUME NEW p \in Replica, NEW i \in 1..Len(batch[p]), NEW k \in 1..MaxDeliver,
                         batch[p][i] = [msg |-> m, num |-> k]
                  PROVE  FALSE
                <5>1. batch[p][i].num <= delivered[batch[p][i].msg]
                    BY DEF BudgetInv, Numbered
                <5>2. k <= 0
                    BY <2>1, <4>1, <5>1
                <5> QED BY <5>2, BusAssumption
            <4> QED BY <4>1 DEF Open
        <3>2. Credit({}) = {}
            BY DEF Credit
        <3> QED BY <3>1, <3>2, FS_EmptySet DEF Owed
    <2> QED BY <1>5, <1>6, <2>1, <2>2, PausesSum DEF Due
<1>8. ASSUME Lapse(m) PROVE Due(m)'
    <2>1. at'[m] = "ready" /\ at[m] \in {"out", "paced"} /\ age[m] = AckWait
        BY <1>8 DEF Lapse, TypeOK
    <2>2. lived[m] = Patience \/ lived[m] >= Pauses[delivered[m]] + Owed(m)
        BY <1>5, <1>6, <2>1 DEF Due
    <2> QED BY <1>6, <2>1, <2>2 DEF Due
<1>9. ASSUME Exhaust(m) PROVE Due(m)'
    <2>1. at'[m] = "dead" /\ at[m] = "ready" /\ delivered[m] = MaxDeliver
        BY <1>9 DEF Exhaust, TypeOK
    <2>2. MaxDeliver \in 1..MaxDeliver
        BY BusAssumption
    <2>3. Pauses[MaxDeliver] >= Patience
        BY <1>5, <2>2, PausesSum DEF Patience
    <2>4. lived[m] = Patience
        BY <1>5, <1>6, <2>1, <2>3 DEF Due
    <2> QED BY <1>6, <2>1, <2>4 DEF Due
<1> QED BY <1>2, <1>4, <1>7, <1>8, <1>9 DEF BudgetInv

\* A tick adds to what a message has lived through as much as to its age.
LEMMA TickDue ==
    ASSUME TypeOK, BudgetInv, Tick
    PROVE  BudgetInv'
<1>1. batch' = batch /\ UNCHANGED <<at, delivered>>
    BY DEF Tick
<1>2. Apart' /\ Numbered'
    BY <1>1 DEF BudgetInv, Apart, Numbered
<1>3. ASSUME NEW m \in Msg PROVE Due(m)'
    <2>1. Owed(m)' = Owed(m) /\ Owed(m) \in Nat
        BY <1>1, SameOwed, OwedNat
    <2>2. /\ lived[m] \in Nat /\ AckWait \in Nat /\ Patience \in Nat /\ age[m] \in Nat
          /\ Pauses[delivered[m]] \in Nat /\ delivered[m] \in 0..MaxDeliver
        BY Numbers
    <2>3. /\ at'[m] = at[m] /\ delivered'[m] = delivered[m]
          /\ age'[m] = IF at[m] \in {"out", "paced"} /\ age[m] < AckWait
                       THEN age[m] + 1 ELSE age[m]
          /\ lived'[m] = IF delivered[m] > 0 /\ lived[m] < Patience
                         THEN lived[m] + 1 ELSE lived[m]
        BY DEF Tick
    <2>4. Due(m)
        BY DEF BudgetInv
    <2> QED BY <2>1, <2>2, <2>3, <2>4 DEF Due
<1> QED BY <1>2, <1>3 DEF BudgetInv

\* Every step keeps the budget.
LEMMA NextDue ==
    ASSUME TypeOK, BudgetInv, [Next]_vars
    PROVE  BudgetInv'
<1>1. ASSUME UNCHANGED <<batch, broker>> PROVE BudgetInv'
    <2>1. \A m \in Msg : Owed(m)' = Owed(m)
        BY <1>1, SameOwed
    <2> QED BY <1>1, <2>1 DEF broker, BudgetInv, Apart, Numbered, Due
<1>2. ASSUME NEW p \in Replica,
             \/ Connect(p) \/ Subscribe(p) \/ Close(p) \/ Abort(p) \/ ListenerEnds(p)
             \/ Drain(p) \/ Fetch(p) \/ FetchEnds(p) \/ LoopEnds(p)
      PROVE  BudgetInv'
    <2>1. UNCHANGED <<batch, broker>>
        BY <1>2 DEF Connect, Subscribe, Close, Abort, ListenerEnds, Drain, Fetch, FetchEnds,
           LoopEnds, loop
    <2> QED BY <1>1, <2>1
<1>3. CASE UNCHANGED vars
    BY <1>1, <1>3 DEF vars, broker
<1>4. ASSUME NEW p \in Replica, Exit(p) \/ Crash(p) PROVE BudgetInv'
    BY <1>4, GoneDue DEF Exit, Crash
<1> QED BY <1>2, <1>3, <1>4, HandleDue, DeliverDue, MessageDue, TickDue DEF Next, Closes

-----------------------------------------------------------------------------
(* The theorems. *)

\* The state of replicas, loops and broker keeps its types: in particular no pull
\* request gets more than its batch and no message more than its deliveries.
THEOREM TypeCorrect == Spec => []TypeOK
BY Invariance, PTL DEF IInv

\* Close returns to a replica in which no handler runs and none will be started.
THEOREM ClosedIsQuiet == Spec => []QuietOnceClosed
<1>1. IInv => QuietOnceClosed
    BY DEF IInv, LoopInv, QuietOnceClosed
<1> QED BY <1>1, Invariance, PTL

\* No dead letter is counted twice, with any number of replicas and services.
THEOREM DeadLettersCountedOnce == Spec => []CountedOnce
BY Invariance, PTL DEF IInv

\* Where the handlers of a whole batch fit into AckWait, a message is with one
\* instance at a time.
THEOREM OneAtATime ==
    ASSUME Batch * HandlerTime < AckWait
    PROVE  Spec => []OneInstance
<1>1. Init => TimeInv
    BY DEF Init, TimeInv, Held, InTime, OneInstance
<1>2. IInv /\ TimeInv /\ [Next]_vars => TimeInv'
    BY NextInTime
<1>3. TimeInv => OneInstance
    BY DEF TimeInv
<1> QED BY <1>1, <1>2, <1>3, Invariance, PTL DEF Spec

\* A message is not given up before all its pauses have passed, however long its
\* handlers take and whatever becomes of their answers.
THEOREM PausesPass == Spec => []BudgetLasts
<1>1. Init => BudgetInv
    <2> SUFFICES ASSUME Init PROVE BudgetInv
        OBVIOUS
    <2>1. Apart /\ Numbered
        BY DEF Init, Apart, Numbered
    <2>2. Patience \in Nat
        BY PausesSum, BusAssumption DEF Patience
    <2> QED BY <2>1, <2>2 DEF Init, BudgetInv, Due
<1>2. TypeOK /\ BudgetInv /\ [Next]_vars => BudgetInv'
    BY NextDue
<1>3. BudgetInv => BudgetLasts
    BY DEF BudgetInv, Due, BudgetLasts
<1>4. IInv => TypeOK
    BY DEF IInv
<1> QED BY <1>1, <1>2, <1>3, <1>4, Invariance, PTL DEF Spec
=============================================================================
