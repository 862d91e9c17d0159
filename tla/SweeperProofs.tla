----------------------------- MODULE SweeperProofs -----------------------------
(***************************************************************************)
(* The hold hygiene of a sweep comes after its compensation events, for    *)
(* any number of reservations and sweepers, any batch size and any number  *)
(* of crashes.                                                             *)
(*                                                                         *)
(* What a sweep counts as sent has been stored (SentAnnounced), and only a *)
(* sweep that sent its whole batch comes to the hygiene (CleanComplete).   *)
(* Only what was announced is delivered (DeliveredAnnounced), so nothing   *)
(* expires that no sweeper found overdue.                                  *)
(***************************************************************************)
EXTENDS Sweeper, TLAPS

SentAnnounced == \A w \in Sweeper : sent[w] \subseteq announced

CleanComplete == \A w \in Sweeper : pc[w] = "clean" => sent[w] = batch[w]

IdleEmpty == \A w \in Sweeper : pc[w] = "idle" => sent[w] = {}

CleanedAnnounced == cleaned \subseteq announced

IInv == TypeOK /\ SentAnnounced /\ CleanComplete /\ IdleEmpty /\ CleanedAnnounced

\* Idle sweepers and an empty stream satisfy the invariant.
LEMMA InitInv == Init => IInv
BY SweeperAssumption
   DEF Init, IInv, TypeOK, SentAnnounced, CleanComplete, IdleEmpty, CleanedAnnounced

\* A sweep that returns leaves nothing behind.
LEMMA ReturnInv ==
    ASSUME IInv, NEW w \in Sweeper, Return(w), UNCHANGED overdue,
           announced \subseteq announced'
    PROVE  /\ pc' \in [Sweeper -> {"idle", "publish", "clean"}]
           /\ batch' \in [Sweeper -> SUBSET overdue']
           /\ sent' \in [Sweeper -> SUBSET overdue']
           /\ \A v \in Sweeper : sent'[v] \subseteq batch'[v]
           /\ SentAnnounced' /\ CleanComplete' /\ IdleEmpty'
BY DEF IInv, Return, TypeOK, SentAnnounced, CleanComplete, IdleEmpty

\* What the stream does with a published event.
LEMMA StoreFacts ==
    ASSUME IInv, NEW r \in Res, r \in overdue, Store(r)
    PROVE  /\ announced' \subseteq overdue
           /\ recent' \subseteq announced'
           /\ left' \in [Res -> 0..MaxDeliver]
           /\ r \in announced'
           /\ announced \subseteq announced'
BY SweeperAssumption DEF IInv, Store, TypeOK

\* Each action of the clocks, the sweep and the consumer keeps the invariant.
LEMMA NextInv == IInv /\ [Next]_vars => IInv'
<1> SUFFICES ASSUME IInv, [Next]_vars PROVE IInv'
    OBVIOUS
<1> USE SweeperAssumption DEF IInv
<1>1. ASSUME NEW r \in Res, Elapse(r) \/ ElapseAtCore(r) \/ Confirm(r) PROVE IInv'
    BY <1>1 DEF Elapse, ElapseAtCore, Confirm, stream, sweeper, TypeOK, SentAnnounced,
                CleanComplete, IdleEmpty, CleanedAnnounced
<1>2. ASSUME NEW r \in Res, Lapse(r) \/ Expire(r) \/ ExpireFails(r) PROVE IInv'
    <2>1. TypeOK'
        BY <1>2 DEF Lapse, Expire, ExpireFails, sweeper, TypeOK
    <2> QED
        BY <1>2, <2>1 DEF Lapse, Expire, ExpireFails, sweeper, SentAnnounced,
                          CleanComplete, IdleEmpty, CleanedAnnounced
<1>3. ASSUME NEW w \in Sweeper, NEW locked \in SUBSET Res, FindExpired(w, locked)
      PROVE  IInv'
    <2> DEFINE found == Oldest({r \in overdue : status[r] = "PENDING"} \ locked)
    <2>1. found \subseteq overdue
        BY DEF Oldest
    <2>2. /\ pc[w] = "idle"
          /\ batch' = [batch EXCEPT ![w] = found]
          /\ pc' = [pc EXCEPT ![w] = "publish"]
          /\ UNCHANGED <<batchSize, status, overdue, late, stream, cleaned, sent>>
        BY <1>3 DEF FindExpired
    <2> HIDE DEF found
    <2>3. sent[w] = {}
        BY <2>2 DEF IdleEmpty
    <2> QED
        BY <2>1, <2>2, <2>3 DEF stream, TypeOK, SentAnnounced, CleanComplete, IdleEmpty, CleanedAnnounced
<1>4. ASSUME NEW w \in Sweeper, Publish(w) PROVE IInv'
    <2>1. PICK r \in Res :
              /\ IsNext(w, r)
              /\ Store(r)
              /\ sent' = [sent EXCEPT ![w] = @ \cup {r}]
              /\ pc' = [pc EXCEPT ![w] = IF sent'[w] = batch[w] THEN "clean" ELSE "publish"]
              /\ UNCHANGED <<batchSize, status, overdue, late, cleaned, batch>>
        BY <1>4 DEF Publish
    <2>2. r \in batch[w] /\ r \in overdue
        BY <2>1 DEF IsNext, TypeOK
    <2>3. /\ announced' \subseteq overdue
          /\ recent' \subseteq announced'
          /\ left' \in [Res -> 0..MaxDeliver]
          /\ r \in announced'
          /\ announced \subseteq announced'
        BY <2>1, <2>2, StoreFacts
    <2>4. TypeOK'
        BY <2>1, <2>2, <2>3 DEF TypeOK
    <2>5. SentAnnounced' /\ CleanComplete' /\ IdleEmpty'
        BY <2>1, <2>3 DEF TypeOK, SentAnnounced, CleanComplete, IdleEmpty
    <2>6. CleanedAnnounced'
        BY <2>1, <2>3 DEF CleanedAnnounced
    <2> QED
        BY <2>4, <2>5, <2>6
<1>5. ASSUME NEW w \in Sweeper, PublishFails(w) PROVE IInv'
    <2>1. PICK r \in Res :
              /\ IsNext(w, r)
              /\ Store(r) \/ UNCHANGED stream
              /\ Return(w)
              /\ UNCHANGED <<batchSize, status, overdue, late, cleaned>>
        BY <1>5 DEF PublishFails
    <2>2. r \in overdue
        BY <2>1 DEF IsNext, TypeOK
    <2>3. /\ announced' \subseteq overdue
          /\ recent' \subseteq announced'
          /\ left' \in [Res -> 0..MaxDeliver]
          /\ announced \subseteq announced'
        BY <2>1, <2>2, StoreFacts DEF stream, TypeOK
    <2>4. TypeOK' /\ SentAnnounced' /\ CleanComplete' /\ IdleEmpty'
        BY <2>1, <2>3, ReturnInv DEF TypeOK
    <2> QED
        BY <2>1, <2>3, <2>4 DEF CleanedAnnounced
<1>6. ASSUME NEW w \in Sweeper, Clean(w) PROVE IInv'
    <2>1. PICK done \in SUBSET batch[w] :
              /\ pc[w] = "clean"
              /\ cleaned' = cleaned \cup done
              /\ Return(w)
              /\ UNCHANGED <<batchSize, status, overdue, late, stream>>
        BY <1>6 DEF Clean
    <2>2. done \subseteq announced
        BY <2>1 DEF CleanComplete, SentAnnounced
    <2>3. TypeOK' /\ SentAnnounced' /\ CleanComplete' /\ IdleEmpty'
        BY <2>1, <2>2, ReturnInv DEF stream, TypeOK
    <2> QED
        BY <2>1, <2>2, <2>3 DEF stream, CleanedAnnounced
<1>7. ASSUME NEW w \in Sweeper, Crash(w) PROVE IInv'
    <2>1. TypeOK' /\ SentAnnounced' /\ CleanComplete' /\ IdleEmpty'
        BY <1>7, ReturnInv DEF Crash, stream, TypeOK
    <2> QED
        BY <1>7, <2>1 DEF Crash, stream, CleanedAnnounced
<1>8. CASE UNCHANGED vars
    BY <1>8 DEF vars, TypeOK, SentAnnounced, CleanComplete, IdleEmpty, CleanedAnnounced
<1> QED
    BY <1>1, <1>2, <1>3, <1>4, <1>5, <1>6, <1>7, <1>8 DEF Next

\* The invariant holds throughout (sweeper.go sweep).
THEOREM Invariance == Spec => []IInv
BY InitInv, NextInv, PTL DEF Spec

\* No sweep comes to the hold hygiene before every event of its batch is in the
\* stream, whatever the size of the batch and wherever publishing fails (sweeper.go
\* sweep).
THEOREM HygieneFollows == Spec => []CleanedAfterAnnounced
<1>1. IInv => CleanedAfterAnnounced
    BY DEF IInv, CleanedAnnounced, CleanComplete, SentAnnounced, CleanedAfterAnnounced
<1> QED
    BY <1>1, Invariance, PTL

\* Types: in particular a sweeper only ever holds and announces overdue
\* reservations, in every batch of every replica (sweeper.go sweep).
THEOREM TypeCorrect == Spec => []TypeOK
<1>1. IInv => TypeOK
    BY DEF IInv
<1> QED
    BY <1>1, Invariance, PTL

\* Seats are taken back on time: an expired reservation was overdue both on the clock
\* of the sweeper's database and on that of pulsar-core, and its event was stored.
ExpiredOnTime ==
    \A r \in Res : status[r] = "EXPIRED" => r \in announced \cap overdue \cap late

\* Only what a sweeper announced is ever delivered.
DeliveredAnnounced == \A r \in Res : left[r] > 0 => r \in announced

\* The consumer expires what was announced, and looks at its own clock first.
LEMMA OnTimeStep ==
    IInv /\ DeliveredAnnounced /\ ExpiredOnTime /\ [Next]_vars =>
        (DeliveredAnnounced /\ ExpiredOnTime)'
<1> SUFFICES ASSUME IInv, DeliveredAnnounced, ExpiredOnTime, [Next]_vars
             PROVE  (DeliveredAnnounced /\ ExpiredOnTime)'
    OBVIOUS
<1> DEFINE Kept == (DeliveredAnnounced /\ ExpiredOnTime)'
<1> USE DEF IInv, TypeOK, DeliveredAnnounced, ExpiredOnTime
<1>1. ASSUME NEW r \in Res, Elapse(r) \/ ElapseAtCore(r) \/ Confirm(r) \/ Lapse(r) PROVE Kept
    BY <1>1 DEF Elapse, ElapseAtCore, Confirm, Lapse, stream
<1>2. ASSUME NEW r \in Res, Expire(r) PROVE Kept
    <2>1. /\ left[r] > 0 /\ r \in announced /\ r \in overdue /\ r \in late
          /\ \A q \in Res \ {r} : status'[q] = status[q] /\ left'[q] = left[q]
          /\ left'[r] = 0
          /\ UNCHANGED <<announced, overdue, late>>
        BY <1>2 DEF Expire
    <2> QED BY <2>1
<1>3. ASSUME NEW r \in Res, ExpireFails(r) PROVE Kept
    BY <1>3, SweeperAssumption DEF ExpireFails
<1>4. ASSUME NEW r \in Res, Store(r), UNCHANGED <<status, overdue, late>> PROVE Kept
    BY <1>4, SweeperAssumption DEF Store
<1>5. ASSUME UNCHANGED <<status, overdue, late, announced, left>> PROVE Kept
    BY <1>5
<1>6. ASSUME NEW w \in Sweeper, Publish(w) \/ PublishFails(w) PROVE Kept
    <2>1. UNCHANGED <<status, overdue, late>> /\ ((\E r \in Res : Store(r)) \/ UNCHANGED stream)
        BY <1>6 DEF Publish, PublishFails
    <2> QED BY <1>4, <1>5, <2>1 DEF stream
<1>7. ASSUME NEW w \in Sweeper,
             Clean(w) \/ Crash(w) \/ (\E locked \in SUBSET Res : FindExpired(w, locked))
      PROVE  UNCHANGED <<status, overdue, late, announced, left>>
    BY <1>7 DEF Clean, Crash, FindExpired, stream
<1>8. CASE UNCHANGED vars
    BY <1>5, <1>8 DEF vars
<1> QED BY <1>1, <1>2, <1>3, <1>5, <1>6, <1>7, <1>8 DEF Next

\* No reservation expires early or unannounced, whatever is swept twice, delivered
\* late or judged by clocks that differ (sweeper.go sweep, service.go Expire).
THEOREM NobodyExpiresEarly == Spec => []ExpiredOnTime
<1>1. Init => DeliveredAnnounced /\ ExpiredOnTime
    BY DEF Init, DeliveredAnnounced, ExpiredOnTime
<1> QED BY <1>1, OnTimeStep, Invariance, PTL DEF Spec
=============================================================================
