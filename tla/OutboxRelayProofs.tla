--------------------------- MODULE OutboxRelayProofs ---------------------------
(***************************************************************************)
(* No event is lost and duplicates stay within the lapses of the dedup     *)
(* window, for any number of rows and relays and any batch size.           *)
(*                                                                         *)
(* What a relay is about to mark has been stored (SentStored); and a row   *)
(* outside the window has at most as many copies as lapses (Forgotten), so *)
(* that storing it again stays within the bound.                           *)
(*                                                                         *)
(* The order of a sweep rests on what LIMIT does to an ordered set: the    *)
(* first rows are at most BatchSize, because the youngest of them has      *)
(* fewer than BatchSize before it, and nothing older is left out           *)
(* (OldestFacts).                                                          *)
(***************************************************************************)
EXTENDS OutboxRelay, FiniteSetTheorems, WellFoundedInduction, TLAPS

\* Every row a relay has published is in the stream.
SentStored == \A w \in Relay : \A i \in sent[w] : copies[i] > 0

\* A row inside the window has been stored.
RecentStored == \A i \in recent : copies[i] > 0

\* Outside the window there is room for one more copy.
Forgotten == \A i \in Row \ recent : copies[i] <= lapses[i]

IInv == TypeOK /\ SentStored /\ RecentStored /\ Forgotten /\ NothingLost /\ DedupAbsorbs

\* With no rows, no copies and idle relays the invariant is immediate.
LEMMA InitInv == Init => IInv
BY RelayAssumption
   DEF Init, IInv, TypeOK, SentStored, RecentStored, Forgotten, NothingLost, DedupAbsorbs, Row

\* What the stream does with a published row i.
LEMMA StoreFacts ==
    ASSUME IInv, NEW i \in Row, Store(i)
    PROVE  /\ copies' \in [Row -> Nat]
           /\ recent' \subseteq Row
           /\ copies'[i] > 0
           /\ \A j \in Row : copies'[j] >= copies[j]
           /\ RecentStored'
           /\ Forgotten'
           /\ DedupAbsorbs'
BY DEF IInv, Store, TypeOK, RecentStored, Forgotten, DedupAbsorbs, Row

\* Each action of the surroundings and of a sweep keeps the invariant.
LEMMA NextInv == IInv /\ [Next]_vars => IInv'
<1> SUFFICES ASSUME IInv, [Next]_vars PROVE IInv'
    OBVIOUS
<1> USE RelayAssumption DEF IInv
<1>1. ASSUME NEW i \in Row, Enqueue(i) PROVE IInv'
    BY <1>1 DEF Enqueue, stream, relay, TypeOK, SentStored, RecentStored, Forgotten,
                NothingLost, DedupAbsorbs
<1>2. ASSUME NEW i \in Row, Lapse(i) PROVE IInv'
    <2>1. TypeOK'
        BY <1>2 DEF Lapse, relay, TypeOK
    <2>2. /\ copies' = copies
          /\ recent' = recent \ {i}
          /\ \A j \in Row : lapses'[j] = IF j = i THEN lapses[j] + 1 ELSE lapses[j]
        BY <1>2 DEF Lapse, TypeOK
    <2>3. \A j \in Row : copies[j] \in Nat /\ lapses[j] \in Nat
        BY DEF TypeOK
    <2>4. Forgotten'
        BY <2>2, <2>3 DEF Forgotten, DedupAbsorbs
    <2>5. DedupAbsorbs'
        BY <2>2, <2>3 DEF DedupAbsorbs
    <2> QED
        BY <1>2, <2>1, <2>4, <2>5 DEF Lapse, relay, SentStored, RecentStored, NothingLost
<1>3. ASSUME NEW w \in Relay, Fetch(w) PROVE IInv'
    <2>1. Oldest(committed \ processed) \subseteq committed
        BY DEF Oldest
    <2>2. TypeOK'
        BY <1>3, <2>1 DEF Fetch, stream, TypeOK
    <2>3. SentStored'
        BY <1>3 DEF Fetch, stream, TypeOK, SentStored
    <2> QED
        BY <1>3, <2>2, <2>3 DEF Fetch, stream, RecentStored, Forgotten, NothingLost, DedupAbsorbs
<1>4. ASSUME NEW w \in Relay, Publish(w) PROVE IInv'
    <2>1. PICK i \in Row :
              /\ IsNext(w, i)
              /\ Store(i)
              /\ sent' = [sent EXCEPT ![w] = @ \cup {i}]
              /\ pc' = [pc EXCEPT ![w] = IF sent'[w] = batch[w] THEN "mark" ELSE "publish"]
              /\ UNCHANGED <<committed, processed, batch, faults>>
        BY <1>4 DEF Publish
    <2>2. /\ copies' \in [Row -> Nat]
          /\ recent' \subseteq Row
          /\ copies'[i] > 0
          /\ \A j \in Row : copies'[j] >= copies[j]
          /\ RecentStored' /\ Forgotten' /\ DedupAbsorbs'
        BY <2>1, StoreFacts
    <2>3. TypeOK'
        BY <2>1, <2>2 DEF TypeOK, IsNext, Store
    <2>4. SentStored'
        BY <2>1, <2>2 DEF TypeOK, SentStored
    <2>5. NothingLost'
        BY <2>1, <2>2 DEF TypeOK, NothingLost
    <2> QED
        BY <2>2, <2>3, <2>4, <2>5
<1>5. ASSUME NEW w \in Relay, PublishFails(w) PROVE IInv'
    <2>1. PICK i \in Row :
              /\ \/ UNCHANGED <<stream, faults>>
                 \/ faults < MaxFaults /\ faults' = faults + 1 /\ Store(i)
              /\ pc' = [pc EXCEPT ![w] = IF sent[w] = {} THEN "idle" ELSE "mark"]
              /\ UNCHANGED <<committed, processed, batch, sent>>
        BY <1>5 DEF PublishFails
    <2>2. CASE UNCHANGED <<stream, faults>>
        BY <2>1, <2>2 DEF stream, TypeOK, SentStored, RecentStored, Forgotten,
                          NothingLost, DedupAbsorbs
    <2>3. CASE faults < MaxFaults /\ faults' = faults + 1 /\ Store(i)
        <3>1. /\ copies' \in [Row -> Nat]
              /\ recent' \subseteq Row
              /\ \A j \in Row : copies'[j] >= copies[j]
              /\ RecentStored' /\ Forgotten' /\ DedupAbsorbs'
            BY <2>3, StoreFacts
        <3>2. TypeOK'
            BY <2>1, <2>3, <3>1 DEF TypeOK, Store
        <3>3. SentStored' /\ NothingLost'
            BY <2>1, <3>1 DEF TypeOK, SentStored, NothingLost
        <3> QED
            BY <3>1, <3>2, <3>3
    <2> QED
        BY <2>1, <2>2, <2>3
<1>6. ASSUME NEW w \in Relay, MarkProcessed(w) PROVE IInv'
    BY <1>6 DEF MarkProcessed, stream, TypeOK, SentStored, RecentStored, Forgotten,
                NothingLost, DedupAbsorbs
<1>7. ASSUME NEW w \in Relay, Abandon(w) PROVE IInv'
    BY <1>7 DEF Abandon, stream, TypeOK, SentStored, RecentStored, Forgotten,
                NothingLost, DedupAbsorbs
<1>8. CASE UNCHANGED vars
    BY <1>8 DEF vars, TypeOK, SentStored, RecentStored, Forgotten, NothingLost, DedupAbsorbs
<1> QED
    BY <1>1, <1>2, <1>3, <1>4, <1>5, <1>6, <1>7, <1>8 DEF Next

\* The invariant holds throughout (relay.go sweep).
THEOREM Invariance == Spec => []IInv
BY InitInv, NextInv, PTL DEF Spec

\* No row is marked before the stream has it (relay.go sweep).
THEOREM NoEventLost == Spec => []NothingLost
<1>1. IInv => NothingLost
    BY DEF IInv
<1> QED
    BY <1>1, Invariance, PTL

\* Copies of a row are bounded by the lapses of its duplicate window, with any
\* number of relays on the same rows (relay.go sweep, jetstream.go Publish).
THEOREM DuplicatesAbsorbed == Spec => []DedupAbsorbs
<1>1. IInv => DedupAbsorbs
    BY DEF IInv
<1> QED
    BY <1>1, Invariance, PTL

\* Types: in particular what a relay holds in its batch and has published of it
\* are committed rows, and only committed rows are marked (relay.go sweep).
THEOREM TypeCorrect == Spec => []TypeOK
<1>1. IInv => TypeOK
    BY DEF IInv
<1> QED
    BY <1>1, Invariance, PTL

-----------------------------------------------------------------------------
(* The order of a sweep: ORDER BY created_at LIMIT RELAY_BATCH, and the loop *)
(* that publishes what it returned.                                          *)

\* A set of numbers has a least element.
LEMMA First ==
    ASSUME NEW T, T \subseteq Nat, T # {}
    PROVE  \E x \in T : \A y \in T : x <= y
<1> DEFINE Less == {p \in Nat \X Nat : p[1] < p[2]}
<1>1. IsWellFoundedOn(Less, Nat)
    BY NatLessThanWellFounded DEF OpToRel
<1>2. \A x, y \in Nat : <<y, x>> \notin Less => x <= y
    OBVIOUS
<1> HIDE DEF Less
<1>3. PICK x \in T : \A y \in T : ~ (<<y, x>> \in Less)
    BY <1>1, WFMin, Zenon
<1> QED BY <1>2, <1>3

\* A set of rows has a youngest one: the least of its upper bounds is in it.
LEMMA Last ==
    ASSUME NEW T, T \subseteq Row, T # {}
    PROVE  \E x \in T : \A y \in T : y <= x
<1> DEFINE Bounds == {n \in Nat : \A y \in T : y <= n}
<1>1. T \subseteq Nat \ {0} /\ Rows \in Bounds
    BY RelayAssumption DEF Row
<1>2. PICK n \in Bounds : \A m \in Bounds : n <= m
    BY <1>1, First
<1>3. n \in T
    <2> SUFFICES ASSUME n \notin T PROVE FALSE
        OBVIOUS
    <2>1. PICK t \in T : TRUE
        OBVIOUS
    <2>2. n \in Nat /\ n - 1 \in Nat
        <3>1. n \in Nat /\ t \in Nat /\ t # 0 /\ t <= n
            BY <1>1
        <3> QED BY <3>1
    <2>3. ASSUME NEW y \in T PROVE y <= n - 1
        <3>1. y \in Nat /\ y <= n /\ y # n
            BY <1>1, <2>3
        <3> QED BY <2>2, <3>1
    <2>4. n - 1 \in Bounds
        BY <2>2, <2>3
    <2>5. n <= n - 1
        BY <1>2, <2>4
    <2> QED BY <2>2, <2>5
<1> QED BY <1>3

\* B is a prefix of S: nothing of S outside it is older than anything in it.
Prefix(B, S) == B \subseteq S /\ \A i \in B, j \in S : j < i => j \in B

\* The first BatchSize rows are no more than that, a prefix, and at least one if
\* there is any.
LEMMA OldestFacts ==
    ASSUME NEW S, S \subseteq Row
    PROVE  /\ Prefix(Oldest(S), S)
           /\ Cardinality(Oldest(S)) <= BatchSize
           /\ S # {} => Oldest(S) # {}
<1> DEFINE Older(i) == {j \in S : j < i}
<1>1. S \subseteq Nat /\ IsFiniteSet(S)
    <2>1. Rows \in Int /\ 1 \in Int
        BY RelayAssumption
    <2>2. IsFiniteSet(1..Rows)
        BY <2>1, FS_Interval
    <2>3. S \subseteq Nat /\ S \in SUBSET (1..Rows)
        BY RelayAssumption DEF Row
    <2> QED BY <2>2, <2>3, FS_Subset
<1>2. ASSUME NEW i PROVE IsFiniteSet(Older(i)) /\ Cardinality(Older(i)) \in Nat
    <2>1. Older(i) \in SUBSET S
        OBVIOUS
    <2> QED BY <1>1, <2>1, FS_Subset, FS_CardinalityType
<1>3. ASSUME NEW i \in S PROVE i \in Oldest(S) <=> Cardinality(Older(i)) < BatchSize
    BY <1>3 DEF Oldest
<1>4. Oldest(S) \subseteq S
    BY DEF Oldest
<1>5. ASSUME NEW i \in Oldest(S), NEW j \in S, j < i PROVE j \in Oldest(S)
    <2>1. Older(j) \in SUBSET Older(i)
        <3>1. i \in Nat /\ j \in Nat /\ j < i
            BY <1>1, <1>4, <1>5
        <3>2. ASSUME NEW k \in S, k < j PROVE k < i
            BY <1>1, <3>1, <3>2
        <3> QED BY <3>2
    <2>2. Cardinality(Older(j)) <= Cardinality(Older(i))
        BY <1>2, <2>1, FS_Subset
    <2>3. Cardinality(Older(i)) < BatchSize
        BY <1>3, <1>4
    <2>4. Cardinality(Older(i)) \in Nat /\ Cardinality(Older(j)) \in Nat
        BY <1>2
    <2> HIDE DEF Older
    <2> QED BY <1>3, <2>2, <2>3, <2>4, RelayAssumption
<1>6. Cardinality(Oldest(S)) <= BatchSize
    <2>1. CASE Oldest(S) = {}
        BY <2>1, FS_EmptySet, RelayAssumption
    <2>2. CASE Oldest(S) # {}
        <3>1. PICK m \in Oldest(S) : \A i \in Oldest(S) : i <= m
            BY <1>4, <2>2, Last
        <3>2. Oldest(S) \in SUBSET (Older(m) \cup {m})
            <4>1. ASSUME NEW i \in Oldest(S), i # m PROVE i \in S /\ i < m
                <5>1. i \in S /\ i \in Nat /\ m \in Nat /\ i <= m
                    BY <1>1, <1>4, <3>1
                <5> QED BY <4>1, <5>1
            <4> QED BY <4>1
        <3>3. /\ IsFiniteSet(Older(m)) /\ Cardinality(Older(m)) \in Nat
              /\ Cardinality(Older(m)) < BatchSize
            BY <1>2, <1>3, <1>4
        <3> HIDE DEF Older
        <3>4. /\ IsFiniteSet(Older(m) \cup {m})
              /\ Cardinality(Older(m) \cup {m}) <= Cardinality(Older(m)) + 1
            <4> DEFINE P == Older(m)
            <4>1. IsFiniteSet(P) /\ Cardinality(P) \in Nat
                BY <3>3
            <4> HIDE DEF P
            <4>2. /\ IsFiniteSet(P \cup {m})
                  /\ Cardinality(P \cup {m}) = IF m \in P THEN Cardinality(P) ELSE Cardinality(P) + 1
                BY <4>1, FS_AddElement
            <4>3. Cardinality(P \cup {m}) <= Cardinality(P) + 1
                BY <4>1, <4>2
            <4> QED BY <4>2, <4>3 DEF P
        <3>5. /\ Cardinality(Oldest(S)) <= Cardinality(Older(m) \cup {m})
              /\ IsFiniteSet(Oldest(S))
            BY <3>2, <3>4, FS_Subset
        <3>6. Cardinality(Oldest(S)) \in Nat /\ Cardinality(Older(m) \cup {m}) \in Nat
            BY <3>4, <3>5, FS_CardinalityType
        <3> QED BY <3>3, <3>4, <3>5, <3>6, RelayAssumption
    <2> QED BY <2>1, <2>2
<1>7. ASSUME S # {} PROVE Oldest(S) # {}
    <2>1. PICK m \in S : \A i \in S : m <= i
        BY <1>1, <1>7, First
    <2>2. Older(m) = {}
        <3>1. ASSUME NEW i \in S PROVE ~(i < m)
            <4>1. i \in Nat /\ m \in Nat /\ m <= i
                BY <1>1, <2>1
            <4> QED BY <4>1
        <3> QED BY <3>1
    <2>3. Cardinality(Older(m)) = 0
        BY <2>2, FS_EmptySet
    <2> QED BY <1>3, <2>3, RelayAssumption
<1> QED BY <1>4, <1>5, <1>6, <1>7 DEF Prefix

\* A sweep holds at most RELAY_BATCH rows, and what it has published of them is
\* older than what it has not: a batch that is cut short leaves its youngest rows.
SweepInOrder ==
    \A w \in Relay :
        /\ Cardinality(batch[w]) <= BatchSize
        /\ \A i \in sent[w], j \in batch[w] \ sent[w] : i < j

\* A sweep starts with the oldest rows there are: whatever other relays have marked
\* meanwhile, no unmarked row is passed over for a younger one.
OldestGoFirst ==
    [][\A w \in Relay : pc[w] = "idle" /\ pc'[w] = "publish" =>
          batch'[w] # {} /\ Prefix(batch'[w], committed \ processed)]_vars

\* Publish takes the oldest row that is left (relay.go sweep).
LEMMA OrderStep == IInv /\ SweepInOrder /\ [Next]_vars => SweepInOrder'
<1> SUFFICES ASSUME IInv, SweepInOrder, [Next]_vars PROVE SweepInOrder'
    OBVIOUS
<1>1. CASE UNCHANGED <<batch, sent>>
    BY <1>1 DEF SweepInOrder
<1>2. ASSUME NEW w \in Relay, Fetch(w) PROVE SweepInOrder'
    <2> DEFINE B == Oldest(committed \ processed)
    <2>1. Cardinality(B) <= BatchSize
        BY OldestFacts DEF IInv, TypeOK
    <2>2. batch' = [batch EXCEPT ![w] = B] /\ sent' = [sent EXCEPT ![w] = {}]
        BY <1>2 DEF Fetch
    <2> HIDE DEF B
    <2> QED BY <2>1, <2>2 DEF IInv, TypeOK, SweepInOrder
<1>3. ASSUME NEW w \in Relay, Publish(w) PROVE SweepInOrder'
    <2>1. PICK i \in Row : /\ IsNext(w, i) /\ batch' = batch
                           /\ sent' = [sent EXCEPT ![w] = @ \cup {i}]
        BY <1>3 DEF Publish
    <2>2. \A v \in Relay : sent'[v] = IF v = w THEN sent[w] \cup {i} ELSE sent[v]
        BY <2>1 DEF IInv, TypeOK
    <2>3. \A j \in batch[w] \ sent[w] : j \in Nat /\ i \in Nat /\ i <= j
        BY <2>1 DEF IsNext, IInv, TypeOK, Row
    <2>4. \A j \in (batch[w] \ sent[w]) \ {i} : i < j
        BY <2>3
    <2> QED BY <2>1, <2>2, <2>4 DEF SweepInOrder
<1> QED BY <1>1, <1>2, <1>3
        DEF Next, Enqueue, Lapse, PublishFails, MarkProcessed, Abandon, relay, vars

\* Every sweep of every relay keeps to the limit and the order of its query.
THEOREM SweepsKeepOrder == Spec => []SweepInOrder
<1>1. Init => SweepInOrder
    BY FS_EmptySet, RelayAssumption DEF Init, SweepInOrder
<1> QED BY <1>1, OrderStep, Invariance, PTL DEF Spec

\* No row starves behind younger ones: the oldest unmarked row is in every new batch,
\* which is what Drained rests on (relay.go sweep, store.go FetchBatch).
THEOREM NobodyJumpsTheQueue == Spec => OldestGoFirst
<1>1. ASSUME IInv, [Next]_vars, NEW w \in Relay, pc[w] = "idle", pc'[w] = "publish"
      PROVE  batch'[w] # {} /\ Prefix(batch'[w], committed \ processed)
    <2>1. Fetch(w)
        <3>1. ASSUME NEW v \in Relay, Publish(v) \/ PublishFails(v) \/ MarkProcessed(v) \/ Abandon(v)
              PROVE  FALSE
            BY <1>1, <3>1 DEF Publish, PublishFails, MarkProcessed, Abandon, IsNext, IInv, TypeOK
        <3>2. ASSUME NEW v \in Relay, v # w, Fetch(v) PROVE FALSE
            BY <1>1, <3>2 DEF Fetch, IInv, TypeOK
        <3>3. pc' # pc
            BY <1>1
        <3> QED BY <1>1, <3>1, <3>2, <3>3 DEF Next, Enqueue, Lapse, relay, vars
    <2>2. batch'[w] = Oldest(committed \ processed) /\ committed \ processed # {}
        BY <1>1, <2>1 DEF Fetch, IInv, TypeOK
    <2> QED BY <1>1, <2>2, OldestFacts DEF IInv, TypeOK
<1>2. IInv /\ [Next]_vars =>
        [\A w \in Relay : pc[w] = "idle" /\ pc'[w] = "publish" =>
            batch'[w] # {} /\ Prefix(batch'[w], committed \ processed)]_vars
    BY <1>1
<1> QED BY <1>2, Invariance, PTL DEF Spec, OldestGoFirst
=============================================================================
