----------------------------- MODULE TicketsProofs -----------------------------
(***************************************************************************)
(* How the number of tickets held in a set of statuses moves when one      *)
(* reservation changes its status: the arithmetic behind the counters of   *)
(* pulsar-core.                                                            *)
(***************************************************************************)
EXTENDS Tickets, FiniteSetTheorems, TLAPS

\* A reservation of quantity n stands for n tickets.
LEMMA TicketsOfCard ==
    ASSUME NEW r \in ResId
    PROVE  /\ IsFiniteSet(TicketsOf(r))
           /\ Cardinality(TicketsOf(r)) = Request[r].quantity
           /\ Request[r].quantity \in 1..MaxQty
<1>1. Request[r].quantity \in 1..MaxQty
    BY TicketsAssumption
<1>2. /\ IsFiniteSet(1..Request[r].quantity)
      /\ Cardinality(1..Request[r].quantity) = Request[r].quantity
  <2> DEFINE n == Request[r].quantity
  <2>1. n \in Int /\ 1 \in Int /\ ~(1 > n) /\ n - 1 + 1 = n
      BY <1>1, TicketsAssumption
  <2> HIDE DEF n
  <2>2. /\ IsFiniteSet(1..n)
        /\ Cardinality(1..n) = IF 1 > n THEN 0 ELSE n - 1 + 1
      BY <2>1, FS_Interval
  <2> QED BY <2>1, <2>2 DEF n
<1>3. IsFiniteSet({r}) /\ Cardinality({r}) = 1
    BY FS_Singleton
<1>4. /\ IsFiniteSet({r} \X (1..Request[r].quantity))
      /\ Cardinality({r} \X (1..Request[r].quantity)) = 1 * Request[r].quantity
    <2> DEFINE Q == 1..Request[r].quantity
    <2>1. IsFiniteSet({r}) /\ IsFiniteSet(Q)
        BY <1>2, <1>3
    <2> HIDE DEF Q
    <2>2. /\ IsFiniteSet({r} \X Q)
          /\ Cardinality({r} \X Q) = Cardinality({r}) * Cardinality(Q)
        BY <2>1, FS_Product, Zenon
    <2> QED BY <1>2, <1>3, <2>2 DEF Q
<1>5. 1 * Request[r].quantity = Request[r].quantity
    BY <1>1, TicketsAssumption
<1> QED BY <1>1, <1>4, <1>5 DEF TicketsOf

\* The tickets in any statuses are finitely many.
LEMMA TicketsInFinite ==
    ASSUME NEW st, NEW e, NEW S
    PROVE  /\ IsFiniteSet(TicketsIn(st, e, S))
           /\ Cardinality(TicketsIn(st, e, S)) \in Nat
<1>1. IsFiniteSet(1..MaxQty)
    BY FS_Interval, TicketsAssumption
<1>2. IsFiniteSet(ResId \X (1..MaxQty))
    BY <1>1, FS_Product, TicketsAssumption
<1>3. TicketsIn(st, e, S) \subseteq ResId \X (1..MaxQty)
    BY DEF TicketsIn
<1>4. IsFiniteSet(TicketsIn(st, e, S))
    BY <1>2, <1>3, FS_Subset
<1> QED BY <1>4, FS_CardinalityType

\* Tickets in disjoint sets of statuses add up.
LEMMA TicketsInDisjoint ==
    ASSUME NEW st, NEW e, NEW S, NEW T, S \cap T = {}
    PROVE  Cardinality(TicketsIn(st, e, S \cup T))
             = Cardinality(TicketsIn(st, e, S)) + Cardinality(TicketsIn(st, e, T))
<1> DEFINE A == TicketsIn(st, e, S)
           B == TicketsIn(st, e, T)
<1>1. TicketsIn(st, e, S \cup T) = A \cup B
    BY DEF TicketsIn
<1>2. A \cap B = {}
    BY DEF TicketsIn
<1>3. /\ IsFiniteSet(A) /\ Cardinality(A) \in Nat
      /\ IsFiniteSet(B) /\ Cardinality(B) \in Nat
    BY TicketsInFinite
<1> HIDE DEF A, B
<1>4. Cardinality(A \cup B) = Cardinality(A) + Cardinality(B) - Cardinality(A \cap B)
    BY <1>3, FS_Union
<1>5. Cardinality(A \cap B) = 0
    BY <1>2, FS_EmptySet
<1>6. Cardinality(A \cup B) = Cardinality(A) + Cardinality(B)
    BY <1>3, <1>4, <1>5
<1> QED BY <1>1, <1>6, Zenon DEF A, B

\* Reservation r goes over to status s, and nothing else changes.
Changes(st, st2, r, s) ==
    st \in [ResId -> Status] /\ r \in ResId /\ st2 = [st EXCEPT ![r] = s]

\* A reservation that changes its status, but neither into S nor out of S, or
\* that is for another event, leaves the tickets in S as they are.
LEMMA TicketsInSame ==
    ASSUME NEW st, NEW st2, NEW r, NEW s, NEW e, NEW S, Changes(st, st2, r, s),
           Request[r].event # e \/ (st[r] \in S <=> s \in S)
    PROVE  TicketsIn(st2, e, S) = TicketsIn(st, e, S)
BY DEF Changes, TicketsIn

\* A reservation that enters S brings its tickets.
LEMMA TicketsInEnter ==
    ASSUME NEW st, NEW st2, NEW r, NEW s, NEW S, Changes(st, st2, r, s),
           st[r] \notin S, s \in S
    PROVE  Cardinality(TicketsIn(st2, Request[r].event, S))
             = Cardinality(TicketsIn(st, Request[r].event, S)) + Request[r].quantity
<1> DEFINE Old == TicketsIn(st, Request[r].event, S)
<1>0. /\ r \in ResId /\ st2[r] = s /\ \A q \in ResId \ {r} : st2[q] = st[q]
      /\ \A q \in ResId : 1..Request[q].quantity \subseteq 1..MaxQty
    BY TicketsOfCard, TicketsAssumption DEF Changes
<1>1. TicketsIn(st2, Request[r].event, S) = Old \cup TicketsOf(r)
    BY <1>0 DEF TicketsIn, TicketsOf
<1>2. Old \cap TicketsOf(r) = {}
    BY DEF Changes, TicketsIn, TicketsOf
<1>3. IsFiniteSet(Old) /\ Cardinality(Old) \in Nat
    BY TicketsInFinite
<1>4. /\ IsFiniteSet(TicketsOf(r)) /\ Cardinality(TicketsOf(r)) = Request[r].quantity
      /\ Request[r].quantity \in Nat
    BY TicketsOfCard, TicketsAssumption DEF Changes
<1> HIDE DEF Old
<1>5. Cardinality(Old \cup TicketsOf(r))
        = Cardinality(Old) + Cardinality(TicketsOf(r)) - Cardinality(Old \cap TicketsOf(r))
    BY <1>3, <1>4, FS_Union
<1>6. Cardinality(Old \cap TicketsOf(r)) = 0
    BY <1>2, FS_EmptySet
<1>7. Cardinality(Old \cup TicketsOf(r)) = Cardinality(Old) + Request[r].quantity
    BY <1>3, <1>4, <1>5, <1>6
<1> QED BY <1>1, <1>7, Zenon DEF Old

\* A reservation that leaves S takes its tickets along.
LEMMA TicketsInLeave ==
    ASSUME NEW st, NEW st2, NEW r, NEW s, NEW S, Changes(st, st2, r, s),
           st[r] \in S, s \notin S
    PROVE  Cardinality(TicketsIn(st2, Request[r].event, S))
             = Cardinality(TicketsIn(st, Request[r].event, S)) - Request[r].quantity
<1> DEFINE Old == TicketsIn(st, Request[r].event, S)
<1>0. /\ r \in ResId /\ st2[r] = s /\ \A q \in ResId \ {r} : st2[q] = st[q]
      /\ \A q \in ResId : 1..Request[q].quantity \subseteq 1..MaxQty
    BY TicketsOfCard, TicketsAssumption DEF Changes
<1>1. TicketsIn(st2, Request[r].event, S) = Old \ TicketsOf(r)
    BY <1>0 DEF TicketsIn, TicketsOf
<1>2. Old \cap TicketsOf(r) = TicketsOf(r)
    BY <1>0 DEF TicketsIn, TicketsOf
<1>3. Cardinality(Old \ TicketsOf(r)) = Cardinality(Old) - Cardinality(Old \cap TicketsOf(r))
    BY TicketsInFinite, FS_Difference
<1> HIDE DEF Old
<1> QED BY <1>0, <1>1, <1>2, <1>3, TicketsOfCard DEF Old

\* The tickets of event e held, and those sold, under the status function st.
Held(st, e) == Cardinality(TicketsIn(st, e, {"PENDING"}))
Sold(st, e) == Cardinality(TicketsIn(st, e, {"CONFIRMED"}))

\* The three moves of a reservation (created, confirmed, released) and the
\* tickets they move.  Other events are not concerned.
LEMMA TicketsMove ==
    ASSUME NEW st, NEW st2, NEW r, NEW s, Changes(st, st2, r, s)
    PROVE  /\ \A f \in EventId \ {Request[r].event} :
                 Held(st2, f) = Held(st, f) /\ Sold(st2, f) = Sold(st, f)
           /\ st[r] = Absent /\ s = "PENDING" =>
                 /\ Held(st2, Request[r].event) = Held(st, Request[r].event) + Request[r].quantity
                 /\ Sold(st2, Request[r].event) = Sold(st, Request[r].event)
           /\ st[r] = "PENDING" /\ s = "CONFIRMED" =>
                 /\ Held(st2, Request[r].event) = Held(st, Request[r].event) - Request[r].quantity
                 /\ Sold(st2, Request[r].event) = Sold(st, Request[r].event) + Request[r].quantity
           /\ st[r] = "PENDING" /\ s \in Released =>
                 /\ Held(st2, Request[r].event) = Held(st, Request[r].event) - Request[r].quantity
                 /\ Sold(st2, Request[r].event) = Sold(st, Request[r].event)
<1> DEFINE e == Request[r].event
           n == Request[r].quantity
<1>1. \A f \in EventId \ {e} : \A S : TicketsIn(st2, f, S) = TicketsIn(st, f, S)
    BY TicketsInSame
<1>2. ASSUME NEW S, st[r] \in S <=> s \in S PROVE TicketsIn(st2, e, S) = TicketsIn(st, e, S)
    BY <1>2, TicketsInSame
<1>3. ASSUME NEW S, st[r] \notin S, s \in S
      PROVE  Cardinality(TicketsIn(st2, e, S)) = Cardinality(TicketsIn(st, e, S)) + n
    BY <1>3, TicketsInEnter
<1>4. ASSUME NEW S, st[r] \in S, s \notin S
      PROVE  Cardinality(TicketsIn(st2, e, S)) = Cardinality(TicketsIn(st, e, S)) - n
    BY <1>4, TicketsInLeave
<1> HIDE DEF e, n
<1>5. ASSUME st[r] = Absent, s = "PENDING"
      PROVE  Held(st2, e) = Held(st, e) + n /\ Sold(st2, e) = Sold(st, e)
    <2>1. /\ st[r] \notin {"PENDING"} /\ s \in {"PENDING"}
          /\ st[r] \notin {"CONFIRMED"} /\ s \notin {"CONFIRMED"}
        BY <1>5 DEF Absent
    <2> QED BY <1>2, <1>3, <2>1 DEF Held, Sold
<1>6. ASSUME st[r] = "PENDING", s = "CONFIRMED"
      PROVE  Held(st2, e) = Held(st, e) - n /\ Sold(st2, e) = Sold(st, e) + n
    <2>1. /\ st[r] \in {"PENDING"} /\ s \notin {"PENDING"}
          /\ st[r] \notin {"CONFIRMED"} /\ s \in {"CONFIRMED"}
        BY <1>6
    <2> QED BY <1>3, <1>4, <2>1 DEF Held, Sold
<1>7. ASSUME st[r] = "PENDING", s \in Released
      PROVE  Held(st2, e) = Held(st, e) - n /\ Sold(st2, e) = Sold(st, e)
    <2>1. /\ st[r] \in {"PENDING"} /\ s \notin {"PENDING"}
          /\ st[r] \notin {"CONFIRMED"} /\ s \notin {"CONFIRMED"}
        BY <1>7 DEF Released
    <2> QED BY <1>2, <1>4, <2>1 DEF Held, Sold
<1>8. \A f \in EventId \ {e} : Held(st2, f) = Held(st, f) /\ Sold(st2, f) = Sold(st, f)
    BY <1>1 DEF Held, Sold
<1> QED BY <1>5, <1>6, <1>7, <1>8 DEF e, n
=============================================================================
