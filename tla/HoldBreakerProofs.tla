--------------------------- MODULE HoldBreakerProofs ---------------------------
(***************************************************************************)
(* The half-open probe is alone, for any number of goroutines, threshold   *)
(* and cooldown longer than the timeout of an operation.                   *)
(*                                                                         *)
(* The reason is a race against the clock: while the breaker is open, every *)
(* operation in flight is at least as old as the running cooldown window   *)
(* (OldOps), because nothing enters without re-arming it.  When the window *)
(* is over, such an operation would have outlived its timeout.             *)
(***************************************************************************)
EXTENDS HoldBreaker, TLAPS

\* A probe in flight keeps the breaker open.
ProbeOpen == \A c \in Caller : pc[c] \in InFlight /\ probe[c] => IsOpen

\* Under an open breaker no operation is younger than the window.
OldOps == IsOpen => \A c \in Caller : pc[c] \in InFlight => rested <= age[c]

IInv == TypeOK /\ ProbeOpen /\ OldOps /\ ProbeAlone

\* Nothing is in flight in the initial state, so every part of the invariant
\* about operations holds there.
LEMMA InitInv == Init => IInv
BY BreakerAssumption
   DEF Init, IInv, TypeOK, ProbeOpen, OldOps, ProbeAlone, InFlight, IsOpen

\* Every step of every goroutine, of Redis and of the clock keeps the four
\* parts of the invariant.
LEMMA NextInv == IInv /\ [Next]_vars => IInv'
<1> SUFFICES ASSUME IInv, [Next]_vars PROVE IInv'
    OBVIOUS
<1> USE BreakerAssumption DEF IInv, InFlight, IsOpen
<1>1. CASE Outage
    BY <1>1 DEF Outage, TypeOK, ProbeOpen, OldOps, ProbeAlone
<1>2. CASE Restart
    BY <1>2 DEF Restart, TypeOK, ProbeOpen, OldOps, ProbeAlone
<1>3. CASE Tick
    <2>1. TypeOK'
        BY <1>3 DEF Tick, TypeOK
    <2>2. OldOps'
        BY <1>3 DEF Tick, TypeOK, OldOps
    <2> QED
        BY <1>3, <2>1, <2>2 DEF Tick, ProbeOpen, ProbeAlone
<1>4. ASSUME NEW c \in Caller, Allow(c) PROVE IInv'
    <2>1. TypeOK'
        BY <1>4 DEF Allow, Enter, TypeOK
    <2>2. ASSUME IsOpen, NEW d \in Caller PROVE pc[d] \notin InFlight
        BY <1>4, <2>2 DEF Allow, TypeOK, OldOps
    <2>3. ProbeOpen'
        BY <1>4 DEF Allow, Enter, TypeOK, ProbeOpen
    <2>4. OldOps'
        BY <1>4, <2>2 DEF Allow, Enter, TypeOK, OldOps
    <2>5. ProbeAlone'
        BY <1>4, <2>2 DEF Allow, Enter, TypeOK, ProbeAlone, ProbeOpen
    <2> QED
        BY <2>1, <2>3, <2>4, <2>5
<1>5. ASSUME NEW c \in Caller, Answer(c) \/ Error(c) PROVE IInv'
    BY <1>5 DEF Answer, Error, TypeOK, ProbeOpen, OldOps, ProbeAlone
<1>6. ASSUME NEW c \in Caller, Success(c) PROVE IInv'
    <2>1. TypeOK' /\ OldOps'
        BY <1>6 DEF Success, TypeOK, OldOps
    <2>2. ProbeOpen'
        \* Had another probe been in flight, c would have been that probe.
        BY <1>6 DEF Success, TypeOK, ProbeOpen, ProbeAlone
    <2> QED
        BY <1>6, <2>1, <2>2 DEF Success, TypeOK, ProbeAlone
<1>7. ASSUME NEW c \in Caller, Failure(c) PROVE IInv'
    <2>1. TypeOK'
        BY <1>7 DEF Failure, TypeOK
    <2>2. ProbeOpen' /\ OldOps'
        BY <1>7 DEF Failure, TypeOK, ProbeOpen, OldOps
    <2> QED
        BY <1>7, <2>1, <2>2 DEF Failure, TypeOK, ProbeAlone
<1>8. CASE UNCHANGED vars
    BY <1>8 DEF vars, TypeOK, ProbeOpen, OldOps, ProbeAlone
<1> QED
    BY <1>1, <1>2, <1>3, <1>4, <1>5, <1>6, <1>7, <1>8 DEF Next, Step

\* The invariant holds throughout (holds.go breaker).
THEOREM Invariance == Spec => []IInv
BY InitInv, NextInv, PTL DEF Spec

\* The half-open probe reaches Redis alone, whatever operations overlap with the
\* opening of the breaker (holds.go allow, success, failure).
THEOREM ProbesAreAlone == Spec => []ProbeAlone
<1>1. IInv => ProbeAlone
    BY DEF IInv
<1> QED
    BY <1>1, Invariance, PTL

\* Types: the breaker's count, window and operations stay in their ranges, the
\* count among them capped one past the threshold (holds.go breaker).
THEOREM TypeCorrect == Spec => []TypeOK
<1>1. IInv => TypeOK
    BY DEF IInv
<1> QED
    BY <1>1, Invariance, PTL
=============================================================================
