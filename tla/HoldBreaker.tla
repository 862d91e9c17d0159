------------------------------ MODULE HoldBreaker ------------------------------
(***************************************************************************)
(* The circuit breaker of the Redis hold store (internal/holds/holds.go),  *)
(* shared by the goroutines of one process.  Set, Release and Exists all   *)
(* run the same protocol: ask allow, go to Redis for at most opTimeout,    *)
(* then report failure or success.  Each call takes the mutex on its own,  *)
(* so operations overlap between allow and their report.                   *)
(*                                                                         *)
(* Time is counted in ticks: the age of each operation and the time since  *)
(* openedAt, up to the cooldown, where more makes no difference.  The      *)
(* failure count stops one past the threshold for the same reason.         *)
(***************************************************************************)
EXTENDS Naturals

CONSTANTS
    Caller,     \* goroutines that use the store
    Threshold,  \* failureThreshold
    Cooldown,   \* cooldown, in ticks
    OpTimeout   \* opTimeout, in ticks

\* 200ms against 30s.
ASSUME BreakerAssumption ==
    /\ Threshold \in Nat \ {0}
    /\ OpTimeout \in Nat
    /\ Cooldown \in Nat
    /\ OpTimeout < Cooldown

VARIABLES
    failures,   \* consecutive failures
    rested,     \* time since openedAt
    pc,         \* where each caller is
    age,        \* how long its operation has been in Redis
    probe,      \* whether allow let it through an open breaker
    up          \* whether Redis answers

vars == <<failures, rested, pc, age, probe, up>>

IsOpen == failures >= Threshold

\* Between allow and the report of the outcome.
InFlight == {"redis", "ok", "err"}

TypeOK ==
    /\ failures \in 0..Threshold + 1
    /\ rested \in 0..Cooldown
    /\ pc \in [Caller -> InFlight \cup {"idle"}]
    /\ age \in [Caller -> 0..OpTimeout]
    /\ probe \in [Caller -> BOOLEAN]
    /\ up \in BOOLEAN

Init ==
    /\ failures = 0
    /\ rested = 0
    /\ pc = [c \in Caller |-> "idle"]
    /\ age = [c \in Caller |-> 0]
    /\ probe = [c \in Caller |-> FALSE]
    /\ up = TRUE

-----------------------------------------------------------------------------
(* Redis and the clock. *)

Outage == up /\ up' = FALSE /\ UNCHANGED <<failures, rested, pc, age, probe>>

Restart == ~up /\ up' = TRUE /\ UNCHANGED <<failures, rested, pc, age, probe>>

\* Slip: the round trip has no deadline.
TickWithoutDeadline ==
    /\ age' = [c \in Caller |-> IF pc[c] \in InFlight THEN age[c] + 1 ELSE age[c]]
    /\ rested' = IF rested < Cooldown THEN rested + 1 ELSE rested
    /\ UNCHANGED <<failures, pc, probe, up>>

\* The context of an operation ends it before it grows older than opTimeout.
Tick ==
    /\ \A c \in Caller : pc[c] \in InFlight => age[c] < OpTimeout
    /\ age' = [c \in Caller |-> IF pc[c] \in InFlight THEN age[c] + 1 ELSE age[c]]
    /\ rested' = IF rested < Cooldown THEN rested + 1 ELSE rested
    /\ UNCHANGED <<failures, pc, probe, up>>

-----------------------------------------------------------------------------
(* An operation. *)

Enter(c) ==
    /\ pc[c] = "idle"
    /\ pc' = [pc EXCEPT ![c] = "redis"]
    /\ age' = [age EXCEPT ![c] = 0]
    /\ probe' = [probe EXCEPT ![c] = IsOpen]

\* Slip: the probe does not re-arm the window.
AllowWithoutRearm(c) ==
    /\ Enter(c)
    /\ IsOpen => rested >= Cooldown
    /\ UNCHANGED <<failures, rested, up>>

\* allow: an operation that is refused leaves the breaker as it is.  The one
\* that finds the cooldown over re-arms the window.
Allow(c) ==
    /\ Enter(c)
    /\ IsOpen => rested >= Cooldown
    /\ rested' = IF IsOpen THEN 0 ELSE rested
    /\ UNCHANGED <<failures, up>>

\* Redis answers.
Answer(c) ==
    /\ pc[c] = "redis" /\ up
    /\ pc' = [pc EXCEPT ![c] = "ok"]
    /\ UNCHANGED <<failures, rested, age, probe, up>>

\* An error, a timeout or, Redis being up, a cancelled context.
Error(c) ==
    /\ pc[c] = "redis"
    /\ pc' = [pc EXCEPT ![c] = "err"]
    /\ UNCHANGED <<failures, rested, age, probe, up>>

\* Slip: the failure count is not reset.
SuccessKeepingCount(c) ==
    /\ pc[c] = "ok"
    /\ pc' = [pc EXCEPT ![c] = "idle"]
    /\ UNCHANGED <<failures, rested, age, probe, up>>

\* success closes the breaker, whenever the operation was let through.
Success(c) ==
    /\ pc[c] = "ok"
    /\ failures' = 0
    /\ pc' = [pc EXCEPT ![c] = "idle"]
    /\ UNCHANGED <<rested, age, probe, up>>

\* failure: at and past the threshold the window starts again.
Failure(c) ==
    /\ pc[c] = "err"
    /\ failures' = IF failures <= Threshold THEN failures + 1 ELSE failures
    /\ rested' = IF failures + 1 >= Threshold THEN 0 ELSE rested
    /\ pc' = [pc EXCEPT ![c] = "idle"]
    /\ UNCHANGED <<age, probe, up>>

-----------------------------------------------------------------------------
Step(c) == Answer(c) \/ Error(c) \/ Success(c) \/ Failure(c)

Next ==
    \/ Outage \/ Restart \/ Tick
    \/ \E c \in Caller : Allow(c) \/ Step(c)

Spec == Init /\ [][Next]_vars

\* Time passes, the service keeps asking for holds, an operation returns, and
\* a Redis that is up does not fail every operation for ever.
FairSpec ==
    /\ Spec
    /\ WF_vars(Tick)
    /\ WF_vars(\E c \in Caller : Allow(c))
    /\ \A c \in Caller : WF_vars(Step(c)) /\ SF_vars(Answer(c))

-----------------------------------------------------------------------------
(* Properties. *)

\* The half-open probe reaches Redis alone: while it is there nobody else is,
\* neither a second probe nor an operation let through before the breaker
\* opened (holds.go breaker: "it may reach Redis alone").
ProbeAlone ==
    \A c, d \in Caller :
        pc[c] \in InFlight /\ probe[c] /\ pc[d] \in InFlight => c = d

\* The fast path comes back: if Redis stays up from some time on, the breaker
\* does not stay open, whatever failures of the outage are still reported late.
FastPathReturns == <>[]up => []<>~IsOpen
=============================================================================
