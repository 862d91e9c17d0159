------------------------------ MODULE MCEventBus ------------------------------
(* Instances of EventBus for TLC. *)
EXTENDS EventBus

\* redeliveryDelay: quick first retries, then backing off.
Pacing == [n \in 1..MaxDeliver |-> IF n = 1 THEN 1 ELSE 2]
=============================================================================
