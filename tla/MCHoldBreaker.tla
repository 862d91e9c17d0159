----------------------------- MODULE MCHoldBreaker -----------------------------
(***************************************************************************)
(* HoldBreaker for TLC: three goroutines, a breaker that opens after two   *)
(* failures, an operation of one tick and a cooldown of two.               *)
(***************************************************************************)
EXTENDS HoldBreaker, TLC

Callers == Permutations(Caller)
=============================================================================
