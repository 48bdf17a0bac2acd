-------------------------- MODULE MCCircuitBreaker --------------------------
(* Instance of CircuitBreaker for TLC: callers are interchangeable. *)
EXTENDS CircuitBreaker, TLC

CONSTANTS c1, c2

Symmetry == Permutations(Callers)
=============================================================================
