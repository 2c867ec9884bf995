--------------------------- MODULE MCCircuitBreaker ---------------------------
(***************************************************************************)
(* Model-checking instance of CircuitBreaker: the clients are              *)
(* interchangeable.                                                        *)
(***************************************************************************)
EXTENDS CircuitBreaker, TLC

ClientSymmetry == Permutations(Clients)
=============================================================================
