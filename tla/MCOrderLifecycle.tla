--------------------------- MODULE MCOrderLifecycle ---------------------------
(***************************************************************************)
(* Model-checking instance of OrderLifecycle.                              *)
(***************************************************************************)
EXTENDS OrderLifecycle, TLC
=============================================================================
