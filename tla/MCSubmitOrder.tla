---------------------------- MODULE MCSubmitOrder ----------------------------
(***************************************************************************)
(* Model-checking instance of SubmitOrder: requests are interchangeable.   *)
(***************************************************************************)
EXTENDS SubmitOrder, TLC

BuyOnly == {1, 2}
BuyAndSell == {-2, 2}

RequestSymmetry == Permutations(Requests)
=============================================================================
