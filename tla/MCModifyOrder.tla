----------------------------- MODULE MCModifyOrder -----------------------------
(* Small instances of ModifyOrder: a request and its repetition, and two   *)
(* with other keys.                                                        *)
EXTENDS ModifyOrder

CONSTANTS k1, k2, k3, r1, r2, r3, r4

MCKeyOf == [r \in Requests |-> CASE r = r3 -> k2 [] r = r4 -> k3 [] OTHER -> k1]
===============================================================================
