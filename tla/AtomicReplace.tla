---------------------------- MODULE AtomicReplace -----------------------------
(***************************************************************************)
(* What PATCH /api/v1/orders/{client_order_id} promises for one order: a   *)
(* modification, named by its idempotency key, either takes effect at the  *)
(* broker and is reported as done, or is reported as failed and never      *)
(* takes effect.  An order is replaced at most once, and an answer, once   *)
(* given, stands.                                                          *)
(***************************************************************************)
CONSTANT Keys       \* idempotency keys

VARIABLES
    effect,         \* modifications that took effect
    outcome         \* what is reported for each key

Outcomes == {"open", "done", "failed"}

Init ==
    /\ effect = {}
    /\ outcome = [k \in Keys |-> "open"]

Apply(k) ==
    /\ effect = {}
    /\ outcome[k] = "open"
    /\ effect' = {k}
    /\ UNCHANGED outcome

Succeed(k) ==
    /\ k \in effect
    /\ outcome[k] = "open"
    /\ outcome' = [outcome EXCEPT ![k] = "done"]
    /\ UNCHANGED effect

Refuse(k) ==
    /\ k \notin effect
    /\ outcome[k] = "open"
    /\ outcome' = [outcome EXCEPT ![k] = "failed"]
    /\ UNCHANGED effect

Next == \E k \in Keys : Apply(k) \/ Succeed(k) \/ Refuse(k)

Spec == Init /\ [][Next]_<<effect, outcome>>
===============================================================================
