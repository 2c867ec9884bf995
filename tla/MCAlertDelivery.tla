---------------------------- MODULE MCAlertDelivery ----------------------------
(* A small instance of AlertDelivery.                                      *)
EXTENDS AlertDelivery
===============================================================================
