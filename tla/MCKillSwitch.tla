----------------------------- MODULE MCKillSwitch -----------------------------
(* A small instance of KillSwitch.                                         *)
EXTENDS KillSwitch
=============================================================================
