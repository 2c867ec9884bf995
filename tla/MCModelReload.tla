---------------------------- MODULE MCModelReload -----------------------------
(* An instance of ModelReload for TLC.                                     *)
EXTENDS ModelReload
===============================================================================
