------------------------ MODULE MCOrphanReconciliation ------------------------
(* A small instance of OrphanReconciliation.                               *)
EXTENDS OrphanReconciliation
===============================================================================
