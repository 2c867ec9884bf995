------------------------------- MODULE OrderRow -------------------------------
(***************************************************************************)
(* The conflict-resolution columns of one row of the orders table and the  *)
(* two ways to write them (apps/execution_gateway/database.py):            *)
(* update_order_status, which overwrites, and update_order_status_cas,     *)
(* which applies a broker update only when it is newer than the row.       *)
(***************************************************************************)
EXTENDS Integers

Initial == {"pending_new", "dry_run"}
Submitted == {"submitted", "submitted_unconfirmed", "new", "accepted"}
Active == {"pending_cancel", "pending_replace", "calculated", "stopped",
           "suspended", "partially_filled"}
Closed == {"canceled", "expired", "failed", "rejected", "replaced",
           "done_for_day", "blocked_kill_switch", "blocked_circuit_breaker"}

Statuses == Initial \union Submitted \union Active \union Closed \union {"filled"}

\* TERMINAL_STATUSES
Terminal == Closed \union {"filled"}

\* status_rank_for
StatusRank(s) ==
    CASE s \in Initial   -> 1
      [] s \in Submitted -> 2
      [] s \in Active    -> 3
      [] s \in Closed    -> 4
      [] s = "filled"    -> 5
      [] OTHER           -> 0

\* Lower numbers win a tie.
SourceManual == 1
SourceReconciliation == 2
SourceWebhook == 3
Sources == {SourceManual, SourceReconciliation, SourceWebhook}

\* A stamp of 0 stands for a NULL last_updated_at.
Update == [status : Statuses, filled : Nat, stamp : Nat, source : Sources]

GreaterOf(m, n) == IF m < n THEN n ELSE m

\* Mutant: the terminal lock is dropped from the WHERE clause.
CasAcceptsTerminal(r, u) == r.stamp = 0 \/ r.stamp < u.stamp

\* The WHERE clause of update_order_status_cas.
CasAccepts(r, u) ==
    /\ r.status \notin Terminal \/ r.status = "filled"
    /\ \/ r.stamp = 0
       \/ r.stamp < u.stamp
       \/ /\ r.stamp = u.stamp
          /\ \/ StatusRank(r.status) < StatusRank(u.status)
             \/ /\ StatusRank(r.status) = StatusRank(u.status)
                /\ \/ r.filled < u.filled
                   \/ r.filled = u.filled /\ r.source > u.source

\* Mutant: the quantity is assigned instead of taking the GREATEST.
CasWriteAssigned(r, u) == u

\* The SET clause of update_order_status_cas.
CasWrite(r, u) ==
    [status |-> u.status, filled |-> GreaterOf(r.filled, u.filled),
     stamp |-> u.stamp, source |-> u.source]

\* update_order_status_cas: the new row, which is the old one if refused.
Cas(r, u) == IF CasAccepts(r, u) THEN CasWrite(r, u) ELSE r

\* update_order_status(status), called with no quantity at time now.
Overwrite(r, s, now) ==
    [status |-> s, filled |-> r.filled, stamp |-> now, source |-> r.source]
=============================================================================
