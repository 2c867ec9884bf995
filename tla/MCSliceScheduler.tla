--------------------------- MODULE MCSliceScheduler ---------------------------
(* Small instances of SliceScheduler.                                      *)
EXTENDS SliceScheduler

\* Five shares in one minute: one slice by its interval, two by the liquidity
\* check, and a share left over.  Three in half a minute: a single slice, at
\* the largest size.
MCOrders == {[qty |-> 5, seconds |-> 60, interval |-> 60, cap |-> 3],
             [qty |-> 3, seconds |-> 30, interval |-> 60, cap |-> 3]}
===============================================================================
