------------------------------- MODULE TwapPlan -------------------------------
(***************************************************************************)
(* The arithmetic of TWAPSlicer.plan (apps/execution_gateway/              *)
(* order_slicer.py): how many slices an order is cut into, how far apart   *)
(* they are, and how many shares each gets.  An order is a record          *)
(* [qty, seconds, interval, cap]: shares, duration, requested interval,    *)
(* and the largest slice the liquidity check allows.                       *)
(***************************************************************************)
EXTENDS Integers, FiniteSets

Order == [qty : Nat \ {0}, seconds : Nat \ {0}, interval : Nat \ {0}, cap : Nat \ {0}]

CeilDiv(a, b) == (a + b - 1) \div b

AtLeast(m, n) == IF m < n THEN n ELSE m

\* Mutant: the slice count is rounded down.
NumSlicesFloor(o) ==
    AtLeast(AtLeast(1, o.seconds \div o.interval), AtLeast(1, o.qty \div o.cap))

\* num_slices: from the interval, raised by the liquidity constraint.
NumSlices(o) ==
    AtLeast(AtLeast(1, CeilDiv(o.seconds, o.interval)), AtLeast(1, CeilDiv(o.qty, o.cap)))

\* effective_interval_seconds: shortened when the constraint raised the count.
Interval(o) ==
    IF NumSlices(o) > AtLeast(1, CeilDiv(o.seconds, o.interval))
    THEN o.seconds \div (NumSlices(o) - 1)
    ELSE o.interval

\* The ValueErrors of plan: slices closer than a second, or without a share.
Feasible(o) == Interval(o) >= 1 /\ o.qty >= NumSlices(o)

\* slice_qtys: the slices that get one of the remaining shares are sampled
\* by a seed computed from the order.
SliceQtys(o) ==
    LET n == NumSlices(o)
    IN {[i \in 0 .. n - 1 |-> o.qty \div n + (IF i \in extra THEN 1 ELSE 0)] :
            extra \in {e \in SUBSET (0 .. n - 1) : Cardinality(e) = o.qty % n}}
===============================================================================
