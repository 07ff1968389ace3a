----------------------------- MODULE MCMexcReads -----------------------------
(* Small instance of MexcReads for TLC. *)
EXTENDS MexcReads, TLC

CONSTANTS r1, r2

SomeDeals == {[id |-> i, at |-> i] : i \in 1 .. 5}

Stop(id, at, price, type, side, orders, created) ==
  [id |-> id, at |-> at, price |-> price, type |-> type, side |-> side, orders |-> orders,
   created |-> created]
\* Without a price, of the other side, a take profit, of an unknown time, with the opening
\* order but late, plain, and after the end of a position.
SomeStops ==
  {Stop(1, 1, None, 1, 0, {}, 1), Stop(2, 2, 90, 2, 0, {}, 2), Stop(3, 2, 90, 1, 1, {}, 2),
   Stop(4, 2, 80, None, None, {}, None), Stop(5, 4, 70, 1, 2, {"opening"}, 4),
   Stop(6, 3, 60, 1, 0, {"other"}, 3), Stop(7, 5, 50, 1, 2, {}, 0), Stop(8, 1, 0, 1, 0, {}, 1)}
SomePositions ==
  {[opened |-> 2, closed |-> 4, type |-> 1, opening |-> "opening"],
   [opened |-> 3, closed |-> None, type |-> 1, opening |-> None],
   [opened |-> 2, closed |-> 2, type |-> 2, opening |-> "opening"]}

Symmetry == Permutations(Requests)
=============================================================================
