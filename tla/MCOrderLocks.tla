---------------------------- MODULE MCOrderLocks ----------------------------
(***************************************************************************)
(* Instances of OrderLocks for TLC.  Ids are ordered, transactions are     *)
(* interchangeable.                                                        *)
(***************************************************************************)
EXTENDS OrderLocks, FiniteSets, TLC

MCRows ==
  [c \in Class |-> IF c \in {"key", "category", "rule"} THEN {0, 1} ELSE {0}]

MCCart ==
  { [person |-> {0, 1}, category |-> {0, 1}, rule |-> {0, 1}, coupon |-> {0}],
    [person |-> {0},    category |-> {1},    rule |-> {0},    coupon |-> {}] }

(* The order with the smaller id takes the category with the larger one. *)
MCOrderCart ==
  0 :> [person |-> {0}, category |-> {1}, rule |-> {0}, coupon |-> {}]
  @@ 1 :> [person |-> {0, 1}, category |-> {0, 1}, rule |-> {0, 1}, coupon |-> {0}]

LockSymmetry == Permutations(Txn)
=============================================================================
