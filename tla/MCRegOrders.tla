---------------------------- MODULE MCRegOrders ----------------------------
(***************************************************************************)
(* Instances of RegOrders for TLC.  Each configuration picks the rows its  *)
(* question needs; everything else is a single fixed row.                  *)
(***************************************************************************)
EXTENDS RegOrdersProperties, TLC

CONSTANTS p1, p2, c1, c2, k1

Row(aud, cents, cats, quota) ==
  [audience |-> aud, price |-> cents, cats |-> cats, quota |-> quota,
   saleStartsAt |-> Null, saleEndsAt |-> Null, sort |-> 0]

CouponOf(kind, value, quota) ==
  [kind |-> kind, value |-> value, quota |-> quota, minRunners |-> 1,
   validFrom |-> Null, validUntil |-> Null, active |-> TRUE]

Always == [opensAt |-> Null, closesAt |-> Null]
UntilOne == [opensAt |-> Null, closesAt |-> 1]

MCWindows   == {Always}
MCClosing   == {Always, UntilOne}
MCEligible  == {p1, p2} \X {c1, c2}
MCNothing   == [x \in {} |-> {}]

(* Proofs, bank transactions and, where every person may do the same and   *)
(* no buyer is singled out, orders and persons are interchangeable.        *)
PaySymmetry  == Permutations(Proof) \cup Permutations(Txn)
SeatSymmetry == Permutations(Order) \cup Permutations(Person)

(* Seats: a last place in c1, a cheap local tier staff resize between one  *)
(* seat and two, and a two-cent coupon, good for one order, that staff may *)
(* withdraw: it makes a local order free and leaves others to pay.         *)
SeatCapacity == c1 :> 1 @@ c2 :> 2
SeatTiers    == 1 :> {Row("LOCAL", 2, {c1, c2}, 1), Row("LOCAL", 2, {c1, c2}, 2)}
                  @@ 2 :> {Row("ALL", 3, {c1, c2}, Null)}
SeatCoupons  == k1 :> {CouponOf("AMOUNT", 2, 1), CouponOf("AMOUNT", 2, 0)}

(* Payments: two cents, or one once the cheaper tier is on sale, so that   *)
(* the identification offsets run out.                                     *)
PayCapacity == c1 :> 2
PayTiers    == 1 :> {Row("ALL", 2, {c1}, Null)}
                 @@ 2 :> {[Row("ALL", 1, {c1}, Null) EXCEPT !.saleStartsAt = 1]}
PayEligible == {p1, p2} \X {c1}

(* Deadlines: one tier. *)
LateTiers   == 1 :> {Row("ALL", 3, {c1}, Null)}
=============================================================================
