------------------------------ MODULE MCQuotes ------------------------------
(***************************************************************************)
(* Quotes for TLC: one to three runners over two categories that share a   *)
(* nearly full local tier, before and after a change of the tiers on sale, *)
(* with every kind of coupon, as a preview and as an order, on two race    *)
(* days around the runners' birthdays.                                     *)
(***************************************************************************)
EXTENDS Quotes

Tier(id, audience, price, sort, quota, sold) ==
  [id |-> id, audience |-> audience, price |-> price, sort |-> sort, saleStartsAt |-> Null,
   saleEndsAt |-> Null, quota |-> quota, used |-> sold, reserved |-> 0]

Shared  == Tier(1, "LOCAL", 2, 0, 3, 1)
TiersOf ==
  [A |-> <<Shared, Tier(2, "ALL", 5, 1, Null, 0), Tier(3, "ALL", 5, 0, 1, 0),
           Tier(4, "ALL", 5, 1, Null, 0)>>,
   B |-> <<Shared, [Tier(5, "ALL", 0, 0, Null, 0) EXCEPT !.saleEndsAt = 2],
           [Tier(6, "ALL", 7, 0, 1, 0) EXCEPT !.saleStartsAt = 2]>>]

Date(y, m, d) == [y |-> y, m |-> m, d |-> d]
Person(local, cat, birth) == [local |-> local, cat |-> cat, birth |-> birth]

People == {Person(TRUE, "A", Date(2008, 2, 28)), Person(FALSE, "A", Date(2008, 2, 29)),
           Person(TRUE, "B", Date(2009, 3, 1)), Person(FALSE, "B", Date(1990, 1, 1))}

Coupons == {Null} \cup {[kind |-> k, value |-> v] : k \in {"PERCENT", "AMOUNT"}, v \in {10, 60}}
                  \cup {[kind |-> "WAIVER", value |-> 0]}

MCInputs ==
  {[runners |-> rs, tiers |-> TiersOf, minAge |-> [A |-> 18, B |-> 17], race |-> race, now |-> t,
    coupon |-> c, open |-> {4, 6, 8, 9, 10}, maxCents |-> 3, preview |-> p] :
     rs \in UNION {[1 .. n -> People] : n \in 1 .. 3},
     race \in {Date(2026, 2, 28), Date(2026, 3, 1)}, t \in {1, 2}, c \in Coupons, p \in BOOLEAN}
=============================================================================
