------------------------------ MODULE Pricing ------------------------------
(***************************************************************************)
(* The pure functions of src/api/internal/pricing/quote.go: choosing a     *)
(* price tier, the discount a coupon gives, spreading a discount over the  *)
(* participants of an order, the identification offset that makes open     *)
(* amounts distinct, and a runner's age on race day.                       *)
(*                                                                         *)
(* They are operators over values; the modules that model the transactions *)
(* apply them to rows they read.  A SQL NULL is the constant Null.         *)
(***************************************************************************)
EXTENDS Integers, Sequences, FiniteSets

CONSTANT Null

Least(a, b)    == IF a <= b THEN a ELSE b
Greatest(a, b) == IF a >= b THEN a ELSE b

(* The sum of a sequence of numbers. *)
Total(s) ==
  LET upTo[i \in 0 .. Len(s)] == IF i = 0 THEN 0 ELSE upTo[i - 1] + s[i]
  IN  upTo[Len(s)]

-----------------------------------------------------------------------------
(* Price tiers *)

(* A candidate passes when its audience admits the runner, its sale window *)
(* contains now (a missing end is open), and its quota still has room once *)
(* the seats this order has already taken of it are counted.               *)
TierOpen(c, local, now, takenInOrder) ==
  /\ c.audience = "ALL" \/ (c.audience = "LOCAL" /\ local)
  /\ c.saleStartsAt = Null \/ c.saleStartsAt <= now
  /\ c.saleEndsAt = Null \/ c.saleEndsAt > now
  /\ c.quota = Null \/ c.used + c.reserved + takenInOrder < c.quota

TierLess(a, b) ==
  \/ a.price < b.price
  \/ a.price = b.price /\ a.sort < b.sort
  \/ a.price = b.price /\ a.sort = b.sort /\ a.id < b.id

(* The tier SelectTier returns, as a set with at most one member: the      *)
(* least open candidate.  taken[id] counts the seats of this order.        *)
SelectTier(cands, local, now, taken) ==
  LET open == {c \in cands : TierOpen(c, local, now, taken[c.id])}
  IN  {c \in open : \A d \in open \ {c} : TierLess(c, d)}

-----------------------------------------------------------------------------
(* Discounts *)

CouponDiscount(kind, value, list) ==
  IF list <= 0 THEN 0
  ELSE CASE kind = "PERCENT" -> (list * Least(Greatest(value, 0), 100)) \div 100
         [] kind = "AMOUNT"  -> Least(Greatest(value, 0), list)
         [] kind = "WAIVER"  -> list
         [] OTHER            -> 0

(* What each participant pays once a discount is spread by list price:     *)
(* floors first, then one cent each in decreasing order of the dropped     *)
(* remainders (the sort is stable, so ties go to the earlier participant). *)
Allocate(prices, discount) ==
  LET total    == Total(prices)
      d        == Least(Greatest(discount, 0), total)
      share    == [i \in DOMAIN prices |-> (d * prices[i]) \div total]
      rem      == [i \in DOMAIN prices |-> (d * prices[i]) % total]
      left     == d - Total(share)
      ahead(i) == {j \in DOMAIN prices : rem[j] > rem[i] \/ (rem[j] = rem[i] /\ j < i)}
  IN  IF total <= 0
        THEN [i \in DOMAIN prices |-> 0]
        ELSE [i \in DOMAIN prices |->
                prices[i] - share[i] - (IF Cardinality(ahead(i)) < left THEN 1 ELSE 0)]

(* The smallest number of cents that moves the amount off every amount in  *)
(* taken; 0 when there is none within the configured and the hard limit.   *)
IdentOffsetCap == 50

PickIdentOffset(after, taken, maxCents) ==
  LET limit == Least(Least(maxCents, IdentOffsetCap), after - 1)
      free  == {n \in 1 .. limit : after - n \notin taken}
  IN  IF free = {} THEN 0 ELSE CHOOSE n \in free : \A m \in free : n <= m

-----------------------------------------------------------------------------
(* Age on race day; dates are records with fields y, m, d. *)

LeapYear(y) == y % 4 = 0 /\ (y % 100 # 0 \/ y % 400 = 0)

AgeOn_MonthOnly(birth, race) ==
  race.y - birth.y - (IF race.m < birth.m THEN 1 ELSE 0)

AgeOn(birth, race) ==
  LET shifted == birth.m = 2 /\ birth.d = 29 /\ ~LeapYear(race.y)
      bm == IF shifted THEN 3 ELSE birth.m
      bd == IF shifted THEN 1 ELSE birth.d
      early == race.m < bm \/ (race.m = bm /\ race.d < bd)
  IN  race.y - birth.y - (IF early THEN 1 ELSE 0)
=============================================================================
