------------------------------- MODULE Quotes -------------------------------
(***************************************************************************)
(* pricing.Quote, one loop turn at a time: every participant scans the     *)
(* tiers of the category and keeps the cheapest one open, the coupon is    *)
(* applied, the identification offset is searched, and the discount is     *)
(* spread over the participants.  RegOrders uses the results of these      *)
(* loops (SelectTier, PickIdentOffset) in one step; here they are run.     *)
(***************************************************************************)
EXTENDS Pricing

CONSTANT Inputs  \* the quotes asked for: the runners, and the rows Quote reads

TierRow ==
  [id : Int, audience : {"ALL", "LOCAL"}, price : Nat, sort : Int, saleStartsAt : Int \cup {Null},
   saleEndsAt : Int \cup {Null}, quota : Nat \cup {Null}, used : Nat, reserved : Nat]

Calendar == [y : Int, m : Int, d : Int]

(* No price is negative (price_rules, a CHECK), and a category lists a     *)
(* price rule once (category_price_rules, its primary key).  A category    *)
(* that cannot be entered has no tiers: either way its runners fail.       *)
ASSUME InputRows ==
  /\ Null \notin TierRow
  /\ \A q \in Inputs :
       /\ q.tiers \in [DOMAIN q.tiers -> Seq(TierRow)]
       /\ \A k \in DOMAIN q.tiers : \A i, j \in DOMAIN q.tiers[k] :
            q.tiers[k][i].id = q.tiers[k][j].id => i = j
       /\ q.runners \in Seq([local : BOOLEAN, cat : DOMAIN q.tiers, birth : Calendar])
       /\ q.race \in Calendar
       /\ q.coupon # Null => q.coupon.value \in Int
       /\ q.minAge \in [DOMAIN q.tiers -> Int]
       /\ q.maxCents \in Int /\ q.preview \in BOOLEAN

VARIABLES
  in,      \* the input
  step,    \* tiers, offset, share, cents, then done or refused
  pos,     \* the participant whose tier is being chosen
  cur,     \* the candidate, offset or leftover cent the running loop is at
  best,    \* the best tier so far of this participant; Null for none
  taken,   \* seats this order has taken of each tier
  picked,  \* the tiers of the participants so far
  failed,  \* some participant is too young or has no tier
  offset,
  paid

vars == <<in, step, pos, cur, best, taken, picked, failed, offset, paid>>

Runner == in.runners[pos]
Cands  == in.tiers[Runner.cat]   \* ordered by id
Prices == [i \in DOMAIN picked |-> picked[i].price]
List   == Total(Prices)
After  == List - (IF in.coupon = Null THEN 0
                  ELSE CouponDiscount(in.coupon.kind, in.coupon.value, List))
Amount == After - offset
Limit  == Least(Least(in.maxCents, IdentOffsetCap), After - 1)

Init ==
  /\ in \in Inputs
  /\ step = "tiers" /\ pos = 1 /\ cur = 1
  /\ best = Null
  /\ taken = [id \in UNION {{in.tiers[k][i].id : i \in DOMAIN in.tiers[k]} : k \in DOMAIN in.tiers} |-> 0]
  /\ picked = <<>>
  /\ failed = FALSE
  /\ offset = 0
  /\ paid = <<>>

-----------------------------------------------------------------------------
ScanTier_LastWins ==
  /\ step = "tiers" /\ pos <= Len(in.runners) /\ cur <= Len(Cands)
  /\ best' = IF TierOpen(Cands[cur], Runner.local, in.now, taken[Cands[cur].id])
                /\ (best # Null => Cands[cur].price <= best.price)
             THEN Cands[cur] ELSE best
  /\ cur' = cur + 1
  /\ UNCHANGED <<in, step, pos, taken, picked, failed, offset, paid>>

ScanTier ==
  /\ step = "tiers" /\ pos <= Len(in.runners) /\ cur <= Len(Cands)
  /\ best' = IF TierOpen(Cands[cur], Runner.local, in.now, taken[Cands[cur].id])
                /\ (best # Null => TierLess(Cands[cur], best))
             THEN Cands[cur] ELSE best
  /\ cur' = cur + 1
  /\ UNCHANGED <<in, step, pos, taken, picked, failed, offset, paid>>

(* The participant's tier is settled; a failure is noted and the loop goes *)
(* on, so that every field error is reported at once.                      *)
TakeTier ==
  /\ step = "tiers" /\ pos <= Len(in.runners) /\ cur > Len(Cands)
  /\ failed' = (failed \/ best = Null \/ AgeOn(Runner.birth, in.race) < in.minAge[Runner.cat])
  /\ IF best = Null THEN UNCHANGED <<taken, picked>>
     ELSE /\ taken' = [taken EXCEPT ![best.id] = @ + 1]
          /\ picked' = Append(picked, best)
  /\ pos' = pos + 1 /\ cur' = 1 /\ best' = Null
  /\ UNCHANGED <<in, step, offset, paid>>

(* A preview has no payment account and picks no offset.                   *)
EndTiers ==
  /\ step = "tiers" /\ pos > Len(in.runners)
  /\ step' = IF failed THEN "refused"
             ELSE IF in.preview \/ After = 0 THEN "share" ELSE "offset"
  /\ UNCHANGED <<in, pos, cur, best, taken, picked, failed, offset, paid>>

TryOffset_LeavesNothing ==
  /\ step = "offset"
  /\ IF cur <= Least(in.maxCents, IdentOffsetCap) /\ After - cur \in in.open
     THEN cur' = cur + 1 /\ UNCHANGED <<step, offset>>
     ELSE /\ offset' = IF cur <= Least(in.maxCents, IdentOffsetCap) THEN cur ELSE 0
          /\ step' = "share" /\ cur' = cur
  /\ UNCHANGED <<in, pos, best, taken, picked, failed, paid>>

TryOffset ==
  /\ step = "offset"
  /\ IF cur <= Limit /\ After - cur \in in.open
     THEN cur' = cur + 1 /\ UNCHANGED <<step, offset>>
     ELSE /\ offset' = IF cur <= Limit THEN cur ELSE 0
          /\ step' = "share" /\ cur' = cur
  /\ UNCHANGED <<in, pos, best, taken, picked, failed, paid>>

-----------------------------------------------------------------------------
(* Allocate *)

Discount == Least(Greatest(List - Amount, 0), List)
Share(i) == (Discount * Prices[i]) \div List
Rem(i)   == (Discount * Prices[i]) % List
LeftOver == Discount - Total([i \in DOMAIN Prices |-> Share(i)])

(* The place of a participant after the stable sort by remainder.          *)
Place(i) == Cardinality({j \in DOMAIN Prices : Rem(j) > Rem(i) \/ (Rem(j) = Rem(i) /\ j < i)})

Floors ==
  /\ step = "share"
  /\ paid' = [i \in DOMAIN Prices |-> IF List = 0 THEN 0 ELSE Prices[i] - Share(i)]
  /\ step' = IF List = 0 THEN "done" ELSE "cents"
  /\ cur' = 0
  /\ UNCHANGED <<in, pos, best, taken, picked, failed, offset>>

Cent_InOrder ==
  /\ step = "cents"
  /\ IF cur < LeftOver
     THEN paid' = [paid EXCEPT ![cur + 1] = @ - 1] /\ cur' = cur + 1 /\ step' = step
     ELSE step' = "done" /\ UNCHANGED <<paid, cur>>
  /\ UNCHANGED <<in, pos, best, taken, picked, failed, offset>>

Cent ==
  /\ step = "cents"
  /\ IF cur < LeftOver
     THEN /\ paid' = [i \in DOMAIN paid |-> IF Place(i) = cur THEN paid[i] - 1 ELSE paid[i]]
          /\ cur' = cur + 1 /\ step' = step
     ELSE step' = "done" /\ UNCHANGED <<paid, cur>>
  /\ UNCHANGED <<in, pos, best, taken, picked, failed, offset>>

Next == ScanTier \/ TakeTier \/ EndTiers \/ TryOffset \/ Floors \/ Cent

Spec == Init /\ [][Next]_vars

-----------------------------------------------------------------------------
Priced == step \in {"share", "cents", "done"}

(* Every participant of a quote gets the tier SelectTier names: the        *)
(* cheapest open one, once the seats of the participants before are        *)
(* counted.  RegOrders relies on it.                                       *)
TiersAreCheapest ==
  Priced =>
    /\ Len(picked) = Len(in.runners)
    /\ \A i \in DOMAIN picked :
         LET all     == in.tiers[in.runners[i].cat]
             earlier == [id \in DOMAIN taken |-> Cardinality({j \in 1 .. (i - 1) : picked[j].id = id})]
         IN  {picked[i]} = SelectTier({all[j] : j \in DOMAIN all}, in.runners[i].local, in.now, earlier)

(* The offset leaves something to pay, makes the amount differ from every  *)
(* open one, and is the smallest that does; it is 0 only when none does.   *)
OffsetSound ==
  Priced =>
    /\ After > 0 => Amount > 0
    /\ ~in.preview /\ After > 0 =>
         /\ offset = PickIdentOffset(After, in.open, in.maxCents)
         /\ offset > 0 => Amount \notin in.open
         /\ \A n \in 1 .. Limit : (offset = 0 \/ n < offset) => After - n \in in.open

(* What the participants pay adds up to the amount of the order, nobody    *)
(* pays less than nothing or more than the list price, and nobody is a     *)
(* cent or more away from an exact proportional share.                     *)
PaidAddsUp ==
  step = "done" =>
    /\ Total(paid) = Amount
    /\ paid = Allocate(Prices, List - Amount)
    /\ \A i \in DOMAIN paid :
         /\ 0 <= paid[i] /\ paid[i] <= Prices[i]
         /\ List > 0 => /\ paid[i] * List - Prices[i] * Amount < List
                        /\ Prices[i] * Amount - paid[i] * List < List

(* A quote is never given to a runner who has not had the birthdays the    *)
(* chosen category asks for by race day; someone born on 29 February has   *)
(* it on 1 March in other years.                                           *)
Birthday(b, y) == IF b.m = 2 /\ b.d = 29 /\ ~LeapYear(y) THEN <<3, 1>> ELSE <<b.m, b.d>>
Birthdays(b, race) ==
  Cardinality({y \in (b.y + 1) .. race.y :
                 \/ y < race.y
                 \/ Birthday(b, y)[1] < race.m
                 \/ Birthday(b, y)[1] = race.m /\ Birthday(b, y)[2] <= race.d})

AgesChecked ==
  Priced => \A i \in DOMAIN in.runners :
    Birthdays(in.runners[i].birth, in.race) >= in.minAge[in.runners[i].cat]
=============================================================================
