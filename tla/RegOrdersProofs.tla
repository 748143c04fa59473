-------------------------- MODULE RegOrdersProofs --------------------------
(***************************************************************************)
(* Theorems of RegOrders, for every set of orders, people, pools, accounts *)
(* and proofs and every value of the windows and bounds.                   *)
(***************************************************************************)
EXTENDS RegOrdersProperties, FiniteSetTheorems, WellFoundedInduction, TLAPS

-----------------------------------------------------------------------------
(* What the functions of a quote return, for all their arguments.          *)

(* A nonempty set of naturals has a least member: the induction the other  *)
(* lemmas use.                                                             *)
LEMMA LeastMember ==
  ASSUME NEW T \in SUBSET Nat, T # {}
  PROVE  \E n \in T : \A m \in T : n <= m
<1>1. PICK n \in T : \A m \in T : <<m, n>> \notin OpToRel(<, Nat)
  BY WFMin, NatLessThanWellFounded, Zenon
<1>2. \A m \in T : ~(m < n)
  BY <1>1, Zenon DEF OpToRel
<1>. QED
  BY <1>2

(* The prefix sums Total is defined from. *)
IsPrefixSum(g, s, n) == g = [i \in 0 .. n |-> IF i = 0 THEN 0 ELSE g[i - 1] + s[i]]

LEMMA PrefixSumExists ==
  ASSUME NEW s, NEW n \in Nat
  PROVE  \E g : IsPrefixSum(g, s, n)
<1> DEFINE Bad == {m \in Nat : ~ \E g : IsPrefixSum(g, s, m)}
<1>1. SUFFICES ASSUME Bad # {} PROVE FALSE
  OBVIOUS
<1>2. PICK m \in Bad : \A x \in Bad : m <= x
  <2>1. Bad \in SUBSET Nat
    OBVIOUS
  <2>. HIDE DEF Bad
  <2>. QED  BY <1>1, <2>1, LeastMember, Zenon
<1>3. m # 0
  <2>1. IsPrefixSum([i \in 0 .. 0 |-> 0], s, 0)
    BY DEF IsPrefixSum
  <2>. QED  BY <2>1
<1>4. m \in Nat /\ m - 1 \in Nat /\ ~(m <= m - 1)
  BY <1>3
<1>5. PICK g : IsPrefixSum(g, s, m - 1)
  BY <1>2, <1>4
<1>. DEFINE h == [i \in 0 .. m |-> IF i = m THEN g[m - 1] + s[m] ELSE g[i]]
<1>6. IsPrefixSum(h, s, m)
  <2>1. ASSUME NEW i \in 0 .. m
        PROVE  h[i] = IF i = 0 THEN 0 ELSE h[i - 1] + s[i]
    <3>1. CASE i = m
      <4>1. h[i] = g[m - 1] + s[m]
        BY <3>1
      <4>2. m - 1 \in 0 .. m /\ m - 1 # m
        BY <1>4
      <4>3. h[m - 1] = g[m - 1]
        BY <4>2
      <4>. QED  BY <3>1, <4>1, <4>3, <1>3
    <3>2. CASE i # m
      <4>1. i \in 0 .. (m - 1) /\ h[i] = g[i]
        BY <3>2, <1>4
      <4>2. g[i] = IF i = 0 THEN 0 ELSE g[i - 1] + s[i]
        BY <4>1, <1>5 DEF IsPrefixSum
      <4>3. i # 0 => i - 1 \in 0 .. m /\ i - 1 # m
        BY <4>1, <1>4
      <4>4. i # 0 => h[i - 1] = g[i - 1]
        BY <4>3
      <4>. QED  BY <4>1, <4>2, <4>4
    <3>. QED  BY <3>1, <3>2
  <2>2. h = [i \in 0 .. m |-> h[i]]
    OBVIOUS
  <2>. QED
    BY <2>1, <2>2, Zenon DEF IsPrefixSum
<1>. QED
  BY <1>2, <1>6

(* The sum of naturals is a natural. *)
LEMMA TotalType ==
  ASSUME NEW s, Len(s) \in Nat, \A i \in 1 .. Len(s) : s[i] \in Nat
  PROVE  Total(s) \in Nat
<1> DEFINE f == CHOOSE g : IsPrefixSum(g, s, Len(s))
<1>1. IsPrefixSum(f, s, Len(s))
  BY PrefixSumExists, Zenon
<1>2. Total(s) = f[Len(s)]
  BY Zenon DEF Total, IsPrefixSum
<1>. HIDE DEF f
<1>3. \A i \in 0 .. Len(s) : f[i] = IF i = 0 THEN 0 ELSE f[i - 1] + s[i]
  BY <1>1, Zenon DEF IsPrefixSum
<1> DEFINE Bad == {i \in 0 .. Len(s) : f[i] \notin Nat}
<1>4. SUFFICES ASSUME Bad # {} PROVE FALSE
  BY <1>2
<1>5. PICK i \in Bad : \A j \in Bad : i <= j
  <2>1. Bad \in SUBSET Nat
    OBVIOUS
  <2>. HIDE DEF Bad
  <2>. QED  BY <1>4, <2>1, LeastMember, Zenon
<1>6. i # 0
  BY <1>3
<1>7. i - 1 \in 0 .. Len(s) /\ i - 1 \notin Bad /\ s[i] \in Nat
  BY <1>5, <1>6
<1>8. f[i] = f[i - 1] + s[i]
  BY <1>3, <1>5, <1>6
<1>. QED
  BY <1>5, <1>7, <1>8

-----------------------------------------------------------------------------
(* A coupon never takes off more than the list amount.                     *)
THEOREM CouponDiscountBounded ==
  ASSUME NEW kind, NEW value \in Int, NEW total \in Nat
  PROVE  CouponDiscount(kind, value, total) \in 0 .. total
<1>1. CASE total = 0
  BY <1>1 DEF CouponDiscount
<1>2. CASE total > 0
  <2> DEFINE p == Least(Greatest(value, 0), 100)
  <2>1. p \in 0 .. 100
    BY DEF Least, Greatest
  <2>2. (total * p) \div 100 \in 0 .. total
    <3>. HIDE DEF p
    <3>1. total * p \in Nat /\ total * p <= total * 100
      BY <2>1
    <3>. QED  BY <3>1
  <2>3. Least(Greatest(value, 0), total) \in 0 .. total
    BY DEF Least, Greatest
  <2>. QED
    BY <1>2, <2>2, <2>3 DEF CouponDiscount
<1>. QED
  BY <1>1, <1>2

(* A number of cents that may be taken off an amount to identify it. *)
Identifies(n, after, taken, maxCents) ==
  n \in 1 .. IdentOffsetCap /\ n <= maxCents /\ n < after /\ after - n \notin taken

(* The identification offset leaves something to pay and is the smallest   *)
(* number of cents, within the configured and the hard limit, that makes   *)
(* the amount one nobody else is asked for; it is 0 only if there is none. *)
THEOREM PickIdentOffsetSound ==
  ASSUME NEW after \in Nat \ {0}, NEW taken, NEW maxCents \in Int
  PROVE  LET n == PickIdentOffset(after, taken, maxCents)
         IN  /\ n \in 0 .. IdentOffsetCap /\ n < after
             /\ n # 0 => Identifies(n, after, taken, maxCents)
             /\ \A k : Identifies(k, after, taken, maxCents) => n # 0 /\ n <= k
<1> DEFINE limit == Least(Least(maxCents, IdentOffsetCap), after - 1)
           free  == {n \in 1 .. limit : after - n \notin taken}
<1>1. \A k : k \in free <=> Identifies(k, after, taken, maxCents)
  BY DEF Least, IdentOffsetCap, Identifies
<1>2. free \in SUBSET Nat
  BY DEF Least, IdentOffsetCap
<1>3. PickIdentOffset(after, taken, maxCents)
        = IF free = {} THEN 0 ELSE CHOOSE x \in free : \A m \in free : x <= m
  BY Zenon DEF PickIdentOffset
<1> HIDE DEF free
<1>4. CASE free = {}
  <2>1. PickIdentOffset(after, taken, maxCents) = 0
    BY <1>3, <1>4, Zenon
  <2>2. \A k : ~Identifies(k, after, taken, maxCents)
    BY <1>1, <1>4, Zenon
  <2>. QED  BY <2>1, <2>2 DEF IdentOffsetCap
<1>5. CASE free # {}
  <2>1. \E x \in free : \A m \in free : x <= m
    BY <1>2, <1>5, LeastMember, Zenon
  <2>2. PICK n \in free : /\ \A m \in free : n <= m
                          /\ PickIdentOffset(after, taken, maxCents) = n
    BY <1>3, <1>5, <2>1, Zenon
  <2>3. Identifies(n, after, taken, maxCents)
    BY <1>1, <2>2
  <2>4. n \in 1 .. IdentOffsetCap /\ n < after /\ n # 0
    BY <2>3 DEF Identifies, IdentOffsetCap
  <2>5. \A k : Identifies(k, after, taken, maxCents) => n <= k
    BY <1>1, <2>2
  <2>6. n \in 0 .. IdentOffsetCap
    BY <2>4 DEF IdentOffsetCap
  <2>. HIDE DEF limit
  <2>. QED
    BY <2>2, <2>3, <2>4, <2>5, <2>6
<1>. QED
  BY <1>4, <1>5

(* A tier is chosen whenever one is open to the runner, exactly one in     *)
(* whatever order the rows come: it is open, none that is open is cheaper, *)
(* and none as cheap comes before it by sort order and id.                 *)
THEOREM SelectTierBest ==
  ASSUME NEW cands, NEW local, NEW clock, NEW taken,
         \A c \in cands : c.price \in Nat /\ c.sort \in Nat /\ c.id \in Nat,
         \A c, d \in cands : c.id = d.id => c = d
  PROVE  LET open   == {c \in cands : TierOpen(c, local, clock, taken[c.id])}
             chosen == SelectTier(cands, local, clock, taken)
         IN  /\ open = {} => chosen = {}
             /\ open # {} => \E c \in open :
                  /\ chosen = {c}
                  /\ \A d \in open : c.price <= d.price
                  /\ \A d \in open : d.price = c.price =>
                       c.sort < d.sort \/ (c.sort = d.sort /\ c.id <= d.id)
<1>. DEFINE open == {c \in cands : TierOpen(c, local, clock, taken[c.id])}
<1>. DEFINE chosen == SelectTier(cands, local, clock, taken)
<1>. SUFFICES /\ open = {} => chosen = {}
              /\ open # {} => \E c \in open :
                   /\ chosen = {c}
                   /\ \A d \in open : c.price <= d.price
                   /\ \A d \in open : d.price = c.price =>
                        c.sort < d.sort \/ (c.sort = d.sort /\ c.id <= d.id)
  OBVIOUS
<1>1. chosen = {c \in open : \A d \in open \ {c} : TierLess(c, d)}
  BY Zenon DEF SelectTier
<1>2. /\ \A c \in open : c.price \in Nat /\ c.sort \in Nat /\ c.id \in Nat
      /\ \A c, d \in open : c.id = d.id => c = d
  OBVIOUS
<1>. HIDE DEF open, chosen
<1>3. CASE open = {}
  BY <1>1, <1>3
<1>4. CASE open # {}
  <2>. DEFINE Prices == {c.price : c \in open}
  <2>1. PICK p \in Prices : \A q \in Prices : p <= q
    <3>1. Prices \in SUBSET Nat /\ Prices # {}
      BY <1>2, <1>4
    <3>. HIDE DEF Prices
    <3>. QED  BY <3>1, LeastMember, Zenon
  <2>. DEFINE cheap == {c \in open : c.price = p}
              Sorts == {c.sort : c \in cheap}
  <2>2. PICK s \in Sorts : \A t \in Sorts : s <= t
    <3>1. Sorts \in SUBSET Nat /\ Sorts # {}
      BY <1>2, <2>1
    <3>. HIDE DEF Sorts
    <3>. QED  BY <3>1, LeastMember, Zenon
  <2>. DEFINE first == {c \in cheap : c.sort = s}
              Ids == {c.id : c \in first}
  <2>3. PICK i \in Ids : \A j \in Ids : i <= j
    <3>1. Ids \in SUBSET Nat /\ Ids # {}
      BY <1>2, <2>2
    <3>. HIDE DEF Ids
    <3>. QED  BY <3>1, LeastMember, Zenon
  <2>4. PICK c \in open : c.price = p /\ c.sort = s /\ c.id = i
    BY <2>3
  <2>5. ASSUME NEW d \in open
        PROVE  /\ c.price <= d.price
               /\ d.price = c.price => c.sort <= d.sort
               /\ d.price = c.price /\ d.sort = c.sort => c.id <= d.id
    <3>1. c.price <= d.price
      BY <2>1, <2>4
    <3>2. d.price = c.price => c.sort <= d.sort
      BY <2>2, <2>4
    <3>3. d.price = c.price /\ d.sort = c.sort => c.id <= d.id
      BY <2>3, <2>4
    <3>. QED  BY <3>1, <3>2, <3>3
  <2>. HIDE DEF Prices, cheap, Sorts, first, Ids
  <2>6. \A d \in open \ {c} : TierLess(c, d) /\ ~TierLess(d, c)
    <3>. TAKE d \in open \ {c}
    <3>1. c.id # d.id
      BY <1>2, <2>4
    <3>2. /\ c.price \in Nat /\ c.sort \in Nat /\ c.id \in Nat
          /\ d.price \in Nat /\ d.sort \in Nat /\ d.id \in Nat
      BY <1>2, <2>4
    <3>. QED  BY <2>5, <3>1, <3>2 DEF TierLess
  <2>7. chosen = {c}
    BY <1>1, <2>4, <2>6
  <2>8. \A d \in open : /\ c.price <= d.price
                        /\ d.price = c.price =>
                             c.sort < d.sort \/ (c.sort = d.sort /\ c.id <= d.id)
    BY <1>2, <2>4, <2>5
  <2>. QED  BY <1>4, <2>7, <2>8
<1>. QED
  BY <1>3, <1>4

-----------------------------------------------------------------------------
(* Types *)

TypeInv == TypeOK /\ ProofsBelong /\ OrdersPayable

-----------------------------------------------------------------------------
(* Sets of seats are finite. *)

LEMMA SeatSetsFinite ==
  ASSUME NEW S, S \subseteq Order \X (0 .. MaxParticipants)
  PROVE  IsFiniteSet(S) /\ Cardinality(S) \in Nat
<1>1. IsFiniteSet(0 .. MaxParticipants)
  BY FS_Interval, NumbersType
<1>2. IsFiniteSet(Order \X (0 .. MaxParticipants))
  BY <1>1, FS_Product, TablesFinite
<1>3. IsFiniteSet(S)
  BY <1>2, FS_Subset
<1>. QED
  BY <1>3, FS_CardinalityType

LEMMA TakesType ==
  ASSUME NEW ps \in PartLists \cup {NoParts}, NEW c, NEW k
  PROVE  /\ Takes(ps, c, k) \subseteq 0 .. MaxParticipants
         /\ Cardinality(Takes(ps, c, k)) \in Nat
<1>1. DOMAIN ps \subseteq 1 .. MaxParticipants
  BY NumbersType DEF PartLists, NoParts
<1>2. Takes(ps, c, k) \subseteq 0 .. MaxParticipants
  BY <1>1, NumbersType DEF Takes
<1>3. IsFiniteSet(0 .. MaxParticipants)
  BY FS_Interval, NumbersType
<1>4. IsFiniteSet(Takes(ps, c, k))
  BY <1>2, <1>3, FS_Subset
<1>. QED
  BY <1>2, <1>4, FS_CardinalityType

LEMMA MovedType ==
  ASSUME NEW O \in SUBSET Order, NEW k
  PROVE  Cardinality(Moved(O, k)) \in Nat
<1>1. Moved(O, k) \subseteq Order \X (0 .. MaxParticipants)
  BY DEF Moved
<1>. QED
  BY <1>1, SeatSetsFinite

-----------------------------------------------------------------------------
(* What a quote comes to. *)

LEMMA ListAmountType ==
  ASSUME SetupType, NEW ps \in PartLists
  PROVE  ListAmount(ps) \in Nat
<1> DEFINE prices == [i \in DOMAIN ps |-> tier[ps[i].rule].price]
<1>1. PICK n \in 1 .. MaxParticipants : ps \in [1 .. n -> Line]
  BY DEF PartLists
<1>2. \A i \in 1 .. n : prices[i] \in Nat
  <2>1. \A i \in 1 .. n : ps[i].rule \in Rule
    BY <1>1 DEF Line
  <2>. QED  BY <1>1, <2>1 DEF SetupType, TierRow
<1>3. n \in Nat /\ Len(prices) = n
  BY <1>1, NumbersType
<1>4. Total(prices) \in Nat
  <2>. HIDE DEF prices
  <2>. QED  BY <1>2, <1>3, TotalType
<1>. QED
  BY <1>4 DEF ListAmount

LEMMA CouponCutType ==
  ASSUME SetupType, NEW c \in Coupon \cup {Null}, NEW cents \in Nat
  PROVE  CouponCut(c, cents) \in 0 .. cents
<1>1. CASE c = Null
  BY <1>1 DEF CouponCut
<1>2. CASE c # Null
  <2>1. coupon[c].value \in Int
    BY <1>2 DEF SetupType, CouponRow
  <2>. QED  BY <1>2, <2>1, CouponDiscountBounded DEF CouponCut
<1>. QED
  BY <1>1, <1>2

-----------------------------------------------------------------------------
(* Type correctness *)

LEMMA TypeInvInit == Init => TypeInv
<1>. SUFFICES ASSUME Init PROVE TypeInv
  OBVIOUS
<1>1. SetupType
  <2>1. tier \in [Rule -> TierRow]
    BY RowsType DEF Init
  <2>2. coupon \in [Coupon -> CouponRow]
    BY RowsType DEF Init
  <2>. QED  BY <2>1, <2>2 DEF Init, SetupType
<1>2. OrderType
  BY DEF Init, OrderType, Status, Instant
<1>3. QuoteType
  BY DEF Init, QuoteType, IdentOffsetCap
<1>4. CounterType /\ PaymentType
  BY DEF Init, CounterType, PaymentType, ProofRow
<1>r. ReminderType
  BY DEF Init, ReminderType
<1>5. ProofsBelong /\ OrdersPayable
  BY DEF Init, ProofsBelong, OrdersPayable
<1>. QED
  BY <1>1, <1>2, <1>3, <1>4, <1>5, <1>r DEF TypeInv, TypeOK

(* The transactions of a buyer queue no notice and list no reminder.       *)
LEMMA BuyersAreSilent == Buyer => UNCHANGED <<notices, listed>>
<1>. SUFFICES ASSUME Buyer PROVE UNCHANGED <<notices, listed>>
  OBVIOUS
<1>1. ASSUME NEW o \in Order, NEW ps, NEW c, NEW at, BeginOrder(o, ps, c, at)
      PROVE  UNCHANGED <<notices, listed>>
  BY <1>1 DEF BeginOrder
<1>2. ASSUME NEW o \in Order, \/ PickOffset(o) \/ CommitOrder(o) \/ CommitFreeOrder(o)
                              \/ RollbackOrder(o) \/ CancelOrder(o)
      PROVE  UNCHANGED <<notices, listed>>
  BY <1>2 DEF PickOffset, CommitOrder, CommitFreeOrder, RollbackOrder, CancelOrder, ReleaseOrders
<1>3. ASSUME NEW o \in Order, NEW f, NEW t, NEW at, SubmitProof(o, f, t, at)
      PROVE  UNCHANGED <<notices, listed>>
  BY <1>3 DEF SubmitProof
<1>. QED
  BY <1>1, <1>2, <1>3 DEF Buyer

(* Only the job's own transactions change what it has listed.              *)
LEMMA ListsChange ==
  ASSUME [Next]_vars
  PROVE  \/ listed' = listed
         \/ \E asOf \in Read : ListReminders(asOf)
         \/ \E L \in listed : listed' = listed \ {L}
<1>1. CASE Buyer
  BY <1>1, BuyersAreSilent
<1>2. CASE Finance
  BY <1>2 DEF Finance, ApproveProof, RejectProof
<1>3. CASE Deadlines
  BY <1>3 DEF Deadlines, ExpireBatch, ReleaseOrders, QueueReminders, DropReminders
<1>4. CASE Staff \/ Tick \/ UNCHANGED vars
  BY <1>4 DEF Staff, UpdateRegistration, SelectAccount, UpdatePriceRule, UpdateCoupon, Tick, vars
<1>. QED
  BY <1>1, <1>2, <1>3, <1>4 DEF Next

LEMMA ListedTyped == TypeInv /\ [Next]_vars => ReminderType'
<1>. SUFFICES ASSUME TypeInv, [Next]_vars PROVE ReminderType'
  OBVIOUS
<1>1. ASSUME NEW asOf \in Read, ListReminders(asOf)
      PROVE  ReminderType'
  <2>. PICK near : near = {<<o, deadline[o]>> : o \in NearDeadline(asOf)}
    OBVIOUS
  <2>1. near \in SUBSET (Order \X Instant)
    BY BuyersOfOrders DEF NearDeadline, TypeInv, TypeOK, OrderType
  <2>2. listed' = listed \cup {near}
    BY <1>1 DEF ListReminders
  <2>. QED  BY <2>1, <2>2 DEF TypeInv, TypeOK, ReminderType
<1>. QED
  BY <1>1, ListsChange DEF TypeInv, TypeOK, ReminderType

LEMMA ReleaseTypes ==
  ASSUME TypeInv, ReminderType', NEW O \in SUBSET Order, NEW from \in SUBSET OpenStatus,
         NEW to \in {"EXPIRED", "CANCELLED"}, ReleaseOrders(O, from, to)
  PROVE  TypeInv'
<1>1. SetupType' /\ QuoteType' /\ PaymentType'
  BY DEF TypeInv, TypeOK, SetupType, QuoteType, PaymentType, ReleaseOrders, setupVars, quoteVars,
         payVars
<1>2. OrderType'
  BY DEF TypeInv, TypeOK, OrderType, ReleaseOrders, ReleaseSeats, Redeem, Status, Instant
<1>3. CounterType'
  <2>1. \A k \in Pool : reserved[k] - Cardinality(Moved(O, k)) \in Nat
    BY MovedType DEF TypeInv, TypeOK, CounterType, ReleaseOrders, ReleaseSeats, CanMove
  <2>. QED
    BY <2>1 DEF TypeInv, TypeOK, CounterType, ReleaseOrders, ReleaseSeats
<1>4. ProofsBelong' /\ OrdersPayable'
  BY DEF TypeInv, TypeOK, PaymentType, ProofRow, ProofsBelong, OrdersPayable, ReleaseOrders,
         payVars, quoteVars, InFlight, OpenStatus, Awaiting
<1>. QED
  BY <1>1, <1>2, <1>3, <1>4 DEF TypeInv, TypeOK

LEMMA TypeInvNext == TypeInv /\ [Next]_vars => TypeInv'
<1>. SUFFICES ASSUME TypeInv, [Next]_vars PROVE TypeInv'
  OBVIOUS
<1>r. ReminderType'
  BY ListedTyped
<1>. USE <1>r DEF setupVars, quoteVars, counterVars, payVars
<1>1. ASSUME NEW o \in Order, NEW ps \in PartLists, NEW c \in Coupon \cup {Null}, NEW at \in Read,
             BeginOrder(o, ps, c, at)
      PROVE  TypeInv'
  <2>1. ListAmount(ps) \in Nat
    BY ListAmountType DEF TypeInv, TypeOK
  <2>2. ListAmount(ps) - CouponCut(c, ListAmount(ps)) \in Nat
    <3>1. SetupType
      BY DEF TypeInv, TypeOK
    <3>. PICK cents \in Nat : cents = ListAmount(ps)
      BY <2>1
    <3>2. CouponCut(c, cents) \in 0 .. cents
      BY <3>1, CouponCutType
    <3>3. cents - CouponCut(c, cents) \in Nat
      BY <3>2
    <3>. QED  BY <3>3
  <2>3. SetupType' /\ CounterType' /\ PaymentType'
    BY <1>1 DEF TypeInv, TypeOK, SetupType, CounterType, PaymentType, BeginOrder
  <2>4. OrderType'
    <3>1. at + UploadWindow \in Nat
      BY NumbersType DEF Read, TypeInv, TypeOK, SetupType
    <3>. QED  BY <1>1, <3>1 DEF TypeInv, TypeOK, OrderType, BeginOrder, Status, InFlight, Instant
  <2>5. QuoteType'
    BY <1>1, <2>1, <2>2 DEF TypeInv, TypeOK, QuoteType, SetupType, BeginOrder
  <2>6. ProofsBelong' /\ OrdersPayable'
    BY <1>1 DEF TypeInv, TypeOK, OrderType, QuoteType, SetupType, ProofsBelong, OrdersPayable,
                BeginOrder, InFlight
  <2>. QED  BY <2>3, <2>4, <2>5, <2>6 DEF TypeInv, TypeOK
<1>2. ASSUME NEW o \in Order, PickOffset(o)
      PROVE  TypeInv'
  <2> DEFINE n == PickIdentOffset(amount[o], OpenAmounts(payTo[o]), OffsetMax)
  <2>1. amount[o] \in Nat \ {0}
    BY <1>2 DEF PickOffset, TypeInv, TypeOK, QuoteType
  <2>2. n \in 0 .. IdentOffsetCap /\ n < amount[o]
    BY <2>1, PickIdentOffsetSound, NumbersType
  <2>3. amount[o] - n \in Nat
    <3>. HIDE DEF n
    <3>. QED  BY <2>1, <2>2 DEF IdentOffsetCap
  <2>4. /\ offset' = [offset EXCEPT ![o] = n] /\ amount' = [amount EXCEPT ![o] = @ - n]
        /\ status' = [status EXCEPT ![o] = "PRICED"] /\ status[o] = "QUOTED"
        /\ UNCHANGED <<now, setupVars, reservation, parts, couponOf, list, payTo, deadline, regs,
                       redemption, counterVars, payVars, notices, listed>>
    BY <1>2 DEF PickOffset
  <2>. HIDE DEF n
  <2>5. SetupType' /\ CounterType' /\ PaymentType'
    BY <2>4 DEF TypeInv, TypeOK, SetupType, CounterType, PaymentType
  <2>6. OrderType' /\ QuoteType'
    BY <2>2, <2>3, <2>4 DEF TypeInv, TypeOK, OrderType, QuoteType, Status, InFlight
  <2>7. ProofsBelong' /\ OrdersPayable'
    BY <2>4 DEF TypeInv, TypeOK, OrderType, ProofsBelong, OrdersPayable, InFlight
  <2>. QED  BY <2>5, <2>6, <2>7 DEF TypeInv, TypeOK
<1>3. ASSUME NEW o \in Order, CommitOrder(o)
      PROVE  TypeInv'
  <2>1. \A k : Cardinality(Takes(parts[o], couponOf[o], k)) \in Nat
    BY TakesType DEF TypeInv, TypeOK, QuoteType
  <2>2. SetupType' /\ QuoteType' /\ PaymentType'
    BY <1>3 DEF TypeInv, TypeOK, SetupType, QuoteType, PaymentType, CommitOrder
  <2>3. OrderType'
    BY <1>3 DEF TypeInv, TypeOK, OrderType, CommitOrder, Status, OpenStatus, Awaiting
  <2>4. CounterType'
    BY <1>3, <2>1 DEF TypeInv, TypeOK, CounterType, CommitOrder
  <2>5. ProofsBelong' /\ OrdersPayable'
    BY <1>3 DEF TypeInv, TypeOK, OrderType, ProofsBelong, OrdersPayable, CommitOrder, InFlight
  <2>. QED  BY <2>2, <2>3, <2>4, <2>5 DEF TypeInv, TypeOK
<1>4. ASSUME NEW o \in Order, CommitFreeOrder(o)
      PROVE  TypeInv'
  <2>1. \A k : Cardinality(Takes(parts[o], couponOf[o], k)) \in Nat
    BY TakesType DEF TypeInv, TypeOK, QuoteType
  <2>2. SetupType' /\ QuoteType' /\ PaymentType'
    BY <1>4 DEF TypeInv, TypeOK, SetupType, QuoteType, PaymentType, CommitFreeOrder
  <2>3. OrderType'
    BY <1>4 DEF TypeInv, TypeOK, OrderType, CommitFreeOrder, Status, Instant
  <2>4. CounterType'
    BY <1>4, <2>1 DEF TypeInv, TypeOK, CounterType, CommitFreeOrder
  <2>5. ProofsBelong' /\ OrdersPayable'
    BY <1>4 DEF TypeInv, TypeOK, OrderType, ProofsBelong, OrdersPayable, CommitFreeOrder, InFlight
  <2>. QED  BY <2>2, <2>3, <2>4, <2>5 DEF TypeInv, TypeOK
<1>5. ASSUME NEW o \in Order, RollbackOrder(o)
      PROVE  TypeInv'
  <2>1. SetupType' /\ CounterType' /\ PaymentType'
    BY <1>5 DEF TypeInv, TypeOK, SetupType, CounterType, PaymentType, RollbackOrder
  <2>2. OrderType' /\ QuoteType'
    BY <1>5 DEF TypeInv, TypeOK, OrderType, QuoteType, RollbackOrder, Status, Instant,
                IdentOffsetCap
  <2>3. ProofsBelong' /\ OrdersPayable'
    BY <1>5 DEF TypeInv, TypeOK, OrderType, QuoteType, ProofsBelong, OrdersPayable, RollbackOrder,
                InFlight
  <2>. QED  BY <2>1, <2>2, <2>3 DEF TypeInv, TypeOK
<1>6. ASSUME NEW o \in Order, CancelOrder(o)
      PROVE  TypeInv'
  BY <1>6, ReleaseTypes DEF CancelOrder, OpenStatus, Awaiting
<1>7. ASSUME NEW o \in Order, NEW f \in Proof, NEW t \in Txn, NEW at \in Read,
             SubmitProof(o, f, t, at)
      PROVE  TypeInv'
  <2>1. payTo[o] \in Account
    BY <1>7 DEF TypeInv, OrdersPayable, SubmitProof, Awaiting
  <2>2. SetupType' /\ QuoteType' /\ CounterType'
    BY <1>7 DEF TypeInv, TypeOK, SetupType, QuoteType, CounterType, SubmitProof
  <2>3. OrderType'
    BY <1>7 DEF TypeInv, TypeOK, OrderType, SubmitProof, Status, OpenStatus, Instant
  <2>4. PaymentType'
    BY <1>7, <2>1 DEF TypeInv, TypeOK, PaymentType, SubmitProof, ProofRow
  <2>5. ProofsBelong' /\ OrdersPayable'
    BY <1>7, <2>1 DEF TypeInv, TypeOK, OrderType, PaymentType, ProofsBelong, OrdersPayable,
                      SubmitProof, InFlight
  <2>. QED  BY <2>2, <2>3, <2>4, <2>5 DEF TypeInv, TypeOK
<1>8. ASSUME NEW f \in Proof, NEW cents \in Nat, ApproveProof(f, cents)
      PROVE  TypeInv'
  <2> DEFINE o == proof[f].order
  <2>1. o \in Order /\ proof[f].account \in Account /\ proof[f].txn \in Txn
    BY <1>8 DEF TypeInv, ProofsBelong, ApproveProof, Reviewable
  <2>2. \A k \in Pool : /\ reserved[k] - Cardinality(Moved({o}, k)) \in Nat
                        /\ used[k] + Cardinality(Moved({o}, k)) \in Nat
    <3>1. {o} \in SUBSET Order
      BY <2>1
    <3>2. CanMove({o})
      BY <1>8 DEF ApproveProof, ConsumeSeats
    <3>. HIDE DEF o
    <3>3. TAKE k \in Pool
    <3>4. Cardinality(Moved({o}, k)) \in Nat
      BY <3>1, MovedType
    <3>5. Cardinality(Moved({o}, k)) <= reserved[k]
      BY <3>2 DEF CanMove
    <3>6. reserved[k] \in Nat /\ used[k] \in Nat
      BY DEF TypeInv, TypeOK, CounterType
    <3>. QED  BY <3>4, <3>5, <3>6
  <2>3. SetupType' /\ QuoteType'
    BY <1>8 DEF TypeInv, TypeOK, SetupType, QuoteType, ApproveProof
  <2>4. OrderType'
    BY <1>8, <2>1 DEF TypeInv, TypeOK, OrderType, ApproveProof, ConsumeSeats, Redeem, Status, Instant
  <2>5. CounterType'
    BY <1>8, <2>2 DEF TypeInv, TypeOK, CounterType, ApproveProof, ConsumeSeats
  <2>6. PaymentType'
    <3>1. Receipt(f, cents) \in ReceiptRow
      BY <2>1 DEF Receipt, ReceiptRow
    <3>2. proof' \in [Proof -> ProofRow]
      BY <1>8 DEF TypeInv, TypeOK, PaymentType, ApproveProof, ProofRow
    <3>. QED
      BY <1>8, <3>1, <3>2 DEF TypeInv, TypeOK, PaymentType, ApproveProof
  <2>7. ProofsBelong' /\ OrdersPayable'
    BY <1>8, <2>1 DEF TypeInv, TypeOK, OrderType, PaymentType, ProofRow, ProofsBelong,
                      OrdersPayable, ApproveProof, Reviewable, InFlight
  <2>. QED  BY <2>3, <2>4, <2>5, <2>6, <2>7 DEF TypeInv, TypeOK
<1>9. ASSUME NEW f \in Proof, RejectProof(f)
      PROVE  TypeInv'
  <2> DEFINE o == proof[f].order
  <2>1. o \in Order
    BY <1>9 DEF TypeInv, ProofsBelong, RejectProof, Reviewable
  <2>2. SetupType' /\ QuoteType' /\ CounterType'
    BY <1>9 DEF TypeInv, TypeOK, SetupType, QuoteType, CounterType, RejectProof
  <2>3. OrderType'
    BY <1>9, <2>1, NumbersType DEF TypeInv, TypeOK, SetupType, OrderType, RejectProof, Status,
                                   OpenStatus, Awaiting, Instant
  <2>4. PaymentType'
    BY <1>9 DEF TypeInv, TypeOK, PaymentType, RejectProof, ProofRow
  <2>5. ProofsBelong' /\ OrdersPayable'
    BY <1>9, <2>1 DEF TypeInv, TypeOK, OrderType, PaymentType, ProofRow, ProofsBelong,
                      OrdersPayable, RejectProof, Reviewable, InFlight
  <2>. QED  BY <2>2, <2>3, <2>4, <2>5 DEF TypeInv, TypeOK
<1>10. ASSUME NEW B \in SUBSET DueForExpiry, ExpireBatch(B)
       PROVE  TypeInv'
  BY <1>10, ReleaseTypes DEF ExpireBatch, DueForExpiry, OpenStatus
<1>11. ASSUME \/ \E asOf \in Read : ListReminders(asOf)
              \/ \E L \in listed : QueueReminders(L) \/ DropReminders(L)
       PROVE  TypeInv'
  BY <1>11 DEF TypeInv, TypeOK, SetupType, OrderType, QuoteType, CounterType, PaymentType,
               ProofsBelong, OrdersPayable, ListReminders, QueueReminders, DropReminders
<1>12. ASSUME NEW w \in Windows \cup {Null}, UpdateRegistration(w)
       PROVE  TypeInv'
  BY <1>12 DEF TypeInv, TypeOK, SetupType, OrderType, QuoteType, CounterType, PaymentType,
               ProofsBelong, OrdersPayable, UpdateRegistration
<1>13. ASSUME NEW a \in Account \cup {Null}, SelectAccount(a)
       PROVE  TypeInv'
  BY <1>13 DEF TypeInv, TypeOK, SetupType, OrderType, QuoteType, CounterType, PaymentType,
               ProofsBelong, OrdersPayable, SelectAccount
<1>14. ASSUME NEW r \in Rule, NEW row \in TierRows[r], UpdatePriceRule(r, row)
       PROVE  TypeInv'
  <2>1. row \in TierRow
    BY RowsType
  <2>. QED
    BY <1>14, <2>1 DEF TypeInv, TypeOK, SetupType, OrderType, QuoteType, CounterType, PaymentType,
                       ProofsBelong, OrdersPayable, UpdatePriceRule
<1>15. ASSUME NEW c \in Coupon, NEW row \in CouponRows[c], UpdateCoupon(c, row)
       PROVE  TypeInv'
  <2>1. row \in CouponRow
    BY RowsType
  <2>. QED
    BY <1>15, <2>1 DEF TypeInv, TypeOK, SetupType, OrderType, QuoteType, CounterType, PaymentType,
                       ProofsBelong, OrdersPayable, UpdateCoupon
<1>16. ASSUME Tick
       PROVE  TypeInv'
  BY <1>16 DEF TypeInv, TypeOK, SetupType, OrderType, QuoteType, CounterType, PaymentType,
               ProofsBelong, OrdersPayable, Tick
<1>17. ASSUME UNCHANGED vars
       PROVE  TypeInv'
  BY <1>17 DEF TypeInv, TypeOK, SetupType, OrderType, QuoteType, CounterType, PaymentType,
               ProofsBelong, OrdersPayable, vars
<1>. QED
  <2>1. ASSUME NEW f \in Proof, proof[f].status = "SUBMITTED"
        PROVE  amount[proof[f].order] + Overpay \in Nat
    BY <2>1, NumbersType DEF TypeInv, TypeOK, QuoteType, ProofsBelong
  <2>2. CASE Buyer
    BY <2>2, <1>1, <1>2, <1>3, <1>4, <1>5, <1>6, <1>7 DEF Buyer
  <2>3. CASE Finance
    BY <2>1, <2>3, <1>8, <1>9 DEF Finance
  <2>4. CASE Deadlines
    BY <2>4, <1>10, <1>11 DEF Deadlines
  <2>5. CASE Staff
    BY <2>5, <1>12, <1>13, <1>14, <1>15 DEF Staff
  <2>. QED  BY <2>2, <2>3, <2>4, <2>5, <1>16, <1>17 DEF Next

(* Every reachable state is well typed: no counter goes below zero, no     *)
(* quote owes less than nothing or carries an offset beyond 50 cents.      *)
THEOREM TypeCorrect == Spec => []TypeOK
<1>1. Spec => []TypeInv
  BY TypeInvInit, TypeInvNext, PTL DEF Spec
<1>2. TypeInv => TypeOK
  BY DEF TypeInv
<1>. QED
  BY <1>1, <1>2, PTL

-----------------------------------------------------------------------------
(* The rows of an order agree *)

RowsInv == TypeInv /\ OrderRowsAgree

LEMMA StatusTables ==
  /\ \A s \in {"NONE"} \cup InFlight : ReservationFor(s) = "NONE" /\ RegsFor(s) = "NONE"
  /\ \A s \in OpenStatus : ReservationFor(s) = "RESERVED" /\ RegsFor(s) = "PENDING"
  /\ ReservationFor("PAID") = "CONSUMED" /\ RegsFor("PAID") = "CONFIRMED"
  /\ \A s \in {"EXPIRED", "CANCELLED"} :
       ReservationFor(s) = "RELEASED" /\ RegsFor(s) = "CANCELLED"
BY DEF ReservationFor, RegsFor, InFlight, OpenStatus, Awaiting

(* An order no step touched still agrees. *)
LEMMA SameRow ==
  ASSUME NEW o \in Order, Follows(o),
         status'[o] = status[o], reservation'[o] = reservation[o], regs'[o] = regs[o],
         redemption'[o] = redemption[o], deadline'[o] = deadline[o], couponOf'[o] = couponOf[o]
  PROVE  Follows(o)'
BY DEF Follows

LEMMA SameQueue ==
  ASSUME NEW o \in Order, Queued(o), proof' = proof,
         status'[o] = "PROOF_SUBMITTED" <=> status[o] = "PROOF_SUBMITTED"
  PROVE  Queued(o)'
BY DEF Queued, UnderReview

LEMMA ReleaseRows ==
  ASSUME RowsInv, NEW O \in SUBSET Order, NEW from \in SUBSET Awaiting,
         NEW to \in {"EXPIRED", "CANCELLED"}, ReleaseOrders(O, from, to)
  PROVE  OrderRowsAgree'
<1>. SUFFICES ASSUME NEW o \in Order PROVE Follows(o)' /\ Queued(o)'
  BY DEF OrderRowsAgree
<1>. Follows(o) /\ Queued(o)
  BY DEF RowsInv, OrderRowsAgree
<1>1. CASE o \in O
  <2>1. /\ status[o] \in Awaiting /\ status'[o] = to /\ reservation'[o] = "RELEASED"
        /\ deadline'[o] = Null /\ couponOf'[o] = couponOf[o] /\ proof' = proof
        /\ reservation[o] = "RESERVED"
    BY <1>1 DEF ReleaseOrders, quoteVars, payVars
  <2>2. regs[o] = "PENDING"
    BY <2>1, StatusTables DEF Follows, OpenStatus
  <2>3. regs'[o] = "CANCELLED"
    BY <1>1, <2>2 DEF ReleaseOrders
  <2>4. redemption'[o] = IF couponOf[o] = Null THEN "NONE" ELSE "RELEASED"
    BY <1>1, <2>1 DEF ReleaseOrders, ReleaseSeats, Redeem, Follows
  <2>5. Follows(o)'
    BY <2>1, <2>3, <2>4, StatusTables DEF Follows, Awaiting, InFlight
  <2>. QED  BY <2>1, <2>5, SameQueue DEF Awaiting
<1>2. CASE o \notin O
  <2>1. /\ status'[o] = status[o] /\ reservation'[o] = reservation[o] /\ regs'[o] = regs[o]
        /\ redemption'[o] = redemption[o] /\ deadline'[o] = deadline[o]
        /\ couponOf' = couponOf /\ proof' = proof
    BY <1>2 DEF ReleaseOrders, ReleaseSeats, Redeem, quoteVars, payVars
  <2>. QED  BY <2>1, SameRow, SameQueue
<1>. QED
  BY <1>1, <1>2

LEMMA RowsInvInit == Init => OrderRowsAgree
BY StatusTables DEF Init, OrderRowsAgree, Follows, Queued, UnderReview, InFlight, Awaiting

LEMMA RowsInvNext == RowsInv /\ [Next]_vars => OrderRowsAgree'
<1>. SUFFICES ASSUME RowsInv, [Next]_vars PROVE OrderRowsAgree'
  OBVIOUS
<1>. USE DEF setupVars, quoteVars, counterVars, payVars
<1>a. \A q \in Order : Follows(q) /\ Queued(q)
  BY DEF RowsInv, OrderRowsAgree
<1>1. ASSUME NEW o \in Order, NEW ps \in PartLists, NEW c \in Coupon \cup {Null}, NEW at \in Read,
             BeginOrder(o, ps, c, at)
      PROVE  OrderRowsAgree'
  <2>1. at + UploadWindow # Null
    BY NumbersType, NullIsNoValue DEF Read, RowsInv, TypeInv, TypeOK, SetupType
  <2>. SUFFICES ASSUME NEW q \in Order PROVE Follows(q)' /\ Queued(q)'
    BY DEF OrderRowsAgree
  <2>2. CASE q = o
    <3>1. status[o] = "NONE" /\ status'[o] = "QUOTED" /\ deadline'[o] = at + UploadWindow
          /\ couponOf'[o] = c /\ proof' = proof
          /\ reservation'[o] = reservation[o] /\ regs'[o] = regs[o] /\ redemption'[o] = redemption[o]
      BY <1>1 DEF BeginOrder, RowsInv, TypeInv, TypeOK, OrderType, QuoteType
    <3>2. reservation[o] = "NONE" /\ regs[o] = "NONE" /\ redemption[o] = "NONE"
      BY <1>a, <3>1, StatusTables DEF Follows
    <3>3. Follows(o)'
      BY <2>1, <3>1, <3>2, StatusTables DEF Follows, InFlight
    <3>4. Queued(o)'
      BY <1>a, <3>1, SameQueue
    <3>. QED  BY <2>2, <3>3, <3>4
  <2>3. CASE q # o
    BY <1>1, <1>a, <2>3, SameRow, SameQueue DEF BeginOrder
  <2>. QED  BY <2>2, <2>3
<1>2. ASSUME NEW o \in Order, PickOffset(o)
      PROVE  OrderRowsAgree'
  <2>. SUFFICES ASSUME NEW q \in Order PROVE Follows(q)' /\ Queued(q)'
    BY DEF OrderRowsAgree
  <2>1. CASE q = o
    <3>1. status[o] = "QUOTED" /\ status'[o] = "PRICED"
          /\ UNCHANGED <<deadline, couponOf, proof, reservation, regs, redemption>>
      BY <1>2 DEF PickOffset, RowsInv, TypeInv, TypeOK, OrderType
    <3>2. Follows(o)' /\ Queued(o)'
      BY <1>a, <3>1, SameQueue, StatusTables DEF Follows, InFlight, Awaiting
    <3>. QED  BY <2>1, <3>2
  <2>2. CASE q # o
    BY <1>2, <1>a, <2>2, SameRow, SameQueue DEF PickOffset
  <2>. QED  BY <2>1, <2>2
<1>3. ASSUME NEW o \in Order, CommitOrder(o)
      PROVE  OrderRowsAgree'
  <2>. SUFFICES ASSUME NEW q \in Order PROVE Follows(q)' /\ Queued(q)'
    BY DEF OrderRowsAgree
  <2>1. CASE q = o
    <3>1. status[o] = "PRICED" /\ status'[o] = "PENDING_PAYMENT" /\ reservation'[o] = "RESERVED"
          /\ regs'[o] = "PENDING" /\ UNCHANGED <<deadline, couponOf, proof>>
          /\ redemption'[o] = IF couponOf[o] = Null THEN redemption[o] ELSE "RESERVED"
      BY <1>3 DEF CommitOrder, RowsInv, TypeInv, TypeOK, OrderType
    <3>2. Follows(o)' /\ Queued(o)'
      BY <1>a, <3>1, SameQueue, StatusTables DEF Follows, InFlight, Awaiting, OpenStatus
    <3>. QED  BY <2>1, <3>2
  <2>2. CASE q # o
    BY <1>3, <1>a, <2>2, SameRow, SameQueue DEF CommitOrder
  <2>. QED  BY <2>1, <2>2
<1>4. ASSUME NEW o \in Order, CommitFreeOrder(o)
      PROVE  OrderRowsAgree'
  <2>. SUFFICES ASSUME NEW q \in Order PROVE Follows(q)' /\ Queued(q)'
    BY DEF OrderRowsAgree
  <2>1. CASE q = o
    <3>1. status[o] = "QUOTED" /\ status'[o] = "PAID" /\ reservation'[o] = "CONSUMED"
          /\ regs'[o] = "CONFIRMED" /\ deadline'[o] = Null /\ UNCHANGED <<couponOf, proof>>
          /\ redemption'[o] = IF couponOf[o] = Null THEN redemption[o] ELSE "CONSUMED"
      BY <1>4 DEF CommitFreeOrder, RowsInv, TypeInv, TypeOK, OrderType
    <3>2. Follows(o)' /\ Queued(o)'
      BY <1>a, <3>1, SameQueue, StatusTables DEF Follows, InFlight, Awaiting
    <3>. QED  BY <2>1, <3>2
  <2>2. CASE q # o
    BY <1>4, <1>a, <2>2, SameRow, SameQueue DEF CommitFreeOrder
  <2>. QED  BY <2>1, <2>2
<1>5. ASSUME NEW o \in Order, RollbackOrder(o)
      PROVE  OrderRowsAgree'
  <2>. SUFFICES ASSUME NEW q \in Order PROVE Follows(q)' /\ Queued(q)'
    BY DEF OrderRowsAgree
  <2>1. CASE q = o
    <3>1. status[o] \in InFlight /\ status'[o] = "NONE" /\ deadline'[o] = Null
          /\ couponOf'[o] = Null /\ UNCHANGED <<proof, reservation, regs, redemption>>
      BY <1>5 DEF RollbackOrder, RowsInv, TypeInv, TypeOK, OrderType, QuoteType
    <3>2. reservation[o] = "NONE" /\ regs[o] = "NONE" /\ redemption[o] = "NONE"
      BY <1>a, <3>1, StatusTables DEF Follows
    <3>3. Follows(o)' /\ Queued(o)'
      BY <1>a, <3>1, <3>2, SameQueue, StatusTables DEF Follows, InFlight, Awaiting
    <3>. QED  BY <2>1, <3>3
  <2>2. CASE q # o
    BY <1>5, <1>a, <2>2, SameRow, SameQueue DEF RollbackOrder
  <2>. QED  BY <2>1, <2>2
<1>6. ASSUME NEW o \in Order, CancelOrder(o)
      PROVE  OrderRowsAgree'
  BY <1>6, ReleaseRows DEF CancelOrder, Awaiting
<1>7. ASSUME NEW o \in Order, NEW f \in Proof, NEW t \in Txn, NEW at \in Read,
             SubmitProof(o, f, t, at)
      PROVE  OrderRowsAgree'
  <2>. SUFFICES ASSUME NEW q \in Order PROVE Follows(q)' /\ Queued(q)'
    BY DEF OrderRowsAgree
  <2>1. \A g \in Proof : IF g = f THEN proof'[g].order = o /\ proof'[g].status = "SUBMITTED"
                                  ELSE proof'[g] = proof[g]
    BY <1>7 DEF SubmitProof, RowsInv, TypeInv, TypeOK, PaymentType
  <2>2. CASE q = o
    <3>1. status[o] \in Awaiting /\ status'[o] = "PROOF_SUBMITTED" /\ deadline'[o] = Null
          /\ UNCHANGED <<couponOf, reservation, regs, redemption>>
      BY <1>7 DEF SubmitProof, RowsInv, TypeInv, TypeOK, OrderType
    <3>2. UnderReview(o) = {}
      BY <1>a, <3>1 DEF Queued, Awaiting
    <3>3. UnderReview(o)' = {f}
      BY <2>1, <3>2 DEF UnderReview
    <3>4. Queued(o)'
      BY <3>1, <3>3 DEF Queued
    <3>5. Follows(o)'
      BY <1>a, <3>1, StatusTables DEF Follows, InFlight, Awaiting, OpenStatus
    <3>. QED  BY <2>2, <3>4, <3>5
  <2>3. CASE q # o
    <3>1. UnderReview(q)' = UnderReview(q)
      BY <1>7, <2>1, <2>3 DEF UnderReview, SubmitProof
    <3>2. Queued(q)'
      BY <1>7, <1>a, <2>3, <3>1 DEF Queued, SubmitProof
    <3>. QED  BY <1>7, <1>a, <2>3, <3>2, SameRow DEF SubmitProof
  <2>. QED  BY <2>2, <2>3
<1>8. ASSUME NEW f \in Proof, NEW cents \in Nat, ApproveProof(f, cents)
      PROVE  OrderRowsAgree'
  <2>. SUFFICES ASSUME NEW q \in Order PROVE Follows(q)' /\ Queued(q)'
    BY DEF OrderRowsAgree
  <2>0. PICK o \in Order : o = proof[f].order
    BY <1>8 DEF RowsInv, TypeInv, ProofsBelong, ApproveProof, Reviewable
  <2>1. f \in UnderReview(o) /\ status[o] = "PROOF_SUBMITTED"
    BY <1>8, <2>0 DEF ApproveProof, Reviewable, UnderReview
  <2>2. \A g \in Proof : /\ proof'[g].order = proof[g].order
                         /\ proof'[g].status = IF g = f THEN "APPROVED" ELSE proof[g].status
    BY <1>8 DEF ApproveProof, RowsInv, TypeInv, TypeOK, PaymentType, ProofRow
  <2>3. CASE q = o
    <3>1. status'[o] = "PAID" /\ deadline'[o] = Null /\ couponOf' = couponOf
          /\ reservation'[o] = "CONSUMED" /\ reservation[o] = "RESERVED"
      BY <1>8, <2>0, <2>1 DEF ApproveProof, RowsInv, TypeInv, TypeOK, OrderType
    <3>2. regs'[o] = "CONFIRMED"
      <4>1. regs[o] = "PENDING"
        BY <1>a, <2>1, StatusTables DEF Follows, OpenStatus
      <4>. QED  BY <1>8, <2>0, <2>1, <4>1 DEF ApproveProof, RowsInv, TypeInv, TypeOK, OrderType
    <3>3. redemption'[o] = IF couponOf[o] = Null THEN "NONE" ELSE "CONSUMED"
      BY <1>8, <1>a, <2>0, <2>1, <3>1 DEF ApproveProof, ConsumeSeats, Redeem, Follows
    <3>4. Follows(o)'
      BY <3>1, <3>2, <3>3, StatusTables DEF Follows, InFlight, Awaiting
    <3>5. UnderReview(o)' = {}
      BY <1>a, <2>1, <2>2 DEF Queued, UnderReview
    <3>6. Queued(o)'
      BY <3>1, <3>5 DEF Queued
    <3>. QED  BY <2>3, <3>4, <3>6
  <2>4. CASE q # o
    <3>1. q # proof[f].order
      BY <2>0, <2>4
    <3>2. /\ status'[q] = status[q] /\ reservation'[q] = reservation[q] /\ regs'[q] = regs[q]
          /\ deadline'[q] = deadline[q] /\ couponOf'[q] = couponOf[q]
      BY <1>8, <3>1 DEF ApproveProof, RowsInv, TypeInv, TypeOK, OrderType
    <3>3. redemption'[q] = redemption[q]
      BY <1>8, <3>1 DEF ApproveProof, ConsumeSeats, Redeem
    <3>4. UnderReview(q)' = UnderReview(q)
      BY <2>2, <2>0, <3>1 DEF UnderReview
    <3>5. Queued(q)'
      BY <1>a, <3>2, <3>4 DEF Queued
    <3>6. Follows(q)'
      BY <1>a, <3>2, <3>3, SameRow
    <3>. QED  BY <3>5, <3>6
  <2>. QED  BY <2>3, <2>4
<1>9. ASSUME NEW f \in Proof, RejectProof(f)
      PROVE  OrderRowsAgree'
  <2>. SUFFICES ASSUME NEW q \in Order PROVE Follows(q)' /\ Queued(q)'
    BY DEF OrderRowsAgree
  <2>0. PICK o \in Order : o = proof[f].order
    BY <1>9 DEF RowsInv, TypeInv, ProofsBelong, RejectProof, Reviewable
  <2>1. f \in UnderReview(o) /\ status[o] = "PROOF_SUBMITTED"
    BY <1>9, <2>0 DEF RejectProof, Reviewable, UnderReview
  <2>2. \A g \in Proof : /\ proof'[g].order = proof[g].order
                         /\ proof'[g].status = IF g = f THEN "REJECTED" ELSE proof[g].status
    BY <1>9 DEF RejectProof, RowsInv, TypeInv, TypeOK, PaymentType, ProofRow
  <2>3. CASE q = o
    <3>1. status'[o] = "PROOF_REJECTED" /\ deadline'[o] = now + ReuploadWindow
          /\ UNCHANGED <<couponOf, reservation, regs, redemption>>
      BY <1>9, <2>0, <2>1 DEF RejectProof, RowsInv, TypeInv, TypeOK, OrderType
    <3>2. now + ReuploadWindow # Null
      BY NumbersType, NullIsNoValue DEF RowsInv, TypeInv, TypeOK, SetupType
    <3>3. Follows(o)'
      BY <1>a, <2>1, <3>1, <3>2, StatusTables DEF Follows, InFlight, Awaiting, OpenStatus
    <3>4. UnderReview(o)' = {}
      BY <1>a, <2>1, <2>2 DEF Queued, UnderReview
    <3>5. Queued(o)'
      BY <3>1, <3>4 DEF Queued
    <3>. QED  BY <2>3, <3>3, <3>5
  <2>4. CASE q # o
    <3>1. q # proof[f].order
      BY <2>0, <2>4
    <3>2. /\ status'[q] = status[q] /\ reservation'[q] = reservation[q] /\ regs'[q] = regs[q]
          /\ deadline'[q] = deadline[q] /\ couponOf'[q] = couponOf[q]
          /\ redemption'[q] = redemption[q]
      BY <1>9, <3>1 DEF RejectProof, RowsInv, TypeInv, TypeOK, OrderType
    <3>3. UnderReview(q)' = UnderReview(q)
      BY <2>2, <2>0, <3>1 DEF UnderReview
    <3>4. Queued(q)'
      BY <1>a, <3>2, <3>3 DEF Queued
    <3>5. Follows(q)'
      BY <1>a, <3>2, SameRow
    <3>. QED  BY <3>4, <3>5
  <2>. QED  BY <2>3, <2>4
<1>10. ASSUME NEW B \in SUBSET DueForExpiry, ExpireBatch(B)
       PROVE  OrderRowsAgree'
  BY <1>10, ReleaseRows DEF ExpireBatch, DueForExpiry
<1>11. ASSUME UNCHANGED <<status, reservation, regs, redemption, deadline, couponOf, proof>>
       PROVE  OrderRowsAgree'
  BY <1>11, <1>a, SameRow, SameQueue DEF OrderRowsAgree
<1>. QED
  <2>1. ASSUME NEW f \in Proof, proof[f].status = "SUBMITTED"
        PROVE  amount[proof[f].order] + Overpay \in Nat
    BY <2>1, NumbersType DEF RowsInv, TypeInv, TypeOK, QuoteType, ProofsBelong
  <2>2. CASE Buyer
    BY <2>2, <1>1, <1>2, <1>3, <1>4, <1>5, <1>6, <1>7 DEF Buyer
  <2>3. CASE Finance
    BY <2>1, <2>3, <1>8, <1>9 DEF Finance
  <2>4. CASE Deadlines
    BY <2>4, <1>10, <1>11 DEF Deadlines, ListReminders, QueueReminders, DropReminders
  <2>5. CASE Staff
    BY <2>5, <1>11 DEF Staff, UpdateRegistration, SelectAccount, UpdatePriceRule, UpdateCoupon
  <2>6. CASE Tick \/ UNCHANGED vars
    BY <2>6, <1>11 DEF Tick, vars
  <2>. QED  BY <2>2, <2>3, <2>4, <2>5, <2>6 DEF Next

LEMMA RowsInvariant == Spec => []RowsInv
<1>1. Init => RowsInv
  BY TypeInvInit, RowsInvInit DEF RowsInv
<1>2. RowsInv /\ [Next]_vars => RowsInv'
  BY TypeInvNext, RowsInvNext DEF RowsInv
<1>. QED
  BY <1>1, <1>2, PTL DEF Spec

(* No interleaving of buyers, finance and the deadline job leaves an order *)
(* whose status, reservation, registrations, redemption, deadline and      *)
(* review queue disagree.                                                  *)
THEOREM RowsAlwaysAgree == Spec => []OrderRowsAgree
<1>1. RowsInv => OrderRowsAgree
  BY DEF RowsInv
<1>. QED
  BY <1>1, RowsInvariant, PTL

-----------------------------------------------------------------------------
(* Who may hold a registration, when an order may appear and when it may   *)
(* expire.                                                                 *)
(*                                                                         *)
(* OneActiveRegistration is not inductive: two order transactions that     *)
(* carry the same person and have not committed yet would break it with    *)
(* their commits.  Claims adds them: the orders that carry people, from    *)
(* the advisory locks to the end of the reservation, carry different       *)
(* people.                                                                 *)

Carries(o) == status[o] \in InFlight \cup OpenStatus \cup {"PAID"}

Claims == \A o, p \in Order : o # p /\ Carries(o) /\ Carries(p) => People(o) \cap People(p) = {}

(* An order transaction that is open saw the event open, and still does.   *)
SeenOpen == \A o \in Order : status[o] \in InFlight => window # Null

LEMMA CarriesRegistered ==
  ASSUME RowsInv, NEW o \in Order
  PROVE  /\ regs[o] \in {"PENDING", "CONFIRMED"} <=> status[o] \in OpenStatus \cup {"PAID"}
         /\ status[o] \notin {"NONE"} \cup InFlight => reservation[o] # "NONE"
         /\ status[o] \in {"NONE"} \cup InFlight => reservation[o] = "NONE"
<1>1. Follows(o) /\ status[o] \in Status
  BY DEF RowsInv, OrderRowsAgree, TypeInv, TypeOK, OrderType
<1>. QED
  BY <1>1, StatusTables DEF Follows, Status, InFlight, OpenStatus, Awaiting

(* A step that gives nobody new to any order keeps Claims. *)
LEMMA ClaimsKept ==
  ASSUME Claims, \A o \in Order : Carries(o)' => Carries(o) /\ parts'[o] = parts[o]
  PROVE  Claims'
BY DEF Claims, People

LEMMA ReleaseKeepsClaims ==
  ASSUME Claims, SeenOpen, NEW O \in SUBSET Order, NEW from, NEW to \in {"EXPIRED", "CANCELLED"},
         ReleaseOrders(O, from, to)
  PROVE  Claims' /\ SeenOpen'
<1>1. \A o \in Order : status'[o] = (IF o \in O THEN to ELSE status[o]) /\ parts'[o] = parts[o]
  BY DEF ReleaseOrders, quoteVars
<1>2. window' = window
  BY DEF ReleaseOrders, setupVars
<1>3. \A o \in Order : Carries(o)' => Carries(o)
  BY <1>1 DEF Carries, InFlight, OpenStatus, Awaiting
<1>. QED
  BY <1>1, <1>2, <1>3, ClaimsKept DEF SeenOpen, InFlight

LEMMA ClaimsInit == Init => Claims /\ SeenOpen
BY DEF Init, Claims, SeenOpen, Carries, InFlight, OpenStatus, Awaiting

LEMMA ClaimsNext == RowsInv /\ Claims /\ SeenOpen /\ [Next]_vars => Claims' /\ SeenOpen'
<1>. SUFFICES ASSUME RowsInv, Claims, SeenOpen, [Next]_vars PROVE Claims' /\ SeenOpen'
  OBVIOUS
<1>. USE DEF setupVars, quoteVars, counterVars, payVars
<1>t. status \in [Order -> Status] /\ parts \in [Order -> PartLists \cup {NoParts}]
  BY DEF RowsInv, TypeInv, TypeOK, OrderType, QuoteType
<1>1. ASSUME NEW o \in Order, NEW ps \in PartLists, NEW c \in Coupon \cup {Null}, NEW at \in Read,
             BeginOrder(o, ps, c, at)
      PROVE  Claims' /\ SeenOpen'
  <2>1. /\ \A q \in Order : status'[q] = IF q = o THEN "QUOTED" ELSE status[q]
        /\ \A q \in Order : parts'[q] = IF q = o THEN ps ELSE parts[q]
        /\ window' = window /\ window # Null
    BY <1>1, <1>t DEF BeginOrder, RegistrationOpen
  <2>2. ASSUME NEW q \in Order, Carries(q), NEW i \in DOMAIN ps
        PROVE  ps[i].person \notin People(q)
    <3>1. ~IDLocked(ps[i].person) /\ ~Registered(ps[i].person)
      BY <1>1 DEF BeginOrder
    <3>2. status[q] \in InFlight \/ regs[q] \in {"PENDING", "CONFIRMED"}
      BY <2>2, CarriesRegistered DEF Carries
    <3>. QED  BY <3>1, <3>2 DEF IDLocked, Registered
  <2>3. ASSUME NEW q \in Order, q # o, Carries(q)'
        PROVE  People(o)' \cap People(q)' = {}
    <3>1. People(o)' = {ps[i].person : i \in DOMAIN ps} /\ People(q)' = People(q)
      BY <2>1, <2>3 DEF People
    <3>2. Carries(q)
      BY <2>1, <2>3 DEF Carries
    <3>. QED  BY <2>2, <3>1, <3>2
  <2>4. ASSUME NEW q \in Order, NEW r \in Order, q # r, q # o, r # o, Carries(q)', Carries(r)'
        PROVE  People(q)' \cap People(r)' = {}
    <3>1. Carries(q) /\ Carries(r) /\ People(q)' = People(q) /\ People(r)' = People(r)
      BY <2>1, <2>4 DEF Carries, People
    <3>. QED  BY <2>4, <3>1 DEF Claims
  <2>5. Claims'
    BY <2>3, <2>4 DEF Claims
  <2>. QED  BY <2>1, <2>5 DEF SeenOpen
<1>2. ASSUME NEW o \in Order,
             PickOffset(o) \/ CommitOrder(o) \/ CommitFreeOrder(o) \/ RollbackOrder(o)
      PROVE  Claims' /\ SeenOpen'
  <2>1. /\ \A q \in Order \ {o} : status'[q] = status[q] /\ parts'[q] = parts[q]
        /\ status[o] \in InFlight /\ window' = window
        /\ status'[o] # "NONE" => parts'[o] = parts[o]
    BY <1>2, <1>t DEF PickOffset, CommitOrder, CommitFreeOrder, RollbackOrder, InFlight
  <2>2. \A q \in Order : Carries(q)' => Carries(q) /\ parts'[q] = parts[q]
    BY <2>1 DEF Carries, InFlight, OpenStatus, Awaiting
  <2>. QED  BY <2>1, <2>2, ClaimsKept DEF SeenOpen
<1>3. ASSUME NEW o \in Order, CancelOrder(o)
      PROVE  Claims' /\ SeenOpen'
  BY <1>3, ReleaseKeepsClaims DEF CancelOrder
<1>4. ASSUME NEW o \in Order, NEW f \in Proof, NEW t \in Txn, NEW at \in Read,
             SubmitProof(o, f, t, at)
      PROVE  Claims' /\ SeenOpen'
  <2>1. /\ \A q \in Order : status'[q] = IF q = o THEN "PROOF_SUBMITTED" ELSE status[q]
        /\ status[o] \in Awaiting /\ parts' = parts /\ window' = window
    BY <1>4, <1>t DEF SubmitProof
  <2>2. \A q \in Order : Carries(q)' => Carries(q)
    BY <2>1 DEF Carries, OpenStatus
  <2>. QED  BY <2>1, <2>2, ClaimsKept DEF SeenOpen, InFlight
<1>5. ASSUME NEW f \in Proof, NEW cents \in Nat, ApproveProof(f, cents) \/ RejectProof(f)
      PROVE  Claims' /\ SeenOpen'
  <2>0. PICK o \in Order : o = proof[f].order
    BY <1>5 DEF RowsInv, TypeInv, ProofsBelong, ApproveProof, RejectProof, Reviewable
  <2>1. /\ \A q \in Order \ {o} : status'[q] = status[q]
        /\ status'[o] \in {"PAID", "PROOF_REJECTED"} /\ status[o] = "PROOF_SUBMITTED"
        /\ parts' = parts /\ window' = window
    BY <1>5, <1>t, <2>0 DEF ApproveProof, RejectProof, Reviewable
  <2>2. \A q \in Order : Carries(q)' => Carries(q)
    BY <2>1 DEF Carries, OpenStatus
  <2>. QED  BY <2>1, <2>2, ClaimsKept DEF SeenOpen, InFlight
<1>6. ASSUME NEW B \in SUBSET DueForExpiry, ExpireBatch(B)
      PROVE  Claims' /\ SeenOpen'
  BY <1>6, ReleaseKeepsClaims DEF ExpireBatch, DueForExpiry
<1>7. ASSUME NEW w \in Windows \cup {Null}, UpdateRegistration(w)
      PROVE  Claims' /\ SeenOpen'
  BY <1>7, ClaimsKept DEF UpdateRegistration, SeenOpen, Carries
<1>8. ASSUME UNCHANGED <<status, parts, window>>
      PROVE  Claims' /\ SeenOpen'
  BY <1>8, ClaimsKept DEF SeenOpen, Carries
<1>. QED
  <2>1. ASSUME NEW f \in Proof, proof[f].status = "SUBMITTED"
        PROVE  amount[proof[f].order] + Overpay \in Nat
    BY <2>1, NumbersType DEF RowsInv, TypeInv, TypeOK, QuoteType, ProofsBelong
  <2>2. CASE Buyer
    BY <2>2, <1>1, <1>2, <1>3, <1>4 DEF Buyer
  <2>3. CASE Finance
    <3>1. CASE \E f \in Proof : RejectProof(f)
      BY <3>1, <1>5
    <3>2. CASE \E f \in Proof : /\ proof[f].status = "SUBMITTED"
                                /\ \E cents \in 0 .. (amount[proof[f].order] + Overpay) :
                                     ApproveProof(f, cents)
      BY <3>2, <2>1, <1>5
    <3>. QED  BY <2>3, <3>1, <3>2 DEF Finance
  <2>4. CASE Deadlines
    BY <2>4, <1>6, <1>8 DEF Deadlines, ListReminders, QueueReminders, DropReminders
  <2>5. CASE Staff
    BY <2>5, <1>7, <1>8 DEF Staff, SelectAccount, UpdatePriceRule, UpdateCoupon
  <2>6. CASE Tick \/ UNCHANGED vars
    BY <2>6, <1>8 DEF Tick, vars
  <2>. QED  BY <2>2, <2>3, <2>4, <2>5, <2>6 DEF Next

RegInv == RowsInv /\ Claims /\ SeenOpen

LEMMA RegInvariant == Spec => []RegInv
<1>1. Init => RegInv
  BY TypeInvInit, RowsInvInit, ClaimsInit DEF RegInv, RowsInv
<1>2. RegInv /\ [Next]_vars => RegInv'
  BY TypeInvNext, RowsInvNext, ClaimsNext DEF RegInv, RowsInv
<1>. QED
  BY <1>1, <1>2, PTL DEF Spec

(* However the requests of several buyers interleave, no person ever holds *)
(* two live registrations for the event.                                   *)
THEOREM OneRegistrationPerPerson == Spec => []OneActiveRegistration
<1>1. RegInv => OneActiveRegistration
  <2>. SUFFICES ASSUME RegInv, NEW o \in Order, NEW p \in Order, o # p,
                       regs[o] \in {"PENDING", "CONFIRMED"}, regs[p] \in {"PENDING", "CONFIRMED"}
                PROVE  People(o) \cap People(p) = {}
    BY DEF OneActiveRegistration
  <2>1. Carries(o) /\ Carries(p)
    BY CarriesRegistered DEF RegInv, Carries
  <2>. QED  BY <2>1 DEF RegInv, Claims
<1>. QED
  BY <1>1, RegInvariant, PTL

(* A step only gives an order a reservation when it commits the            *)
(* transaction that created the order.                                     *)
LEMMA FirstReservation ==
  ASSUME RowsInv, [Next]_vars, NEW o \in Order, reservation[o] = "NONE", reservation'[o] # "NONE"
  PROVE  status[o] \in InFlight
<1>. USE DEF setupVars, quoteVars, counterVars, payVars
<1>t. reservation \in [Order -> {"NONE", "RESERVED", "CONSUMED", "RELEASED"}]
  BY DEF RowsInv, TypeInv, TypeOK, OrderType
<1>1. CASE Buyer
  <2>1. ASSUME NEW q \in Order, CommitOrder(q) \/ CommitFreeOrder(q)
        PROVE  status[o] \in InFlight
    BY <2>1, <1>t DEF CommitOrder, CommitFreeOrder, InFlight
  <2>2. ASSUME NEW q \in Order, CancelOrder(q)
        PROVE  FALSE
    BY <2>2 DEF CancelOrder, ReleaseOrders
  <2>3. CASE reservation' = reservation
    BY <2>3
  <2>. QED  BY <1>1, <2>1, <2>2, <2>3 DEF Buyer, BeginOrder, PickOffset, RollbackOrder, SubmitProof
<1>2. CASE Finance
  BY <1>2, <1>t DEF Finance, ApproveProof, RejectProof
<1>3. CASE Deadlines
  BY <1>3 DEF Deadlines, ExpireBatch, ListReminders, QueueReminders, DropReminders, ReleaseOrders
<1>4. CASE Staff \/ Tick \/ UNCHANGED vars
  BY <1>4 DEF Staff, UpdateRegistration, SelectAccount, UpdatePriceRule, UpdateCoupon, Tick, vars
<1>. QED
  BY <1>1, <1>2, <1>3, <1>4 DEF Next

(* Once staff have closed registration no order appears any more.          *)
THEOREM OrdersAppearWhileOpen == Spec => CreatedWhileOpen
<1>1. RegInv /\ [Next]_vars =>
        [\A o \in Order : reservation[o] = "NONE" /\ reservation'[o] # "NONE" => window # Null]_vars
  BY FirstReservation DEF RegInv, SeenOpen
<1>. QED
  BY <1>1, RegInvariant, PTL DEF Spec, CreatedWhileOpen

(* No order expires before its deadline or while finance has its proof.    *)
THEOREM ExpiryOnlyWhenDue == Spec => NeverExpiredEarly
<1>1. RowsInv /\ [Next]_vars =>
        [\A o \in Order : status[o] # "EXPIRED" /\ status'[o] = "EXPIRED"
           => deadline[o] # Null /\ deadline[o] <= now /\ UnderReview(o) = {}]_vars
  <2>. SUFFICES ASSUME RowsInv, [Next]_vars, NEW o \in Order,
                       status[o] # "EXPIRED", status'[o] = "EXPIRED"
                PROVE  deadline[o] # Null /\ deadline[o] <= now /\ UnderReview(o) = {}
    OBVIOUS
  <2>. USE DEF setupVars, quoteVars, counterVars, payVars
  <2>t. status \in [Order -> Status]
    BY DEF RowsInv, TypeInv, TypeOK, OrderType
  <2>a. Follows(o) /\ Queued(o)
    BY DEF RowsInv, OrderRowsAgree
  <2>1. ASSUME NEW B \in SUBSET DueForExpiry, ExpireBatch(B)
        PROVE  deadline[o] # Null /\ deadline[o] <= now /\ UnderReview(o) = {}
    <3>1. o \in DueForExpiry
      BY <2>1 DEF ExpireBatch, ReleaseOrders
    <3>. QED  BY <2>a, <3>1 DEF DueForExpiry, Follows, Queued, Awaiting
  <2>2. CASE Buyer
    <3>1. ASSUME NEW q \in Order, NEW s \in Status \ {"EXPIRED"}, status' = [status EXCEPT ![q] = s]
          PROVE  FALSE
      BY <2>t, <3>1
    <3>2. ASSUME NEW q \in Order, CancelOrder(q)
          PROVE  FALSE
      BY <3>2 DEF CancelOrder, ReleaseOrders
    <3>3. {"NONE", "QUOTED", "PRICED", "PENDING_PAYMENT", "PAID", "PROOF_SUBMITTED"}
            \subseteq Status \ {"EXPIRED"}
      BY DEF Status, InFlight, OpenStatus, Awaiting
    <3>. QED  BY <2>2, <3>1, <3>2, <3>3 DEF Buyer, BeginOrder, PickOffset, CommitOrder,
                                            CommitFreeOrder, RollbackOrder, SubmitProof
  <2>3. CASE Finance
    BY <2>3, <2>t DEF Finance, ApproveProof, RejectProof
  <2>4. CASE Deadlines
    BY <2>1, <2>4 DEF Deadlines, ListReminders, QueueReminders, DropReminders
  <2>5. CASE Staff \/ Tick \/ UNCHANGED vars
    BY <2>5 DEF Staff, UpdateRegistration, SelectAccount, UpdatePriceRule, UpdateCoupon, Tick, vars
  <2>. QED  BY <2>2, <2>3, <2>4, <2>5 DEF Next
<1>. QED
  BY <1>1, RowsInvariant, PTL DEF Spec, NeverExpiredEarly

(* An upload may be accepted after its deadline, but by less than a        *)
(* handler's clock reading can be old: nothing else makes it late, so that *)
(* with readings that are never old the design document would be right.    *)
THEOREM UploadsBarelyLate ==
  Spec => /\ [][\A o \in Order : status[o] \in Awaiting /\ status'[o] = "PROOF_SUBMITTED"
                  => deadline[o] + Lag > now]_vars
          /\ Lag = 0 => NoLateUpload
<1>1. ASSUME RowsInv, [Next]_vars, NEW o \in Order,
             status[o] \in Awaiting, status'[o] = "PROOF_SUBMITTED"
      PROVE  deadline[o] + Lag > now /\ (Lag = 0 => deadline[o] > now)
  <2>. USE DEF setupVars, quoteVars, counterVars, payVars
  <2>t. status \in [Order -> Status] /\ now \in Nat
    BY <1>1 DEF RowsInv, TypeInv, TypeOK, OrderType, SetupType
  <2>a. "PROOF_SUBMITTED" \notin Awaiting
    BY DEF Awaiting
  <2>d. deadline[o] \in Int
    <3>1. deadline[o] # Null
      BY <1>1 DEF RowsInv, OrderRowsAgree, Follows
    <3>2. deadline[o] \in Instant
      BY <1>1 DEF RowsInv, TypeInv, TypeOK, OrderType
    <3>. QED  BY <3>1, <3>2 DEF Instant
  <2>1. ASSUME NEW p \in Order, NEW f \in Proof, NEW t \in Txn, NEW at \in Read,
               SubmitProof(p, f, t, at)
        PROVE  deadline[o] + Lag > now /\ (Lag = 0 => deadline[o] > now)
    <3>1. p = o
      BY <1>1, <2>1, <2>a, <2>t DEF SubmitProof
    <3>2. deadline[o] > at
      BY <2>1, <3>1 DEF SubmitProof
    <3>3. at \in Int /\ now - at <= Lag
      BY <2>t DEF Read
    <3>. QED  BY <2>t, <2>d, <3>2, <3>3, NumbersType
  <2>2. ASSUME NEW q \in Order, NEW s \in Status \ {"PROOF_SUBMITTED"},
               status' = [status EXCEPT ![q] = s]
        PROVE  FALSE
    BY <1>1, <2>2, <2>a, <2>t
  <2>3. ASSUME NEW O \in SUBSET Order, NEW from, NEW to \in {"CANCELLED", "EXPIRED"},
               ReleaseOrders(O, from, to)
        PROVE  FALSE
    BY <1>1, <2>3, <2>a, <2>t DEF ReleaseOrders
  <2>4. {"NONE", "QUOTED", "PRICED", "PENDING_PAYMENT", "PAID", "PROOF_REJECTED"}
          \subseteq Status \ {"PROOF_SUBMITTED"}
    BY DEF Status, InFlight, OpenStatus, Awaiting
  <2>5. CASE Buyer
    <3>1. ASSUME NEW q \in Order, CancelOrder(q)
          PROVE  FALSE
      BY <3>1, <2>3 DEF CancelOrder
    <3>. QED  BY <2>5, <2>1, <2>2, <2>4, <3>1 DEF Buyer, BeginOrder, PickOffset, CommitOrder,
                                                  CommitFreeOrder, RollbackOrder
  <2>6. CASE Finance
    BY <1>1, <2>6, <2>a, <2>t DEF Finance, ApproveProof, RejectProof
  <2>7. CASE Deadlines
    <3>1. status' = status => FALSE
      BY <1>1, <2>a
    <3>. QED  BY <2>3, <2>7, <3>1 DEF Deadlines, ExpireBatch, DueForExpiry, ListReminders, QueueReminders, DropReminders
  <2>8. CASE Staff \/ Tick \/ UNCHANGED vars
    BY <1>1, <2>8, <2>a DEF Staff, UpdateRegistration, SelectAccount, UpdatePriceRule, UpdateCoupon,
                            Tick, vars
  <2>. QED  BY <1>1, <2>5, <2>6, <2>7, <2>8 DEF Next
<1>2. RowsInv /\ [Next]_vars =>
        [\A o \in Order : status[o] \in Awaiting /\ status'[o] = "PROOF_SUBMITTED"
           => deadline[o] + Lag > now]_vars
  BY <1>1
<1>3. Spec => [][\A o \in Order : status[o] \in Awaiting /\ status'[o] = "PROOF_SUBMITTED"
                   => deadline[o] + Lag > now]_vars
  BY <1>2, RowsInvariant, PTL DEF Spec
<1>4. ASSUME Lag = 0 PROVE Spec => NoLateUpload
  <2>1. RowsInv /\ [Next]_vars =>
          [\A o \in Order : status[o] \in Awaiting /\ status'[o] = "PROOF_SUBMITTED"
             => deadline[o] > now]_vars
    BY <1>1, <1>4
  <2>. QED  BY <2>1, RowsInvariant, PTL DEF Spec, NoLateUpload
<1>. QED
  BY <1>3, <1>4

-----------------------------------------------------------------------------
(***************************************************************************)
(* The counters of categories, price rules and coupons count the orders,   *)
(* no pool is oversold, and the orders implement the seat ledger: for      *)
(* every value of the constants.                                           *)
(*                                                                         *)
(* The argument counts sets of seats.  An order that is committed adds its *)
(* own seats to one of the two sets, disjoint from what is there; one that *)
(* is paid, cancelled or expired takes from the reserved seats exactly     *)
(* what moveCounters moves, because the redemption row is RESERVED exactly *)
(* while the order is (RowsInv).                                           *)
(***************************************************************************)

LEMMA DisjointSum ==
  ASSUME NEW S, IsFiniteSet(S), NEW T, IsFiniteSet(T), S \cap T = {}
  PROVE  Cardinality(S \cup T) = Cardinality(S) + Cardinality(T)
<1>1. Cardinality(S \cup T) = Cardinality(S) + Cardinality(T) - Cardinality(S \cap T)
  BY FS_Union
<1>2. Cardinality(S \cap T) = 0
  BY FS_EmptySet
<1>3. Cardinality(S) \in Nat /\ Cardinality(T) \in Nat
  BY FS_CardinalityType
<1>. QED
  BY <1>1, <1>2, <1>3

LEMMA SeatsFinite ==
  ASSUME NEW k, NEW s
  PROVE  IsFiniteSet(Seats(s, k)) /\ Cardinality(Seats(s, k)) \in Nat
<1>1. Seats(s, k) \subseteq Order \X (0 .. MaxParticipants)
  BY DEF Seats
<1>. QED
  BY <1>1, SeatSetsFinite

(* The seats of one order are as many as it takes of the pool. *)
LEMMA OwnSeats ==
  ASSUME NEW o \in Order, NEW ps \in PartLists \cup {NoParts}, NEW c, NEW k
  PROVE  /\ IsFiniteSet({o} \X Takes(ps, c, k))
         /\ Cardinality({o} \X Takes(ps, c, k)) = Cardinality(Takes(ps, c, k))
<1>1. IsFiniteSet({o}) /\ Cardinality({o}) = 1
  BY FS_Singleton
<1>2. Takes(ps, c, k) \subseteq 0 .. MaxParticipants /\ Cardinality(Takes(ps, c, k)) \in Nat
  BY TakesType
<1>3. IsFiniteSet(0 .. MaxParticipants)
  BY FS_Interval, NumbersType
<1>4. IsFiniteSet(Takes(ps, c, k))
  BY <1>2, <1>3, FS_Subset
<1>5. /\ IsFiniteSet({o} \X Takes(ps, c, k))
      /\ Cardinality({o} \X Takes(ps, c, k)) = Cardinality({o}) * Cardinality(Takes(ps, c, k))
  BY <1>1, <1>4, FS_Product
<1>. QED
  BY <1>1, <1>2, <1>5

(* moveCounters moves exactly the seats the orders hold. *)
LEMMA MovedIsHeld ==
  ASSUME RowsInv, NEW O \in SUBSET Order, \A o \in O : reservation[o] = "RESERVED", NEW k
  PROVE  Moved(O, k) = {s \in Seats("RESERVED", k) : s[1] \in O}
<1>1. \A o \in O : (IF redemption[o] = "RESERVED" THEN couponOf[o] ELSE Null) = couponOf[o]
  BY DEF RowsInv, OrderRowsAgree, Follows
<1>2. \A s \in Order \X (0 .. MaxParticipants) : s \in O \X (0 .. MaxParticipants) <=> s[1] \in O
  OBVIOUS
<1>3. O \X (0 .. MaxParticipants) \subseteq Order \X (0 .. MaxParticipants)
  OBVIOUS
<1>. QED
  BY <1>1, <1>2, <1>3 DEF Moved, Seats

-----------------------------------------------------------------------------
(* How each kind of step changes the counted sets. *)

LEMMA SeatsKept ==
  ASSUME CountersConserved, UNCHANGED <<used, reserved>>,
         \A o \in Order : /\ reservation'[o] = reservation[o]
                          /\ reservation[o] \in {"RESERVED", "CONSUMED"}
                               => parts'[o] = parts[o] /\ couponOf'[o] = couponOf[o]
  PROVE  CountersConserved'
<1>1. \A k \in Pool : /\ Seats("RESERVED", k)' = Seats("RESERVED", k)
                      /\ Seats("CONSUMED", k)' = Seats("CONSUMED", k)
  BY DEF Seats, Takes
<1>. QED
  BY <1>1 DEF CountersConserved

LEMMA SeatsTaken ==
  ASSUME RowsInv, CountersConserved, NEW o \in Order, reservation[o] = "NONE",
         UNCHANGED <<parts, couponOf>>, NEW s \in {"RESERVED", "CONSUMED"},
         reservation' = [reservation EXCEPT ![o] = s],
         LET more == [k \in Pool |-> Cardinality(Takes(parts[o], couponOf[o], k))]
         IN  IF s = "RESERVED"
             THEN reserved' = [k \in Pool |-> reserved[k] + more[k]] /\ used' = used
             ELSE used' = [k \in Pool |-> used[k] + more[k]] /\ reserved' = reserved
  PROVE  CountersConserved'
<1>. SUFFICES ASSUME NEW k \in Pool
              PROVE  /\ reserved'[k] = Cardinality(Seats("RESERVED", k)')
                     /\ used'[k] = Cardinality(Seats("CONSUMED", k)')
  BY DEF CountersConserved
<1> DEFINE own == {o} \X Takes(parts[o], couponOf[o], k)
<1>0. reservation \in [Order -> {"NONE", "RESERVED", "CONSUMED", "RELEASED"}]
      /\ parts[o] \in PartLists \cup {NoParts}
  BY DEF RowsInv, TypeInv, TypeOK, OrderType, QuoteType
<1>1. /\ IsFiniteSet(own) /\ Cardinality(own) = Cardinality(Takes(parts[o], couponOf[o], k))
      /\ Takes(parts[o], couponOf[o], k) \subseteq 0 .. MaxParticipants
  <2>1. IsFiniteSet(own) /\ Cardinality(own) = Cardinality(Takes(parts[o], couponOf[o], k))
    BY <1>0, OwnSeats
  <2>2. Takes(parts[o], couponOf[o], k) \subseteq 0 .. MaxParticipants
    BY <1>0, TakesType
  <2>. QED  BY <2>1, <2>2
<1>2. Seats(s, k)' = Seats(s, k) \cup own /\ Seats(s, k) \cap own = {}
  <2>1. \A q \in Order : reservation'[q] = s <=> reservation[q] = s \/ q = o
    BY <1>0
  <2>2. reservation[o] # s
    OBVIOUS
  <2>3. Seats(s, k)' = {x \in Order \X (0 .. MaxParticipants) :
                          (reservation[x[1]] = s \/ x[1] = o)
                            /\ x[2] \in Takes(parts[x[1]], couponOf[x[1]], k)}
    BY <2>1 DEF Seats, Takes
  <2>. QED  BY <1>1, <2>2, <2>3 DEF Seats
<1>3. ASSUME NEW t \in {"RESERVED", "CONSUMED"}, t # s
      PROVE  Seats(t, k)' = Seats(t, k)
  <2>1. \A q \in Order : reservation'[q] = t <=> reservation[q] = t
    BY <1>0, <1>3
  <2>. QED  BY <2>1 DEF Seats, Takes
<1>4. Cardinality(Seats(s, k) \cup own) = Cardinality(Seats(s, k)) + Cardinality(own)
  <2>. HIDE DEF own
  <2>. QED  BY <1>1, <1>2, SeatsFinite, DisjointSum
<1>5. reserved[k] = Cardinality(Seats("RESERVED", k)) /\ used[k] = Cardinality(Seats("CONSUMED", k))
  BY DEF CountersConserved
<1>. HIDE DEF own
<1>6. CASE s = "RESERVED"
  BY <1>1, <1>2, <1>3, <1>4, <1>5, <1>6
<1>7. CASE s = "CONSUMED"
  BY <1>1, <1>2, <1>3, <1>4, <1>5, <1>7
<1>. QED
  BY <1>6, <1>7

LEMMA SeatsSettled ==
  ASSUME RowsInv, CountersConserved, NEW O \in SUBSET Order,
         \A o \in O : reservation[o] = "RESERVED",
         UNCHANGED <<parts, couponOf>>, NEW s \in {"RELEASED", "CONSUMED"},
         reservation' = [o \in Order |-> IF o \in O THEN s ELSE reservation[o]],
         reserved' = [k \in Pool |-> reserved[k] - Cardinality(Moved(O, k))],
         used' = [k \in Pool |-> IF s = "CONSUMED" THEN used[k] + Cardinality(Moved(O, k))
                                 ELSE used[k]]
  PROVE  CountersConserved'
<1>. SUFFICES ASSUME NEW k \in Pool
              PROVE  /\ reserved'[k] = Cardinality(Seats("RESERVED", k)')
                     /\ used'[k] = Cardinality(Seats("CONSUMED", k)')
  BY DEF CountersConserved
<1> DEFINE held == Seats("RESERVED", k)
           sold == Seats("CONSUMED", k)
           out  == {x \in held : x[1] \in O}
<1>1. Moved(O, k) = out
  BY MovedIsHeld
<1>2. Seats("RESERVED", k)' = held \ out
  <2>1. \A q \in Order : reservation'[q] = "RESERVED" <=> reservation[q] = "RESERVED" /\ q \notin O
    OBVIOUS
  <2>. QED  BY <2>1 DEF Seats, Takes
<1>3. Seats("CONSUMED", k)' = IF s = "CONSUMED" THEN sold \cup out ELSE sold
  <2>1. \A q \in Order : reservation'[q] = "CONSUMED"
                           <=> reservation[q] = "CONSUMED" \/ (s = "CONSUMED" /\ q \in O)
    OBVIOUS
  <2>. QED  BY <2>1 DEF Seats, Takes
<1>4. sold \cap out = {} /\ held \cap out = out
  BY DEF Seats
<1>5. /\ IsFiniteSet(held) /\ Cardinality(held) \in Nat
      /\ IsFiniteSet(sold) /\ Cardinality(sold) \in Nat
  BY SeatsFinite
<1>6. IsFiniteSet(out) /\ Cardinality(out) \in Nat
  <2>1. out \subseteq held
    OBVIOUS
  <2>2. IsFiniteSet(out)
    BY <1>5, <2>1, FS_Subset
  <2>. QED  BY <2>2, FS_CardinalityType
<1>7. reserved[k] = Cardinality(held) /\ used[k] = Cardinality(sold)
  BY DEF CountersConserved
<1>. HIDE DEF held, sold, out
<1>8. Cardinality(held \ out) = Cardinality(held) - Cardinality(out)
  BY <1>4, <1>5, FS_Difference
<1>9. Cardinality(sold \cup out) = Cardinality(sold) + Cardinality(out)
  BY <1>4, <1>5, <1>6, DisjointSum
<1>. QED
  BY <1>1, <1>2, <1>3, <1>5, <1>6, <1>7, <1>8, <1>9

-----------------------------------------------------------------------------
(* The counters count. *)

LEMMA CountedInit == Init => CountersConserved
<1>. SUFFICES ASSUME Init, NEW k \in Pool
              PROVE  /\ reserved[k] = Cardinality(Seats("RESERVED", k))
                     /\ used[k] = Cardinality(Seats("CONSUMED", k))
  BY DEF CountersConserved
<1>1. Seats("RESERVED", k) = {} /\ Seats("CONSUMED", k) = {}
  BY DEF Init, Seats
<1>. QED
  BY <1>1, FS_EmptySet DEF Init

LEMMA ReleaseCounts ==
  ASSUME RowsInv, CountersConserved, NEW O \in SUBSET Order, NEW from, NEW to,
         ReleaseOrders(O, from, to)
  PROVE  CountersConserved'
<1>1. /\ \A o \in O : reservation[o] = "RESERVED"
      /\ UNCHANGED <<parts, couponOf>> /\ used' = used
      /\ reservation' = [o \in Order |-> IF o \in O THEN "RELEASED" ELSE reservation[o]]
      /\ reserved' = [k \in Pool |-> reserved[k] - Cardinality(Moved(O, k))]
  BY DEF ReleaseOrders, ReleaseSeats, quoteVars
<1>2. used' = [k \in Pool |-> IF "RELEASED" = "CONSUMED" THEN used[k] + Cardinality(Moved(O, k))
                              ELSE used[k]]
  BY <1>1 DEF RowsInv, TypeInv, TypeOK, CounterType
<1>. QED
  BY <1>1, <1>2, SeatsSettled

LEMMA CountedNext == RowsInv /\ CountersConserved /\ [Next]_vars => CountersConserved'
<1>. SUFFICES ASSUME RowsInv, CountersConserved, [Next]_vars PROVE CountersConserved'
  OBVIOUS
<1>. USE DEF setupVars, quoteVars, counterVars, payVars
<1>t. /\ parts \in [Order -> PartLists \cup {NoParts}] /\ couponOf \in [Order -> Coupon \cup {Null}]
      /\ reservation \in [Order -> {"NONE", "RESERVED", "CONSUMED", "RELEASED"}]
  BY DEF RowsInv, TypeInv, TypeOK, QuoteType, OrderType
<1>f. \A o \in Order : status[o] \in {"NONE"} \cup InFlight => reservation[o] = "NONE"
  BY StatusTables DEF RowsInv, OrderRowsAgree, Follows, InFlight
<1>1. ASSUME NEW o \in Order,
             RollbackOrder(o)
               \/ \E ps \in PartLists, c \in Coupon \cup {Null}, at \in Read : BeginOrder(o, ps, c, at)
      PROVE  CountersConserved'
  <2>1. /\ reservation[o] = "NONE" /\ UNCHANGED <<used, reserved, reservation>>
        /\ \A q \in Order \ {o} : parts'[q] = parts[q] /\ couponOf'[q] = couponOf[q]
    BY <1>1, <1>f, <1>t DEF BeginOrder, RollbackOrder
  <2>. QED  BY <2>1, SeatsKept
<1>2. ASSUME NEW o \in Order, CommitOrder(o)
      PROVE  CountersConserved'
  BY <1>2, <1>f, SeatsTaken DEF CommitOrder, InFlight
<1>3. ASSUME NEW o \in Order, CommitFreeOrder(o)
      PROVE  CountersConserved'
  BY <1>3, <1>f, SeatsTaken DEF CommitFreeOrder, InFlight
<1>4. ASSUME NEW o \in Order, CancelOrder(o)
      PROVE  CountersConserved'
  BY <1>4, ReleaseCounts DEF CancelOrder
<1>5. ASSUME NEW B \in SUBSET DueForExpiry, ExpireBatch(B)
      PROVE  CountersConserved'
  BY <1>5, ReleaseCounts DEF ExpireBatch, DueForExpiry
<1>6. ASSUME NEW f \in Proof, NEW cents \in Nat, ApproveProof(f, cents)
      PROVE  CountersConserved'
  <2>0. PICK o \in Order : o = proof[f].order
    BY <1>6 DEF RowsInv, TypeInv, ProofsBelong, ApproveProof, Reviewable
  <2>1. /\ reservation[o] = "RESERVED" /\ UNCHANGED <<parts, couponOf>>
        /\ reservation' = [q \in Order |-> IF q \in {o} THEN "CONSUMED" ELSE reservation[q]]
        /\ ConsumeSeats({o})
    BY <1>6, <2>0, <1>t DEF ApproveProof
  <2>. QED  BY <2>1, SeatsSettled DEF ConsumeSeats
<1>7. ASSUME UNCHANGED <<reservation, parts, couponOf, used, reserved>>
      PROVE  CountersConserved'
  BY <1>7, SeatsKept
<1>. QED
  <2>1. ASSUME NEW f \in Proof, proof[f].status = "SUBMITTED"
        PROVE  amount[proof[f].order] + Overpay \in Nat
    BY <2>1, NumbersType DEF RowsInv, TypeInv, TypeOK, QuoteType, ProofsBelong
  <2>2. CASE Buyer
    <3>1. ASSUME NEW o \in Order, PickOffset(o)
          PROVE  CountersConserved'
      BY <3>1, <1>7 DEF PickOffset
    <3>2. ASSUME NEW o \in Order, NEW f \in Proof, NEW t \in Txn, NEW at \in Read,
                 SubmitProof(o, f, t, at)
          PROVE  CountersConserved'
      BY <3>2, <1>7 DEF SubmitProof
    <3>. QED  BY <2>2, <1>1, <1>2, <1>3, <1>4, <3>1, <3>2 DEF Buyer
  <2>3. CASE Finance
    <3>1. ASSUME NEW f \in Proof, RejectProof(f)
          PROVE  CountersConserved'
      BY <3>1, <1>7 DEF RejectProof
    <3>2. ASSUME NEW f \in Proof, proof[f].status = "SUBMITTED",
                 NEW cents \in 0 .. (amount[proof[f].order] + Overpay), ApproveProof(f, cents)
          PROVE  CountersConserved'
      BY <3>2, <2>1, <1>6
    <3>. QED  BY <2>3, <3>1, <3>2 DEF Finance
  <2>4. CASE Deadlines
    BY <2>4, <1>5, <1>7 DEF Deadlines, ListReminders, QueueReminders, DropReminders
  <2>5. CASE Staff
    BY <2>5, <1>7 DEF Staff, UpdateRegistration, SelectAccount, UpdatePriceRule, UpdateCoupon
  <2>6. CASE Tick \/ UNCHANGED vars
    BY <2>6, <1>7 DEF Tick, vars
  <2>. QED  BY <2>2, <2>3, <2>4, <2>5, <2>6 DEF Next

-----------------------------------------------------------------------------
(* The limits hold. *)

LEMMA LimitType ==
  ASSUME SetupType, NEW k \in Pool
  PROVE  Limit(k) \in Nat \cup {Null}
<1>1. CASE k \in Category
  <2>1. Limit(k) = Capacity[k]
    BY <1>1, PoolsDisjoint DEF Limit
  <2>. QED  BY <1>1, <2>1, RowsType
<1>2. CASE k \in Rule
  <2>1. Limit(k) = tier[k].quota
    BY <1>2, PoolsDisjoint DEF Limit
  <2>. QED  BY <1>2, <2>1 DEF SetupType, TierRow
<1>3. CASE k \in Coupon
  <2>1. Limit(k) = coupon[k].quota
    BY <1>3, PoolsDisjoint DEF Limit
  <2>. QED  BY <1>3, <2>1 DEF SetupType, CouponRow
<1>. QED
  BY <1>1, <1>2, <1>3 DEF Pool

(* A step that takes nothing more leaves every pool within its limit. *)
LEMMA LimitsKept ==
  ASSUME TypeInv, NeverOversold, UNCHANGED <<tier, coupon>>,
         \A k \in Pool : used'[k] + reserved'[k] <= used[k] + reserved[k], CounterType'
  PROVE  NeverOversold'
<1>. SUFFICES ASSUME NEW k \in Pool
              PROVE  Limit(k)' = Null \/ used'[k] + reserved'[k] <= Limit(k)'
  BY DEF NeverOversold
<1>1. Limit(k)' = Limit(k)
  BY DEF Limit
<1>2. Limit(k) \in Nat \cup {Null}
  BY LimitType DEF TypeInv, TypeOK
<1>3. /\ used[k] \in Nat /\ reserved[k] \in Nat /\ used'[k] \in Nat /\ reserved'[k] \in Nat
      /\ used'[k] + reserved'[k] <= used[k] + reserved[k]
  BY DEF TypeInv, TypeOK, CounterType
<1>4. Limit(k) = Null \/ used[k] + reserved[k] <= Limit(k)
  BY DEF NeverOversold
<1>. QED
  BY <1>1, <1>2, <1>3, <1>4

LEMMA LimitsInit == Init => NeverOversold
<1>. SUFFICES ASSUME Init, NEW k \in Pool PROVE Limit(k) = Null \/ used[k] + reserved[k] <= Limit(k)
  BY DEF NeverOversold
<1>1. Limit(k) \in Nat \cup {Null}
  BY TypeInvInit, LimitType DEF TypeInv, TypeOK
<1>. QED
  BY <1>1 DEF Init

LEMMA LimitsNext == TypeInv /\ TypeInv' /\ NeverOversold /\ [Next]_vars => NeverOversold'
<1>. SUFFICES ASSUME TypeInv, TypeInv', NeverOversold, [Next]_vars PROVE NeverOversold'
  OBVIOUS
<1>. USE DEF setupVars, quoteVars, counterVars, payVars
<1>t. CounterType /\ CounterType'
  BY DEF TypeInv, TypeOK
<1>1. ASSUME NEW o \in Order, CommitOrder(o) \/ CommitFreeOrder(o)
      PROVE  NeverOversold'
  <2>. SUFFICES ASSUME NEW k \in Pool
                PROVE  Limit(k)' = Null \/ used'[k] + reserved'[k] <= Limit(k)'
    BY DEF NeverOversold
  <2> DEFINE n == Cardinality(Takes(parts[o], couponOf[o], k))
  <2>1. n \in Nat
    BY TakesType DEF TypeInv, TypeOK, QuoteType
  <2>2. Limit(k)' = Limit(k) /\ Limit(k) \in Nat \cup {Null}
    BY <1>1, LimitType DEF Limit, CommitOrder, CommitFreeOrder, TypeInv, TypeOK
  <2>3. n > 0 /\ Limit(k) # Null => used[k] + reserved[k] + n <= Limit(k)
    BY <1>1 DEF CommitOrder, CommitFreeOrder, Room
  <2>4. \/ used'[k] = used[k] /\ reserved'[k] = reserved[k] + n
        \/ used'[k] = used[k] + n /\ reserved'[k] = reserved[k]
    BY <1>1 DEF CommitOrder, CommitFreeOrder
  <2>5. Limit(k) = Null \/ used[k] + reserved[k] <= Limit(k)
    BY DEF NeverOversold
  <2>. HIDE DEF n
  <2>. QED  BY <1>t, <2>1, <2>2, <2>3, <2>4, <2>5 DEF CounterType
<1>2. ASSUME NEW O \in SUBSET Order, ReleaseSeats(O) \/ ConsumeSeats(O), UNCHANGED <<tier, coupon>>
      PROVE  NeverOversold'
  <2>1. \A k \in Pool : Cardinality(Moved(O, k)) \in Nat
    BY MovedType
  <2>2. ASSUME NEW k \in Pool
        PROVE  used'[k] + reserved'[k] <= used[k] + reserved[k]
    BY <1>2, <1>t, <2>1 DEF ReleaseSeats, ConsumeSeats, CounterType
  <2>. QED  BY <1>2, <1>t, <2>2, LimitsKept
<1>3. ASSUME NEW r \in Rule, NEW row \in TierRows[r], UpdatePriceRule(r, row)
      PROVE  NeverOversold'
  <2>. SUFFICES ASSUME NEW k \in Pool
                PROVE  Limit(k)' = Null \/ used'[k] + reserved'[k] <= Limit(k)'
    BY DEF NeverOversold
  <2>1. /\ tier' = [tier EXCEPT ![r] = row] /\ UNCHANGED <<coupon, used, reserved>>
        /\ row.quota # Null => row.quota >= used[r] + reserved[r]
    BY <1>3 DEF UpdatePriceRule
  <2>2. row.quota \in Nat \cup {Null} /\ used[r] + reserved[r] \in Nat
    BY <1>t, RowsType DEF TierRow, CounterType, Pool
  <2>3. CASE k = r
    <3>1. Limit(k)' = row.quota
      BY <2>1, <2>3, PoolsDisjoint DEF Limit, TypeInv, TypeOK, SetupType
    <3>. QED  BY <2>1, <2>2, <2>3, <3>1
  <2>4. CASE k # r
    <3>1. Limit(k)' = Limit(k)
      BY <2>1, <2>4 DEF Limit, TypeInv, TypeOK, SetupType
    <3>. QED  BY <2>1, <3>1 DEF NeverOversold
  <2>. QED  BY <2>3, <2>4
<1>4. ASSUME NEW c \in Coupon, NEW row \in CouponRows[c], UpdateCoupon(c, row)
      PROVE  NeverOversold'
  <2>. SUFFICES ASSUME NEW k \in Pool
                PROVE  Limit(k)' = Null \/ used'[k] + reserved'[k] <= Limit(k)'
    BY DEF NeverOversold
  <2>1. /\ coupon' = [coupon EXCEPT ![c] = row] /\ UNCHANGED <<tier, used, reserved>>
        /\ row.quota >= used[c] + reserved[c]
    BY <1>4 DEF UpdateCoupon
  <2>2. row.quota \in Nat /\ used[c] + reserved[c] \in Nat
    BY <1>t, RowsType DEF CouponRow, CounterType, Pool
  <2>3. CASE k = c
    <3>1. Limit(k)' = row.quota
      BY <2>1, <2>3, PoolsDisjoint DEF Limit, TypeInv, TypeOK, SetupType
    <3>. QED  BY <2>1, <2>2, <2>3, <3>1
  <2>4. CASE k # c
    <3>1. Limit(k)' = Limit(k)
      BY <2>1, <2>4, PoolsDisjoint DEF Limit, TypeInv, TypeOK, SetupType, Pool
    <3>. QED  BY <2>1, <3>1 DEF NeverOversold
  <2>. QED  BY <2>3, <2>4
<1>5. ASSUME UNCHANGED <<used, reserved, tier, coupon>>
      PROVE  NeverOversold'
  BY <1>5 DEF NeverOversold, Limit
<1>6. ASSUME NEW O \in SUBSET Order, NEW from, NEW to, ReleaseOrders(O, from, to)
      PROVE  NeverOversold'
  BY <1>2, <1>6 DEF ReleaseOrders
<1>7. ASSUME NEW f \in Proof, NEW cents \in Nat, ApproveProof(f, cents)
      PROVE  NeverOversold'
  <2>1. proof[f].order \in Order
    BY <1>7 DEF TypeInv, ProofsBelong, ApproveProof, Reviewable
  <2>2. ConsumeSeats({proof[f].order}) /\ UNCHANGED <<tier, coupon>>
    BY <1>7 DEF ApproveProof
  <2>. QED  BY <1>2, <2>1, <2>2
<1>. QED
  <2>1. ASSUME NEW f \in Proof, proof[f].status = "SUBMITTED"
        PROVE  amount[proof[f].order] + Overpay \in Nat
    BY <2>1, NumbersType DEF TypeInv, TypeOK, QuoteType, ProofsBelong
  <2>2. CASE Buyer
    <3>1. ASSUME NEW o \in Order, CancelOrder(o)
          PROVE  NeverOversold'
      BY <3>1, <1>6 DEF CancelOrder
    <3>. QED  BY <2>2, <1>1, <1>5, <3>1 DEF Buyer, BeginOrder, PickOffset, RollbackOrder, SubmitProof
  <2>3. CASE Finance
    <3>1. ASSUME NEW f \in Proof, RejectProof(f)
          PROVE  NeverOversold'
      BY <3>1, <1>5 DEF RejectProof
    <3>2. ASSUME NEW f \in Proof, proof[f].status = "SUBMITTED",
                 NEW cents \in 0 .. (amount[proof[f].order] + Overpay), ApproveProof(f, cents)
          PROVE  NeverOversold'
      BY <3>2, <2>1, <1>7
    <3>. QED  BY <2>3, <3>1, <3>2 DEF Finance
  <2>4. CASE Deadlines
    BY <2>4, <1>5, <1>6 DEF Deadlines, ListReminders, QueueReminders, DropReminders, ExpireBatch, DueForExpiry
  <2>5. CASE Staff
    BY <2>5, <1>3, <1>4, <1>5 DEF Staff, UpdateRegistration, SelectAccount
  <2>6. CASE Tick \/ UNCHANGED vars
    BY <2>6, <1>5 DEF Tick, vars
  <2>. QED  BY <2>2, <2>3, <2>4, <2>5, <2>6 DEF Next

-----------------------------------------------------------------------------
CountInv == RowsInv /\ CountersConserved /\ NeverOversold

LEMMA CountInvariant == Spec => []CountInv
<1>1. Init => CountInv
  BY TypeInvInit, RowsInvInit, CountedInit, LimitsInit DEF CountInv, RowsInv
<1>2. CountInv /\ [Next]_vars => CountInv'
  BY TypeInvNext, RowsInvNext, CountedNext, LimitsNext DEF CountInv, RowsInv
<1>. QED
  BY <1>1, <1>2, PTL DEF Spec

(* reserved_count and used_count are the seats of the orders that are      *)
(* reserved and paid: no retry, race or batch releases or consumes twice.  *)
THEOREM CountersCountOrders == Spec => []CountersConserved
<1>1. CountInv => CountersConserved
  BY DEF CountInv
<1>. QED
  BY <1>1, CountInvariant, PTL

(* No category, price tier or coupon is sold beyond its limit, although    *)
(* quotes read the counters unlocked and staff move the limits.            *)
THEOREM PoolsNeverOversold == Spec => []NeverOversold
<1>1. CountInv => NeverOversold
  BY DEF CountInv
<1>. QED
  BY <1>1, CountInvariant, PTL

-----------------------------------------------------------------------------
(* RegOrders implements SeatLedger: the counters, the conditional updates  *)
(* and the three-step order transaction amount to booking, selling and     *)
(* freeing whole sets of seats.                                            *)

(* The mapped variables, named. *)
state == [o \in Order |-> CASE reservation[o] = "RESERVED" -> "HELD"
                            [] reservation[o] = "CONSUMED" -> "SOLD"
                            [] reservation[o] = "RELEASED" -> "FREED"
                            [] OTHER                       -> "NONE"]
units == [o \in Order |-> [k \in Pool |-> IF reservation[o] = "NONE" THEN {}
                                          ELSE Takes(parts[o], couponOf[o], k)]]
limit == [k \in Pool |-> Limit(k)]

LEMMA LedgerVars == Ledger!vars = <<state, units, limit>>
BY DEF Ledger!vars, state, units, limit

(* What the ledger counts is what the counters count. *)
LEMMA TakenCounted ==
  ASSUME CountInv, NEW k \in Pool
  PROVE  Ledger!Fits(k)
<1> DEFINE held == Seats("RESERVED", k)
           sold == Seats("CONSUMED", k)
<1>1. Ledger!Taken(k) = held \cup sold
  BY DEF Ledger!Taken, Seats
<1>2. held \cap sold = {}
  BY DEF Seats
<1>3. IsFiniteSet(held) /\ IsFiniteSet(sold) /\ Cardinality(held) \in Nat /\ Cardinality(sold) \in Nat
  BY SeatsFinite
<1>4. reserved[k] = Cardinality(held) /\ used[k] = Cardinality(sold)
  BY DEF CountInv, CountersConserved
<1>5. Limit(k) = Null \/ used[k] + reserved[k] <= Limit(k)
  BY DEF CountInv, NeverOversold
<1>. HIDE DEF held, sold
<1>6. Cardinality(Ledger!Taken(k)) = reserved[k] + used[k]
  BY <1>1, <1>2, <1>3, <1>4, DisjointSum
<1>7. \A S : Ledger!Cardinality(S) = Cardinality(S)
  BY Zenon DEF Ledger!Cardinality, Cardinality
<1>. QED
  BY <1>3, <1>4, <1>5, <1>6, <1>7 DEF Ledger!Fits

LEMMA LedgerInit == Init => Ledger!Init
<1>. SUFFICES ASSUME Init PROVE Ledger!Init
  OBVIOUS
<1>1. state = [o \in Order |-> "NONE"]
  BY DEF Init, state
<1>2. units = [o \in Order |-> [k \in Pool |-> {}]]
  BY DEF Init, units
<1>3. limit \in [Pool -> Nat \cup {Null}]
  BY TypeInvInit, LimitType DEF TypeInv, TypeOK, limit
<1>. QED
  BY <1>1, <1>2, <1>3 DEF Ledger!Init, state, units, limit

LEMMA TakenCountedNext == CountInv' => (\A k \in Pool : Ledger!Fits(k))'
<1>1. CountInv => \A k \in Pool : Ledger!Fits(k)
  BY TakenCounted
<1>. QED
  BY <1>1, PTL

LEMMA LimitsTypedNext == CountInv' => (\A k \in Pool : Limit(k) \in Nat \cup {Null})'
<1>1. CountInv => \A k \in Pool : Limit(k) \in Nat \cup {Null}
  BY LimitType DEF CountInv, RowsInv, TypeInv, TypeOK
<1>. QED
  BY <1>1, PTL

-----------------------------------------------------------------------------
(* The steps. *)

LEMMA LedgerStutters ==
  ASSUME \A k \in Pool : Limit(k)' = Limit(k),
         \A o \in Order : /\ reservation'[o] = reservation[o]
                          /\ reservation[o] # "NONE" => parts'[o] = parts[o] /\ couponOf'[o] = couponOf[o]
  PROVE  UNCHANGED Ledger!vars
<1>1. state' = state
  BY DEF state
<1>2. ASSUME NEW o \in Order
      PROVE  units'[o] = units[o]
  <2>1. CASE reservation[o] = "NONE"
    BY <2>1 DEF units
  <2>2. CASE reservation[o] # "NONE"
    BY <2>2 DEF units, Takes
  <2>. QED  BY <2>1, <2>2
<1>3. units' = units
  BY <1>2 DEF units
<1>4. limit' = limit
  BY DEF limit
<1>. QED
  BY <1>1, <1>3, <1>4 DEF Ledger!vars, state, units, limit

LEMMA LedgerBooks ==
  ASSUME RowsInv, CountInv', NEW o \in Order, reservation[o] = "NONE",
         NEW s \in {"RESERVED", "CONSUMED"}, reservation' = [reservation EXCEPT ![o] = s],
         UNCHANGED <<tier, coupon, parts, couponOf>>
  PROVE  Ledger!Next
<1>0. /\ reservation \in [Order -> {"NONE", "RESERVED", "CONSUMED", "RELEASED"}]
      /\ parts[o] \in PartLists \cup {NoParts}
  BY DEF RowsInv, TypeInv, TypeOK, OrderType, QuoteType
<1>1. /\ state[o] = "NONE" /\ state'[o] \in {"HELD", "SOLD"}
      /\ state' = [state EXCEPT ![o] = state'[o]]
  BY <1>0 DEF state
<1>2. limit' = limit
  BY DEF limit, Limit
<1>3. \A q \in Order \ {o} : units'[q] = units[q]
  BY <1>0 DEF units, Takes
<1>4. units'[o] \in [Pool -> SUBSET (0 .. MaxParticipants)]
  <2>1. \A k \in Pool : Takes(parts[o], couponOf[o], k) \in SUBSET (0 .. MaxParticipants)
    BY <1>0, TakesType
  <2>2. units'[o] = [k \in Pool |-> Takes(parts[o], couponOf[o], k)]
    <3>1. reservation'[o] # "NONE"
      BY <1>0
    <3>2. \A k : Takes(parts[o], couponOf[o], k)' = Takes(parts[o], couponOf[o], k)
      BY DEF Takes
    <3>. QED  BY <3>1, <3>2 DEF units
  <2>. QED  BY <2>1, <2>2
<1>5. units' = [units EXCEPT ![o] = units'[o]]
  <2>1. units' = [q \in Order |-> units'[q]] /\ units = [q \in Order |-> units[q]]
    BY DEF units
  <2>2. [units EXCEPT ![o] = units'[o]] = [q \in Order |-> IF q = o THEN units'[o] ELSE units[q]]
    BY <2>1
  <2>. QED  BY <1>3, <2>1, <2>2
<1>6. \A k \in Pool : Ledger!Fits(k)'
  BY TakenCountedNext
<1>. QED
  BY <1>1, <1>2, <1>4, <1>5, <1>6 DEF Ledger!Next, Ledger!Book, state, units, limit

LEMMA LedgerSettles ==
  ASSUME NEW O \in SUBSET Order, \A o \in O : reservation[o] = "RESERVED",
         NEW s \in {"RELEASED", "CONSUMED"}, s = "RELEASED" \/ \E o \in Order : O = {o},
         reservation' = [o \in Order |-> IF o \in O THEN s ELSE reservation[o]],
         UNCHANGED <<tier, coupon, parts, couponOf>>
  PROVE  Ledger!Next
<1> DEFINE to == IF s = "CONSUMED" THEN "SOLD" ELSE "FREED"
<1>1. \A o \in O : state[o] = "HELD"
  BY DEF state
<1>2. state' = [o \in Order |-> IF o \in O THEN to ELSE state[o]]
  BY DEF state
<1>3. \A o \in Order : reservation'[o] = "NONE" <=> reservation[o] = "NONE"
  OBVIOUS
<1>4. units' = units
  BY <1>3 DEF units, Takes
<1>5. limit' = limit
  BY DEF limit, Limit
<1>6. Ledger!Settle(O, to)
  BY <1>1, <1>2, <1>4, <1>5 DEF Ledger!Settle, state, units, limit
<1>7. CASE s = "RELEASED"
  BY <1>6, <1>7 DEF Ledger!Next
<1>8. CASE s = "CONSUMED"
  BY <1>6, <1>8 DEF Ledger!Next
<1>. QED
  BY <1>7, <1>8

LEMMA LedgerResizes ==
  ASSUME CountInv', UNCHANGED <<reservation, parts, couponOf>>
  PROVE  Ledger!Next
<1>1. state' = state /\ units' = units
  BY DEF state, units, Takes
<1>2. limit' \in [Pool -> Nat \cup {Null}]
  BY LimitsTypedNext DEF limit
<1>3. \A k \in Pool : Ledger!Fits(k)'
  BY TakenCountedNext
<1>. QED
  BY <1>1, <1>2, <1>3 DEF Ledger!Next, Ledger!Resize, state, units, limit

LEMMA LedgerNext == CountInv /\ CountInv' /\ [Next]_vars => [Ledger!Next]_(Ledger!vars)
<1>. SUFFICES ASSUME CountInv, CountInv', [Next]_vars PROVE Ledger!Next \/ UNCHANGED Ledger!vars
  OBVIOUS
<1>. USE DEF setupVars, quoteVars, counterVars, payVars
<1>t. /\ RowsInv
      /\ reservation \in [Order -> {"NONE", "RESERVED", "CONSUMED", "RELEASED"}]
      /\ parts \in [Order -> PartLists \cup {NoParts}] /\ couponOf \in [Order -> Coupon \cup {Null}]
  BY DEF CountInv, RowsInv, TypeInv, TypeOK, OrderType, QuoteType
<1>f. \A o \in Order : status[o] \in {"NONE"} \cup InFlight => reservation[o] = "NONE"
  BY <1>t, StatusTables DEF RowsInv, OrderRowsAgree, Follows, InFlight
<1>1. ASSUME UNCHANGED <<tier, coupon, reservation>>,
             \A o \in Order : reservation[o] # "NONE" => parts'[o] = parts[o] /\ couponOf'[o] = couponOf[o]
      PROVE  UNCHANGED Ledger!vars
  <2>1. \A k \in Pool : Limit(k)' = Limit(k)
    BY <1>1 DEF Limit
  <2>. QED  BY <1>1, <2>1, LedgerStutters
<1>2. ASSUME NEW o \in Order,
             RollbackOrder(o)
               \/ \E ps \in PartLists, c \in Coupon \cup {Null}, at \in Read : BeginOrder(o, ps, c, at)
      PROVE  UNCHANGED Ledger!vars
  <2>1. /\ reservation[o] = "NONE" /\ UNCHANGED <<tier, coupon, reservation>>
        /\ \A q \in Order \ {o} : parts'[q] = parts[q] /\ couponOf'[q] = couponOf[q]
    BY <1>2, <1>f, <1>t DEF BeginOrder, RollbackOrder
  <2>. QED  BY <2>1, <1>1
<1>3. ASSUME NEW o \in Order, CommitOrder(o) \/ CommitFreeOrder(o)
      PROVE  Ledger!Next
  <2>1. CASE CommitOrder(o)
    BY <2>1, <1>f, <1>t, LedgerBooks DEF CommitOrder, InFlight
  <2>2. CASE CommitFreeOrder(o)
    BY <2>2, <1>f, <1>t, LedgerBooks DEF CommitFreeOrder, InFlight
  <2>. QED  BY <1>3, <2>1, <2>2
<1>4. ASSUME NEW O \in SUBSET Order, NEW from, NEW to, ReleaseOrders(O, from, to)
      PROVE  Ledger!Next
  BY <1>4, LedgerSettles DEF ReleaseOrders
<1>5. ASSUME NEW f \in Proof, NEW cents, ApproveProof(f, cents)
      PROVE  Ledger!Next
  <2>0. PICK o \in Order : o = proof[f].order
    BY <1>5, <1>t DEF RowsInv, TypeInv, ProofsBelong, ApproveProof, Reviewable
  <2>1. /\ reservation[o] = "RESERVED" /\ UNCHANGED <<tier, coupon, parts, couponOf>>
        /\ reservation' = [q \in Order |-> IF q \in {o} THEN "CONSUMED" ELSE reservation[q]]
    BY <1>5, <2>0, <1>t DEF ApproveProof
  <2>. QED  BY <2>1, LedgerSettles
<1>6. CASE Buyer
  <2>1. ASSUME NEW o \in Order, CancelOrder(o)
        PROVE  Ledger!Next
    BY <2>1, <1>4 DEF CancelOrder
  <2>2. ASSUME NEW o \in Order, PickOffset(o)
        PROVE  UNCHANGED Ledger!vars
    BY <2>2, <1>1 DEF PickOffset
  <2>3. ASSUME NEW o \in Order, NEW f \in Proof, NEW t \in Txn, NEW at \in Read,
               SubmitProof(o, f, t, at)
        PROVE  UNCHANGED Ledger!vars
    BY <2>3, <1>1 DEF SubmitProof
  <2>. QED  BY <1>2, <1>3, <1>6, <2>1, <2>2, <2>3 DEF Buyer
<1>7. CASE Finance
  <2>1. ASSUME NEW f \in Proof, RejectProof(f)
        PROVE  UNCHANGED Ledger!vars
    BY <2>1, <1>1 DEF RejectProof
  <2>. QED  BY <1>5, <1>7, <2>1 DEF Finance
<1>8. CASE Deadlines
  <2>1. ASSUME NEW B \in SUBSET DueForExpiry, ExpireBatch(B)
        PROVE  Ledger!Next
    BY <2>1, <1>4 DEF ExpireBatch, DueForExpiry
  <2>2. ASSUME \/ \E asOf \in Read : ListReminders(asOf)
               \/ \E L \in listed : QueueReminders(L) \/ DropReminders(L)
        PROVE  UNCHANGED Ledger!vars
    BY <2>2, <1>1 DEF ListReminders, QueueReminders, DropReminders
  <2>. QED  BY <1>8, <2>1, <2>2 DEF Deadlines
<1>9. CASE Staff
  <2>1. UNCHANGED <<reservation, parts, couponOf>>
    BY <1>9 DEF Staff, UpdateRegistration, SelectAccount, UpdatePriceRule, UpdateCoupon
  <2>. QED  BY <2>1, LedgerResizes
<1>10. CASE Tick \/ UNCHANGED vars
  BY <1>10, <1>1 DEF Tick, vars
<1>. QED
  BY <1>6, <1>7, <1>8, <1>9, <1>10 DEF Next

(* Orders, counters and staff edits of the limits implement the ledger:    *)
(* seats are booked whole, sold or freed once and for good, and never      *)
(* booked or resized beyond a limit.                                       *)
THEOREM OrdersImplementLedger == Spec => ImplementsLedger
<1>1. Init => Ledger!Init
  BY LedgerInit
<1>2. CountInv /\ CountInv' /\ [Next]_vars => [Ledger!Next]_(Ledger!vars)
  BY LedgerNext
<1>. QED
  BY <1>1, <1>2, CountInvariant, PTL DEF Spec, ImplementsLedger, Ledger!Spec

-----------------------------------------------------------------------------
(* What orders ask for and are paid with. *)

moneyVars == <<status, amount, offset, payTo, proof, receipts>>

(* Every other step leaves the money alone. *)
LEMMA MoneySteps ==
  ASSUME TypeInv, [Next]_vars
  PROVE  \/ UNCHANGED moneyVars
         \/ \E o \in Order, ps \in PartLists, c \in Coupon \cup {Null}, at \in Read : BeginOrder(o, ps, c, at)
         \/ \E o \in Order : \/ PickOffset(o) \/ CommitOrder(o) \/ CommitFreeOrder(o)
                             \/ RollbackOrder(o)
         \/ \E O \in SUBSET Order, from \in SUBSET OpenStatus, to \in {"EXPIRED", "CANCELLED"} :
              ReleaseOrders(O, from, to)
         \/ \E o \in Order, f \in Proof, t \in Txn, at \in Read : SubmitProof(o, f, t, at)
         \/ \E f \in Proof, cents \in Nat : ApproveProof(f, cents)
         \/ \E f \in Proof : RejectProof(f)
<1> USE DEF moneyVars, quoteVars, payVars
<1>1. CASE Buyer
  <2>1. ASSUME NEW o \in Order, CancelOrder(o)
        PROVE  \E O \in SUBSET Order, from \in SUBSET OpenStatus, to \in {"EXPIRED", "CANCELLED"} :
                 ReleaseOrders(O, from, to)
    BY <2>1 DEF CancelOrder, OpenStatus, Awaiting
  <2>2. QED
    BY <1>1, <2>1 DEF Buyer
<1>2. CASE Finance
  <2>1. ASSUME NEW f \in Proof, proof[f].status = "SUBMITTED"
        PROVE  amount[proof[f].order] + Overpay \in Nat
    BY <2>1, NumbersType DEF TypeInv, TypeOK, QuoteType, ProofsBelong
  <2>2. QED
    BY <1>2, <2>1 DEF Finance
<1>3. CASE Deadlines
  <2>1. ASSUME NEW B \in SUBSET DueForExpiry, ExpireBatch(B)
        PROVE  \E O \in SUBSET Order, from \in SUBSET OpenStatus, to \in {"EXPIRED", "CANCELLED"} :
                 ReleaseOrders(O, from, to)
    BY <2>1 DEF ExpireBatch, DueForExpiry, OpenStatus
  <2>2. QED
    BY <1>3, <2>1 DEF Deadlines, ListReminders, QueueReminders, DropReminders
<1>4. CASE Staff
  BY <1>4 DEF Staff, UpdateRegistration, SelectAccount, UpdatePriceRule, UpdateCoupon
<1>5. CASE Tick \/ UNCHANGED vars
  BY <1>5 DEF Tick, vars
<1>6. QED
  BY <1>1, <1>2, <1>3, <1>4, <1>5 DEF Next

-----------------------------------------------------------------------------
(* Amounts.  The creating transaction holds the account's lock from its    *)
(* search for an offset to its commit, so it counts as an open order.      *)
Priced == OpenStatus \cup {"PRICED"}

Identified ==
  \A o, p \in Order :
    o # p /\ status[o] \in Priced /\ status[p] \in Priced /\ payTo[o] = payTo[p]
      => amount[o] # amount[p] \/ offset[o] = 0 \/ offset[p] = 0

Owes == \A o \in Order : status[o] \in Priced => amount[o] > 0

LEMMA AmountsNext == TypeInv /\ Identified /\ Owes /\ [Next]_vars => Identified' /\ Owes'
<1> SUFFICES ASSUME TypeInv, Identified, Owes, [Next]_vars PROVE Identified' /\ Owes'
  OBVIOUS
<1> USE DEF Priced, OpenStatus, Awaiting, quoteVars
<1>t. /\ status \in [Order -> Status] /\ amount \in [Order -> Nat] /\ payTo \in [Order -> Account \cup {Null}]
      /\ offset \in [Order -> 0 .. IdentOffsetCap] /\ proof \in [Proof -> ProofRow]
  BY DEF TypeInv, TypeOK, OrderType, QuoteType, PaymentType
(* Steps after which no more orders are priced. *)
<1>k. ASSUME UNCHANGED <<amount, offset, payTo>>,
             \A o \in Order : status'[o] \in Priced => status[o] \in Priced
      PROVE  Identified' /\ Owes'
  BY <1>k DEF Identified, Owes
<1>1. ASSUME NEW o \in Order, NEW ps \in PartLists, NEW c \in Coupon \cup {Null}, NEW at \in Read,
             BeginOrder(o, ps, c, at)
      PROVE  Identified' /\ Owes'
  <2>1. \A p \in Order : status'[p] \in Priced =>
          /\ p # o /\ status'[p] = status[p] /\ amount'[p] = amount[p]
          /\ payTo'[p] = payTo[p] /\ offset'[p] = offset[p]
    BY <1>1, <1>t DEF BeginOrder
  <2>2. QED
    BY <2>1 DEF Identified, Owes
<1>2. ASSUME NEW o \in Order, PickOffset(o) PROVE Identified' /\ Owes'
  <2> DEFINE n == PickIdentOffset(amount[o], OpenAmounts(payTo[o]), OffsetMax)
  <2>1. amount[o] \in Nat \ {0}
    BY <1>2, <1>t DEF PickOffset
  <2>2. /\ n \in 0 .. IdentOffsetCap /\ n < amount[o]
        /\ n = 0 \/ amount[o] - n \notin OpenAmounts(payTo[o])
    BY <2>1, PickIdentOffsetSound, NumbersType DEF Identifies
  <2>3. /\ offset' = [offset EXCEPT ![o] = n] /\ amount' = [amount EXCEPT ![o] = @ - n]
        /\ status' = [status EXCEPT ![o] = "PRICED"] /\ status[o] = "QUOTED" /\ payTo' = payTo
        /\ ~AccountLocked(payTo[o])
    BY <1>2 DEF PickOffset
  <2> HIDE DEF n
  <2>4. /\ offset'[o] = n /\ amount'[o] = amount[o] - n /\ amount'[o] > 0
        /\ \A p \in Order \ {o} : /\ offset'[p] = offset[p] /\ amount'[p] = amount[p]
                                  /\ status'[p] = status[p]
    BY <1>t, <2>1, <2>2, <2>3 DEF IdentOffsetCap
  <2>5. ASSUME NEW p \in Order \ {o}, status[p] \in Priced, payTo[p] = payTo[o]
        PROVE  n = 0 \/ amount'[o] # amount[p]
    <3>1. status[p] \in OpenStatus
      BY <2>3, <2>5 DEF AccountLocked
    <3>2. amount[p] \in OpenAmounts(payTo[o])
      BY <2>5, <3>1 DEF OpenAmounts
    <3>3. QED
      BY <2>2, <2>4, <3>2
  <2>6. Owes'
    BY <2>4 DEF Owes
  <2>7. ASSUME NEW p \in Order, NEW q \in Order, p # q, status'[p] \in Priced, status'[q] \in Priced,
               payTo[p] = payTo[q]
        PROVE  amount'[p] # amount'[q] \/ offset'[p] = 0 \/ offset'[q] = 0
    <3>1. CASE p = o
      BY <2>4, <2>5, <2>7, <3>1
    <3>2. CASE q = o
      BY <2>4, <2>5, <2>7, <3>2
    <3>3. CASE p # o /\ q # o
      BY <2>4, <2>7, <3>3 DEF Identified
    <3>4. QED
      BY <3>1, <3>2, <3>3
  <2>8. QED
    BY <2>3, <2>6, <2>7 DEF Identified
<1>3. ASSUME NEW o \in Order, CommitOrder(o) \/ CommitFreeOrder(o) PROVE Identified' /\ Owes'
  <2>1. UNCHANGED <<amount, offset, payTo>>
    BY <1>3 DEF CommitOrder, CommitFreeOrder
  <2>2. \A p \in Order : status'[p] \in Priced => status[p] \in Priced
    BY <1>3, <1>t DEF CommitOrder, CommitFreeOrder
  <2>3. QED
    BY <1>k, <2>1, <2>2
<1>4. ASSUME NEW o \in Order, RollbackOrder(o) PROVE Identified' /\ Owes'
  <2>1. \A p \in Order : status'[p] \in Priced =>
          /\ p # o /\ status'[p] = status[p] /\ amount'[p] = amount[p]
          /\ payTo'[p] = payTo[p] /\ offset'[p] = offset[p]
    BY <1>4, <1>t DEF RollbackOrder
  <2>2. QED
    BY <2>1 DEF Identified, Owes
<1>5. ASSUME NEW O \in SUBSET Order, NEW from \in SUBSET OpenStatus, NEW to \in {"EXPIRED", "CANCELLED"},
             ReleaseOrders(O, from, to)
      PROVE  Identified' /\ Owes'
  <2>1. UNCHANGED <<amount, offset, payTo>>
    BY <1>5 DEF ReleaseOrders
  <2>2. \A p \in Order : status'[p] \in Priced => status[p] \in Priced
    BY <1>5, <1>t DEF ReleaseOrders
  <2>3. QED
    BY <1>k, <2>1, <2>2
<1>6. ASSUME NEW o \in Order, NEW f \in Proof, NEW t \in Txn, NEW at \in Read, SubmitProof(o, f, t, at)
      PROVE  Identified' /\ Owes'
  <2>1. UNCHANGED <<amount, offset, payTo>>
    BY <1>6 DEF SubmitProof
  <2>2. \A p \in Order : status'[p] \in Priced => status[p] \in Priced
    BY <1>6, <1>t DEF SubmitProof
  <2>3. QED
    BY <1>k, <2>1, <2>2
<1>7. ASSUME NEW f \in Proof, (\E cents \in Nat : ApproveProof(f, cents)) \/ RejectProof(f)
      PROVE  Identified' /\ Owes'
  <2>1. UNCHANGED <<amount, offset, payTo>>
    BY <1>7 DEF ApproveProof, RejectProof
  <2>2. \A p \in Order : status'[p] \in Priced => status[p] \in Priced
    BY <1>7, <1>t DEF ApproveProof, RejectProof, Reviewable
  <2>3. QED
    BY <1>k, <2>1, <2>2
<1>8. CASE UNCHANGED moneyVars
  BY <1>8, <1>k DEF moneyVars
<1>9. QED
  BY MoneySteps, <1>1, <1>2, <1>3, <1>4, <1>5, <1>6, <1>7, <1>8

LEMMA AmountsInit == Init => Identified /\ Owes
BY DEF Init, Identified, Owes, Priced, OpenStatus, Awaiting

(* Two open orders of an account ask for different amounts: the search for *)
(* an offset and the commit are under the account's lock.                  *)
THEOREM OpenAmountsDiffer == Spec => []AmountsIdentify
<1>1. Init => TypeInv /\ Identified /\ Owes
  BY TypeInvInit, AmountsInit
<1>2. (TypeInv /\ Identified /\ Owes) /\ [Next]_vars => (TypeInv /\ Identified /\ Owes)'
  BY TypeInvNext, AmountsNext
<1>3. Identified => AmountsIdentify
  BY DEF Identified, AmountsIdentify, Priced
<1>4. QED
  BY <1>1, <1>2, <1>3, PTL DEF Spec

-----------------------------------------------------------------------------
(* Receipts.  The live proofs of an account have different bank            *)
(* transactions, and each receipt carries those of an approved proof.      *)
Live == {"SUBMITTED", "APPROVED"}

LiveRefs ==
  \A f, g \in Proof :
    proof[f].status \in Live /\ proof[g].status \in Live
      /\ proof[f].account = proof[g].account /\ proof[f].txn = proof[g].txn
      => f = g

ReceiptRefs ==
  \A r \in receipts : r.account = proof[r.proof].account /\ r.txn = proof[r.proof].txn

MoneyInv == LiveRefs /\ ReceiptRefs /\ MoneyMatches

(* A step that adds no receipt and lets no order come to be paid. *)
LEMMA MoneyKept ==
  ASSUME TypeInv, ReceiptRefs, MoneyMatches, receipts' = receipts,
         \A o \in Order : status'[o] = "PAID" <=> status[o] = "PAID",
         \A o \in Order : status[o] = "PAID" => amount'[o] = amount[o],
         \A f \in Proof : proof[f].status = "APPROVED" => proof'[f] = proof[f]
  PROVE  ReceiptRefs' /\ MoneyMatches'
<1>t. receipts \subseteq ReceiptRow
  BY DEF TypeInv, TypeOK, PaymentType
<1>1. \A r \in receipts : /\ r.proof \in Proof /\ r.order \in Order
                          /\ proof[r.proof].status = "APPROVED" /\ status[r.order] = "PAID"
  BY <1>t DEF MoneyMatches, ReceiptRow
<1>2. \A r \in receipts : proof'[r.proof] = proof[r.proof] /\ amount'[r.order] = amount[r.order]
  BY <1>1
<1>3. ReceiptRefs'
  BY <1>2 DEF ReceiptRefs
<1>4. \A r \in receipts' : /\ proof'[r.proof].status = "APPROVED" /\ proof'[r.proof].order = r.order
                           /\ r.cents >= amount'[r.order]
                           /\ r.match = "EXCEPTION" <=> r.cents > amount'[r.order]
  BY <1>2 DEF MoneyMatches
<1>5. \A o \in Order : (status'[o] = "PAID" /\ amount'[o] > 0) <=> \E r \in receipts' : r.order = o
  BY <1>1 DEF MoneyMatches
<1>6. \A r, s \in receipts' : r.order = s.order \/ (r.account = s.account /\ r.txn = s.txn) => r = s
  BY DEF MoneyMatches
<1>7. MoneyMatches'
  BY <1>4, <1>5, <1>6 DEF MoneyMatches
<1>8. QED
  BY <1>3, <1>7

LEMMA MoneyNext == TypeInv /\ Owes /\ MoneyInv /\ [Next]_vars => MoneyInv'
<1> SUFFICES ASSUME TypeInv, Owes, LiveRefs, ReceiptRefs, MoneyMatches, [Next]_vars
             PROVE  LiveRefs' /\ ReceiptRefs' /\ MoneyMatches'
  BY DEF MoneyInv
<1> USE DEF quoteVars, payVars
<1>t. /\ status \in [Order -> Status] /\ amount \in [Order -> Nat]
      /\ proof \in [Proof -> ProofRow] /\ receipts \subseteq ReceiptRow
  BY DEF TypeInv, TypeOK, OrderType, QuoteType, PaymentType
(* Orders change before they are paid, and no proof or receipt does. *)
<1>k. ASSUME UNCHANGED <<proof, receipts>>,
             \A o \in Order : status'[o] = "PAID" <=> status[o] = "PAID",
             \A o \in Order : status[o] = "PAID" => amount'[o] = amount[o]
      PROVE  LiveRefs' /\ ReceiptRefs' /\ MoneyMatches'
  <2>1. LiveRefs'
    BY <1>k DEF LiveRefs
  <2>2. QED
    BY <1>k, <2>1, MoneyKept
<1>1. ASSUME NEW o \in Order, NEW ps \in PartLists, NEW c \in Coupon \cup {Null}, NEW at \in Read,
             BeginOrder(o, ps, c, at)
      PROVE  LiveRefs' /\ ReceiptRefs' /\ MoneyMatches'
  <2>1. /\ UNCHANGED <<proof, receipts>>
        /\ \A p \in Order : status'[p] = "PAID" <=> status[p] = "PAID"
        /\ \A p \in Order : status[p] = "PAID" => amount'[p] = amount[p]
    BY <1>1, <1>t DEF BeginOrder
  <2>2. QED
    BY <1>k, <2>1
<1>2. ASSUME NEW o \in Order, PickOffset(o) \/ CommitOrder(o) \/ RollbackOrder(o)
      PROVE  LiveRefs' /\ ReceiptRefs' /\ MoneyMatches'
  <2>1. CASE PickOffset(o)
    <3>1. /\ UNCHANGED <<proof, receipts>> /\ status[o] = "QUOTED"
          /\ status' = [status EXCEPT ![o] = "PRICED"]
          /\ \E n : amount' = [amount EXCEPT ![o] = @ - n]
      BY <2>1 DEF PickOffset
    <3>2. QED
      BY <1>k, <1>t, <3>1
  <2>2. CASE CommitOrder(o)
    BY <1>k, <1>t, <2>2 DEF CommitOrder
  <2>3. CASE RollbackOrder(o)
    BY <1>k, <1>t, <2>3 DEF RollbackOrder, InFlight
  <2>4. QED
    BY <1>2, <2>1, <2>2, <2>3
(* Nothing to pay: the order is paid, and no receipt says so. *)
<1>3. ASSUME NEW o \in Order, CommitFreeOrder(o) PROVE LiveRefs' /\ ReceiptRefs' /\ MoneyMatches'
  <2>1. /\ UNCHANGED <<proof, receipts, amount>> /\ amount[o] = 0 /\ status[o] = "QUOTED"
        /\ status' = [status EXCEPT ![o] = "PAID"]
    BY <1>3 DEF CommitFreeOrder
  <2>2. \A p \in Order : status'[p] = "PAID" /\ amount'[p] > 0 <=> status[p] = "PAID" /\ amount[p] > 0
    BY <1>t, <2>1
  <2>3. LiveRefs' /\ ReceiptRefs'
    BY <2>1 DEF LiveRefs, ReceiptRefs
  <2>4. MoneyMatches'
    BY <2>1, <2>2 DEF MoneyMatches
  <2>5. QED
    BY <2>3, <2>4
<1>4. ASSUME NEW O \in SUBSET Order, NEW from \in SUBSET OpenStatus, NEW to \in {"EXPIRED", "CANCELLED"},
             ReleaseOrders(O, from, to)
      PROVE  LiveRefs' /\ ReceiptRefs' /\ MoneyMatches'
  <2>1. /\ UNCHANGED <<proof, receipts, amount>>
        /\ \A p \in Order : status'[p] = "PAID" <=> status[p] = "PAID"
    BY <1>4, <1>t DEF ReleaseOrders, OpenStatus, Awaiting
  <2>2. QED
    BY <1>k, <2>1
<1>5. ASSUME NEW o \in Order, NEW f \in Proof, NEW t \in Txn, NEW at \in Read, SubmitProof(o, f, t, at)
      PROVE  LiveRefs' /\ ReceiptRefs' /\ MoneyMatches'
  <2>1. /\ UNCHANGED <<receipts, amount>> /\ proof[f].status = "NONE" /\ TxnFree(payTo[o], t)
        /\ proof' = [proof EXCEPT ![f] = [order |-> o, account |-> payTo[o], txn |-> t, status |-> "SUBMITTED"]]
        /\ status[o] \in Awaiting /\ status' = [status EXCEPT ![o] = "PROOF_SUBMITTED"]
    BY <1>5 DEF SubmitProof
  <2>2. proof'[f].account = payTo[o] /\ proof'[f].txn = t /\ \A g \in Proof \ {f} : proof'[g] = proof[g]
    BY <1>t, <2>1
  <2>3. LiveRefs'
    BY <2>1, <2>2 DEF LiveRefs, Live, TxnFree
  <2>4. \A p \in Order : status'[p] = "PAID" <=> status[p] = "PAID"
    BY <1>t, <2>1 DEF Awaiting
  <2>5. \A g \in Proof : proof[g].status = "APPROVED" => proof'[g] = proof[g]
    BY <2>1, <2>2
  <2>6. QED
    BY <2>1, <2>3, <2>4, <2>5, MoneyKept
<1>6. ASSUME NEW f \in Proof, RejectProof(f) PROVE LiveRefs' /\ ReceiptRefs' /\ MoneyMatches'
  <2> SUFFICES ASSUME NEW o, o = proof[f].order PROVE LiveRefs' /\ ReceiptRefs' /\ MoneyMatches'
    OBVIOUS
  <2>1. /\ UNCHANGED <<receipts, amount>> /\ proof[f].status = "SUBMITTED"
        /\ proof' = [proof EXCEPT ![f].status = "REJECTED"]
        /\ status[o] = "PROOF_SUBMITTED" /\ status' = [status EXCEPT ![o] = "PROOF_REJECTED"]
    BY <1>6 DEF RejectProof, Reviewable
  <2>a. proof'[f].status = "REJECTED" /\ \A g \in Proof \ {f} : proof'[g] = proof[g]
    BY <1>t, <2>1 DEF ProofRow
  <2>b. \A p \in Order : status'[p] = "PAID" <=> status[p] = "PAID"
    BY <1>t, <2>1
  <2>2. /\ proof'[f].status = "REJECTED" /\ \A g \in Proof \ {f} : proof'[g] = proof[g]
        /\ \A p \in Order : status'[p] = "PAID" <=> status[p] = "PAID"
    BY <2>a, <2>b
  <2>3. LiveRefs'
    BY <2>2 DEF LiveRefs, Live
  <2>4. \A g \in Proof : proof[g].status = "APPROVED" => proof'[g] = proof[g]
    BY <2>1, <2>2
  <2>5. QED
    BY <2>1, <2>2, <2>3, <2>4, MoneyKept
<1>7. ASSUME NEW f \in Proof, NEW cents \in Nat, ApproveProof(f, cents)
      PROVE  LiveRefs' /\ ReceiptRefs' /\ MoneyMatches'
  <2> SUFFICES ASSUME NEW o, o = proof[f].order, NEW new, new = Receipt(f, cents)
               PROVE  LiveRefs' /\ ReceiptRefs' /\ MoneyMatches'
    OBVIOUS
  <2>1. /\ proof[f].status = "SUBMITTED" /\ status[o] = "PROOF_SUBMITTED" /\ cents >= amount[o]
        /\ ReceiptFree(f) /\ proof' = [proof EXCEPT ![f].status = "APPROVED"]
        /\ receipts' = receipts \cup {new} /\ status' = [status EXCEPT ![o] = "PAID"]
        /\ amount' = amount
    BY <1>7 DEF ApproveProof, Reviewable
  <2>2. o \in Order
    BY <2>1 DEF TypeInv, ProofsBelong
  <2>3. /\ proof'[f].status = "APPROVED" /\ proof'[f].order = o
        /\ proof'[f].account = proof[f].account /\ proof'[f].txn = proof[f].txn
        /\ \A g \in Proof \ {f} : proof'[g] = proof[g]
    BY <1>t, <2>1 DEF ProofRow
  <2>4. /\ new.proof = f /\ new.order = o /\ new.account = proof[f].account
        /\ new.txn = proof[f].txn /\ new.cents = cents
        /\ new.match = "EXCEPTION" <=> cents > amount[o]
    BY DEF Receipt
  <2>5. amount[o] > 0
    BY <2>1, <2>2 DEF Owes, Priced, OpenStatus
  <2>6. \A r \in receipts : r.order # o /\ r.proof # f /\ ~(r.account = new.account /\ r.txn = new.txn)
    BY <2>1, <2>2, <2>4 DEF MoneyMatches, ReceiptFree
  <2>7. \A r \in receipts : r.proof \in Proof \ {f}
    BY <1>t, <2>6 DEF ReceiptRow
  <2>8. LiveRefs'
    BY <2>1, <2>3 DEF LiveRefs, Live
  <2>9. ReceiptRefs'
    BY <2>1, <2>3, <2>4, <2>7 DEF ReceiptRefs
  <2>10. \A p \in Order : (status'[p] = "PAID" /\ amount'[p] > 0) <=> \E r \in receipts' : r.order = p
    <3>1. \A p \in Order \ {o} : status'[p] = status[p]
      BY <1>t, <2>1
    <3>2. status'[o] = "PAID"
      BY <1>t, <2>1, <2>2
    <3>3. \A p \in Order \ {o} : (\E r \in receipts' : r.order = p) <=> \E r \in receipts : r.order = p
      BY <2>1, <2>4
    <3>4. QED
      BY <2>1, <2>4, <2>5, <3>1, <3>2, <3>3 DEF MoneyMatches
  <2>11. \A r \in receipts' : /\ proof'[r.proof].status = "APPROVED" /\ proof'[r.proof].order = r.order
                              /\ r.cents >= amount'[r.order]
                              /\ r.match = "EXCEPTION" <=> r.cents > amount'[r.order]
    BY <2>1, <2>3, <2>4, <2>7 DEF MoneyMatches
  <2>12. \A r, s \in receipts' : r.order = s.order \/ (r.account = s.account /\ r.txn = s.txn) => r = s
    BY <2>1, <2>4, <2>6 DEF MoneyMatches
  <2>13. QED
    BY <2>8, <2>9, <2>10, <2>11, <2>12 DEF MoneyMatches
<1>8. CASE UNCHANGED moneyVars
  BY <1>8, <1>k DEF moneyVars
<1>9. QED
  BY MoneySteps, <1>1, <1>2, <1>3, <1>4, <1>5, <1>6, <1>7, <1>8

LEMMA MoneyInvariant == Spec => [](TypeInv /\ Owes /\ MoneyInv)
<1>1. Init => TypeInv /\ Identified /\ Owes /\ MoneyInv
  <2>1. Init => MoneyInv
    <3> SUFFICES ASSUME Init PROVE MoneyInv
      OBVIOUS
    <3>1. receipts = {} /\ \A f \in Proof : proof[f].status = "NONE"
      BY DEF Init
    <3>2. \A o \in Order : status[o] = "NONE"
      BY DEF Init
    <3>3. LiveRefs /\ ReceiptRefs
      BY <3>1 DEF LiveRefs, Live, ReceiptRefs
    <3>4. MoneyMatches
      BY <3>1, <3>2 DEF MoneyMatches
    <3>5. QED
      BY <3>3, <3>4 DEF MoneyInv
  <2>2. QED
    BY <2>1, TypeInvInit, AmountsInit
<1>2. (TypeInv /\ Identified /\ Owes /\ MoneyInv) /\ [Next]_vars
        => (TypeInv /\ Identified /\ Owes /\ MoneyInv)'
  BY TypeInvNext, AmountsNext, MoneyNext
<1>3. QED
  BY <1>1, <1>2, PTL DEF Spec

(* An order that owed money is paid exactly by one receipt that covers it, *)
(* and a bank transaction pays for one order.                              *)
THEOREM OneReceiptPerPayment == Spec => []MoneyMatches
<1>1. MoneyInv => MoneyMatches
  BY DEF MoneyInv
<1>2. QED
  BY <1>1, MoneyInvariant, PTL

(* Whatever is in finance's queue can still be approved: no interleaving   *)
(* of buyers, reviewers and the deadline job leaves a proof whose order,   *)
(* seats or bank transaction are gone.                                     *)
THEOREM QueueStaysReviewable == Spec => []ReviewNeverStuck
<1>1. CountInv /\ MoneyInv => ReviewNeverStuck
  <2> SUFFICES ASSUME CountInv, MoneyInv, NEW f \in Proof, proof[f].status = "SUBMITTED"
               PROVE  /\ Reviewable(f) /\ ReceiptFree(f)
                      /\ reservation[proof[f].order] = "RESERVED" /\ CanMove({proof[f].order})
    BY DEF ReviewNeverStuck
  <2> SUFFICES ASSUME NEW o, o = proof[f].order
               PROVE  /\ Reviewable(f) /\ ReceiptFree(f) /\ reservation[o] = "RESERVED" /\ CanMove({o})
    OBVIOUS
  <2>1. o \in Order /\ Follows(o) /\ Queued(o)
    BY DEF CountInv, RowsInv, OrderRowsAgree, TypeInv, ProofsBelong
  <2>2. status[o] = "PROOF_SUBMITTED"
    BY <2>1 DEF Queued, UnderReview
  <2>3. reservation[o] = "RESERVED"
    BY <2>1, <2>2, StatusTables DEF Follows, OpenStatus
  <2>4. ReceiptFree(f)
    <3>1. receipts \subseteq ReceiptRow
      BY DEF CountInv, RowsInv, TypeInv, TypeOK, PaymentType
    <3>2. ASSUME NEW r \in receipts PROVE r.proof # f /\ ~(r.account = proof[f].account /\ r.txn = proof[f].txn)
      BY <3>1 DEF ReceiptRow, MoneyInv, MoneyMatches, ReceiptRefs, LiveRefs, Live
    <3>3. QED
      BY <3>2 DEF ReceiptFree
  <2>5. ASSUME NEW k \in Pool PROVE Cardinality(Moved({o}, k)) <= reserved[k]
    <3>1. Moved({o}, k) \subseteq Seats("RESERVED", k)
      BY <2>1, <2>3, MovedIsHeld DEF CountInv
    <3>2. IsFiniteSet(Seats("RESERVED", k))
      BY SeatsFinite
    <3>3. Cardinality(Moved({o}, k)) <= Cardinality(Seats("RESERVED", k))
      BY <3>1, <3>2, FS_Subset
    <3>4. QED
      BY <3>3 DEF CountInv, CountersConserved
  <2>6. QED
    BY <2>2, <2>3, <2>4, <2>5 DEF Reviewable, CanMove
<1>2. QED
  BY <1>1, CountInvariant, MoneyInvariant, PTL

-----------------------------------------------------------------------------
(* Notices.  Expired orders and reviewed proofs stay what they are, and    *)
(* the step that makes one enqueues its notice.                            *)
ExpiryTold(o) == status[o] = "EXPIRED" <=> Notice("ORDER_EXPIRED", o, Null) \in notices

ReviewTold(o, f) ==
  /\ proof[f].order = o /\ proof[f].status = "APPROVED" <=> Notice("PROOF_APPROVED", o, f) \in notices
  /\ proof[f].order = o /\ proof[f].status = "REJECTED" <=> Notice("PROOF_REJECTED", o, f) \in notices

Outcome == {"ORDER_EXPIRED", "PROOF_APPROVED", "PROOF_REJECTED"}

LEMMA NoticesAreTold ==
  OutcomesTold <=> \A o \in Reachable : ExpiryTold(o) /\ \A f \in Proof : ReviewTold(o, f)
BY DEF OutcomesTold, ExpiryTold, ReviewTold

(* A step after which the same orders are expired and the same proofs      *)
(* reviewed, and no outcome was enqueued.                                  *)
LEMMA NoticesKept ==
  ASSUME TypeInv, OutcomesTold,
         \A t \in Outcome, o \in Order : \A ref : Notice(t, o, ref) \in notices' <=> Notice(t, o, ref) \in notices,
         \A o \in Order : status'[o] = "EXPIRED" <=> status[o] = "EXPIRED",
         \A f \in Proof : \A s \in {"APPROVED", "REJECTED"} :
           /\ proof'[f].status = s <=> proof[f].status = s
           /\ proof[f].status = s => proof'[f].order = proof[f].order
  PROVE  OutcomesTold'
<1>1. ASSUME NEW o \in Reachable PROVE ExpiryTold(o)'
  BY NoticesAreTold, BuyersOfOrders DEF ExpiryTold, Outcome
<1>2. ASSUME NEW o \in Reachable, NEW f \in Proof PROVE ReviewTold(o, f)'
  <2>1. ReviewTold(o, f) /\ o \in Order
    BY NoticesAreTold, BuyersOfOrders
  <2>2. /\ Notice("PROOF_APPROVED", o, f) \in notices' <=> Notice("PROOF_APPROVED", o, f) \in notices
        /\ Notice("PROOF_REJECTED", o, f) \in notices' <=> Notice("PROOF_REJECTED", o, f) \in notices
    BY <2>1 DEF Outcome
  <2>3. QED
    BY <2>1, <2>2 DEF ReviewTold
<1>3. QED
  BY <1>1, <1>2, NoticesAreTold DEF OutcomesTold, ExpiryTold, ReviewTold

LEMMA OutcomesNext == TypeInv /\ OutcomesTold /\ [Next]_vars => OutcomesTold'
<1> SUFFICES ASSUME TypeInv, OutcomesTold, [Next]_vars PROVE OutcomesTold'
  OBVIOUS
<1> USE DEF payVars
<1>t. status \in [Order -> Status] /\ proof \in [Proof -> ProofRow]
  BY DEF TypeInv, TypeOK, OrderType, PaymentType
(* Steps that touch no proof. *)
<1>k. ASSUME UNCHANGED <<proof, notices>>, \A o \in Order : status'[o] = "EXPIRED" <=> status[o] = "EXPIRED"
      PROVE  OutcomesTold'
  BY <1>k, NoticesKept
<1>1. ASSUME NEW o \in Order, NEW ps \in PartLists, NEW c \in Coupon \cup {Null}, NEW at \in Read,
             BeginOrder(o, ps, c, at)
      PROVE  OutcomesTold'
  BY <1>1, <1>k, <1>t DEF BeginOrder
<1>2. ASSUME NEW o \in Order, PickOffset(o) PROVE OutcomesTold'
  BY <1>2, <1>k, <1>t DEF PickOffset
<1>3. ASSUME NEW o \in Order, CommitOrder(o) PROVE OutcomesTold'
  BY <1>3, <1>k, <1>t DEF CommitOrder
<1>4. ASSUME NEW o \in Order, CommitFreeOrder(o) PROVE OutcomesTold'
  BY <1>4, <1>k, <1>t DEF CommitFreeOrder
<1>5. ASSUME NEW o \in Order, RollbackOrder(o) PROVE OutcomesTold'
  BY <1>5, <1>k, <1>t DEF RollbackOrder, InFlight
<1>6. ASSUME NEW o \in Order, CancelOrder(o) PROVE OutcomesTold'
  BY <1>6, <1>k, <1>t DEF CancelOrder, ReleaseOrders
<1>7. ASSUME NEW o \in Order, NEW f \in Proof, NEW t \in Txn, NEW at \in Read, SubmitProof(o, f, t, at)
      PROVE  OutcomesTold'
  <2>1. /\ notices' = notices /\ proof[f].status = "NONE" /\ status[o] \in Awaiting
        /\ proof' = [proof EXCEPT ![f] = [order |-> o, account |-> payTo[o], txn |-> t, status |-> "SUBMITTED"]]
        /\ status' = [status EXCEPT ![o] = "PROOF_SUBMITTED"]
    BY <1>7 DEF SubmitProof
  <2>2. proof'[f].status = "SUBMITTED" /\ \A g \in Proof \ {f} : proof'[g] = proof[g]
    BY <1>t, <2>1
  <2>3. \A p \in Order : status'[p] = "EXPIRED" <=> status[p] = "EXPIRED"
    BY <1>t, <2>1 DEF Awaiting
  <2>4. QED
    BY <2>1, <2>2, <2>3, NoticesKept
(* The step that decides a proof tells its buyer. *)
<1>8. ASSUME NEW f \in Proof, NEW end \in {"APPROVED", "REJECTED"}, NEW o, o = proof[f].order,
             NEW template, template = IF end = "APPROVED" THEN "PROOF_APPROVED" ELSE "PROOF_REJECTED",
             proof[f].status = "SUBMITTED", proof' = [proof EXCEPT ![f].status = end],
             \A p \in Order : status'[p] = "EXPIRED" <=> status[p] = "EXPIRED",
             Enqueue({Notice(template, o, f)})
      PROVE  OutcomesTold'
  <2>1. /\ proof'[f].status = end /\ proof'[f].order = o
        /\ \A g \in Proof \ {f} : proof'[g] = proof[g]
    BY <1>8, <1>t DEF ProofRow
  <2>2. \A n : n \in notices' <=> n \in notices \/ (n = Notice(template, o, f) /\ o \in Reachable)
    BY <1>8 DEF Enqueue, Notice
  <2>3. \A x, y, z : Notice(x, y, z) = Notice(template, o, f) <=> x = template /\ y = o /\ z = f
    BY DEF Notice
  <2>4. template # "ORDER_EXPIRED"
    BY <1>8
  <2>5. ASSUME NEW p \in Reachable PROVE ExpiryTold(p)'
    BY <1>8, <2>2, <2>3, <2>4, NoticesAreTold, BuyersOfOrders DEF ExpiryTold
  <2>6. ASSUME NEW p \in Reachable, NEW g \in Proof PROVE ReviewTold(p, g)'
    <3>1. ReviewTold(p, g)
      BY NoticesAreTold
    <3>2. CASE p = o /\ g = f
      BY <1>8, <2>1, <2>2, <2>3, <3>1, <3>2 DEF ReviewTold
    <3>3. CASE g = f /\ p # o
      BY <1>8, <2>1, <2>2, <2>3, <3>1, <3>3 DEF ReviewTold
    <3>4. CASE g # f
      BY <2>1, <2>2, <2>3, <3>1, <3>4 DEF ReviewTold
    <3>5. QED
      BY <3>2, <3>3, <3>4
  <2>7. QED
    BY <2>5, <2>6, NoticesAreTold DEF OutcomesTold, ExpiryTold, ReviewTold
<1>9. ASSUME NEW f \in Proof, NEW cents, ApproveProof(f, cents) PROVE OutcomesTold'
  <2> SUFFICES ASSUME NEW o, o = proof[f].order PROVE OutcomesTold'
    OBVIOUS
  <2>1. /\ proof[f].status = "SUBMITTED" /\ proof' = [proof EXCEPT ![f].status = "APPROVED"]
        /\ status[o] = "PROOF_SUBMITTED" /\ status' = [status EXCEPT ![o] = "PAID"]
        /\ Enqueue({Notice("PROOF_APPROVED", o, f)})
    BY <1>9 DEF ApproveProof, Reviewable
  <2>2. \A p \in Order : status'[p] = "EXPIRED" <=> status[p] = "EXPIRED"
    BY <1>t, <2>1
  <2>3. QED
    BY <1>8, <2>1, <2>2
<1>10. ASSUME NEW f \in Proof, RejectProof(f) PROVE OutcomesTold'
  <2> SUFFICES ASSUME NEW o, o = proof[f].order PROVE OutcomesTold'
    OBVIOUS
  <2>1. /\ proof[f].status = "SUBMITTED" /\ proof' = [proof EXCEPT ![f].status = "REJECTED"]
        /\ status[o] = "PROOF_SUBMITTED" /\ status' = [status EXCEPT ![o] = "PROOF_REJECTED"]
        /\ Enqueue({Notice("PROOF_REJECTED", o, f)})
    BY <1>10 DEF RejectProof, Reviewable
  <2>2. \A p \in Order : status'[p] = "EXPIRED" <=> status[p] = "EXPIRED"
    BY <1>t, <2>1
  <2>3. QED
    BY <1>8, <2>1, <2>2
<1>11. ASSUME NEW B \in SUBSET DueForExpiry, ExpireBatch(B) PROVE OutcomesTold'
  <2>1. /\ B \subseteq Order /\ \A o \in B : status[o] \in Awaiting
        /\ status' = [o \in Order |-> IF o \in B THEN "EXPIRED" ELSE status[o]]
        /\ proof' = proof /\ Enqueue({Notice("ORDER_EXPIRED", o, Null) : o \in B})
    BY <1>11 DEF ExpireBatch, ReleaseOrders, DueForExpiry
  <2>2. \A x, y, z : Notice(x, y, z) \in notices' <=>
          Notice(x, y, z) \in notices
            \/ (x = "ORDER_EXPIRED" /\ y \in B /\ z = Null /\ y \in Reachable)
    BY <2>1 DEF Enqueue, Notice
  <2>3. ASSUME NEW p \in Reachable PROVE ExpiryTold(p)'
    BY <2>1, <2>2, NoticesAreTold, BuyersOfOrders DEF ExpiryTold
  <2>4. ASSUME NEW p \in Reachable, NEW g \in Proof PROVE ReviewTold(p, g)'
    <3>1. ReviewTold(p, g)
      BY NoticesAreTold
    <3>2. QED
      BY <2>1, <2>2, <3>1 DEF ReviewTold
  <2>5. QED
    BY <2>3, <2>4, NoticesAreTold DEF OutcomesTold, ExpiryTold, ReviewTold
<1>12. ASSUME NEW L \in listed, QueueReminders(L) PROVE OutcomesTold'
  <2>1. UNCHANGED <<status, proof>>
    BY <1>12 DEF QueueReminders
  <2>2. Enqueue({Notice("DEADLINE_REMINDER", e[1], e[2]) : e \in L})
    BY <1>12 DEF QueueReminders
  <2>3. \A t \in Outcome, o \in Order : \A ref : Notice(t, o, ref) \in notices' <=> Notice(t, o, ref) \in notices
    BY <2>2 DEF Enqueue, Notice, Outcome
  <2>4. QED
    BY <2>1, <2>3, NoticesKept
<1>16. ASSUME \/ \E asOf \in Read : ListReminders(asOf)
              \/ \E L \in listed : DropReminders(L)
       PROVE  OutcomesTold'
  BY <1>16, <1>k DEF ListReminders, DropReminders
<1>13. CASE Staff
  BY <1>13, <1>k DEF Staff, UpdateRegistration, SelectAccount, UpdatePriceRule, UpdateCoupon
<1>14. CASE Tick \/ UNCHANGED vars
  BY <1>14, <1>k DEF Tick, vars
<1>15. QED
  BY <1>1, <1>2, <1>3, <1>4, <1>5, <1>6, <1>7, <1>9, <1>10, <1>11, <1>12, <1>13, <1>14, <1>16
     DEF Next, Buyer, Finance, Deadlines

(* Reminders.  A committed order never becomes uncommitted again, and it   *)
(* awaits its first payment under one deadline only, so what was read of   *)
(* it without a lock stays true, or the buyer or the job has moved on.     *)
LEMMA CommittedStays ==
  ASSUME TypeInv, [Next]_vars, NEW o \in Order, status[o] \notin {"NONE"} \cup InFlight
  PROVE  /\ status'[o] \notin {"NONE"} \cup InFlight
         /\ status'[o] = "PENDING_PAYMENT" =>
              status[o] = "PENDING_PAYMENT" /\ deadline'[o] = deadline[o]
<1> USE DEF InFlight
<1>t. /\ status \in [Order -> Status] /\ deadline \in [Order -> Instant]
  BY DEF TypeInv, TypeOK, OrderType
<1> DEFINE Stays == /\ status'[o] \notin {"NONE"} \cup InFlight
                    /\ status'[o] = "PENDING_PAYMENT" =>
                         status[o] = "PENDING_PAYMENT" /\ deadline'[o] = deadline[o]
<1>1. ASSUME UNCHANGED <<status, deadline>> PROVE Stays
  BY <1>1
<1>2. ASSUME NEW q \in Order, NEW s, NEW d,
             status' = [status EXCEPT ![q] = s], deadline' = [deadline EXCEPT ![q] = d],
             q = o => s \notin {"NONE", "QUOTED", "PRICED", "PENDING_PAYMENT"}
      PROVE  Stays
  BY <1>2, <1>t
<1>3. ASSUME NEW O, NEW from, NEW to \in {"CANCELLED", "EXPIRED"}, ReleaseOrders(O, from, to)
      PROVE  Stays
  BY <1>3 DEF ReleaseOrders
<1>4. CASE Buyer
  <2>1. ASSUME NEW q \in Order, NEW ps, NEW c, NEW at, BeginOrder(q, ps, c, at) PROVE Stays
    BY <2>1, <1>t DEF BeginOrder
  <2>2. ASSUME NEW q \in Order, PickOffset(q) \/ CommitOrder(q) PROVE Stays
    BY <2>2, <1>t DEF PickOffset, CommitOrder
  <2>3. ASSUME NEW q \in Order, CommitFreeOrder(q) \/ RollbackOrder(q) PROVE Stays
    BY <2>3, <1>2 DEF CommitFreeOrder, RollbackOrder
  <2>4. ASSUME NEW q \in Order, CancelOrder(q) PROVE Stays
    BY <2>4, <1>3 DEF CancelOrder
  <2>5. ASSUME NEW q \in Order, NEW f, NEW t, NEW at, SubmitProof(q, f, t, at) PROVE Stays
    BY <2>5, <1>2 DEF SubmitProof
  <2>. QED  BY <1>4, <2>1, <2>2, <2>3, <2>4, <2>5 DEF Buyer
<1>5. CASE Finance
  <2>1. ASSUME NEW f \in Proof, NEW cents, ApproveProof(f, cents) PROVE Stays
    <3>1. proof[f].order \in Order
      BY <2>1 DEF ApproveProof, Reviewable, TypeInv, ProofsBelong
    <3>2. /\ status' = [status EXCEPT ![proof[f].order] = "PAID"]
          /\ deadline' = [deadline EXCEPT ![proof[f].order] = Null]
      BY <2>1 DEF ApproveProof
    <3>. QED  BY <3>1, <3>2, <1>2
  <2>2. ASSUME NEW f \in Proof, RejectProof(f) PROVE Stays
    <3>1. proof[f].order \in Order
      BY <2>2 DEF RejectProof, Reviewable, TypeInv, ProofsBelong
    <3>2. /\ status' = [status EXCEPT ![proof[f].order] = "PROOF_REJECTED"]
          /\ deadline' = [deadline EXCEPT ![proof[f].order] = now + ReuploadWindow]
      BY <2>2 DEF RejectProof
    <3>. QED  BY <3>1, <3>2, <1>2
  <2>. QED  BY <1>5, <2>1, <2>2 DEF Finance
<1>6. CASE Deadlines
  BY <1>6, <1>1, <1>3 DEF Deadlines, ExpireBatch, ListReminders, QueueReminders, DropReminders
<1>7. CASE Staff \/ Tick \/ UNCHANGED vars
  BY <1>7, <1>1 DEF Staff, UpdateRegistration, SelectAccount, UpdatePriceRule, UpdateCoupon, Tick,
                    vars
<1>. QED
  BY <1>4, <1>5, <1>6, <1>7 DEF Next

(* Time does not go back. *)
LEMMA TimePasses == TypeInv /\ [Next]_vars => now' = now \/ now' = now + 1
<1>. SUFFICES ASSUME TypeInv, [Next]_vars PROVE now' = now \/ now' = now + 1
  OBVIOUS
<1>1. CASE Buyer
  <2>1. ASSUME NEW o \in Order, NEW ps, NEW c, NEW at, BeginOrder(o, ps, c, at)
        PROVE  now' = now
    BY <2>1 DEF BeginOrder
  <2>2. ASSUME NEW o \in Order, \/ PickOffset(o) \/ CommitOrder(o) \/ CommitFreeOrder(o)
                                \/ RollbackOrder(o) \/ CancelOrder(o)
        PROVE  now' = now
    BY <2>2 DEF PickOffset, CommitOrder, CommitFreeOrder, RollbackOrder, CancelOrder, ReleaseOrders
  <2>3. ASSUME NEW o \in Order, NEW f, NEW t, NEW at, SubmitProof(o, f, t, at)
        PROVE  now' = now
    BY <2>3 DEF SubmitProof
  <2>. QED  BY <1>1, <2>1, <2>2, <2>3 DEF Buyer
<1>2. CASE Finance
  BY <1>2 DEF Finance, ApproveProof, RejectProof
<1>3. CASE Deadlines
  BY <1>3 DEF Deadlines, ExpireBatch, ReleaseOrders, ListReminders, QueueReminders, DropReminders
<1>4. CASE Staff \/ Tick \/ UNCHANGED vars
  BY <1>4 DEF Staff, UpdateRegistration, SelectAccount, UpdatePriceRule, UpdateCoupon, Tick, vars
<1>. QED
  BY <1>1, <1>2, <1>3, <1>4 DEF Next

(* No notice is taken back, and a new reminder was listed before.          *)
LEMMA NewNotices ==
  ASSUME [Next]_vars
  PROVE  /\ notices \subseteq notices'
         /\ \A n \in notices' \ notices : n.template = "DEADLINE_REMINDER" =>
              \E L \in listed : \E e \in L : n = Notice("DEADLINE_REMINDER", e[1], e[2])
<1> DEFINE Grows == /\ notices \subseteq notices'
                    /\ \A n \in notices' \ notices : n.template = "DEADLINE_REMINDER" =>
                         \E L \in listed : \E e \in L : n = Notice("DEADLINE_REMINDER", e[1], e[2])
<1>1. ASSUME notices' = notices PROVE Grows
  BY <1>1
<1>2. ASSUME NEW S, NEW T \in Outcome, Enqueue(S), \A n \in S : n.template = T PROVE Grows
  <2>1. T # "DEADLINE_REMINDER"
    BY DEF Outcome
  <2>. QED  BY <1>2, <2>1 DEF Enqueue
<1>3. CASE Buyer
  BY <1>1, <1>3, BuyersAreSilent
<1>4. ASSUME NEW f \in Proof, RejectProof(f) \/ \E cents : ApproveProof(f, cents)
      PROVE  Grows
  <2>1. \E T \in Outcome : Enqueue({Notice(T, proof[f].order, f)})
    BY <1>4 DEF RejectProof, ApproveProof, Outcome
  <2>. QED  BY <1>2, <2>1 DEF Notice
<1>5. ASSUME NEW B \in SUBSET DueForExpiry, ExpireBatch(B) PROVE Grows
  <2>1. Enqueue({Notice("ORDER_EXPIRED", q, Null) : q \in B})
    BY <1>5 DEF ExpireBatch
  <2>. QED  BY <1>2, <2>1 DEF Notice, Outcome
<1>6. ASSUME NEW L \in listed, QueueReminders(L) PROVE Grows
  BY <1>6 DEF QueueReminders, Enqueue
<1>7. ASSUME \/ \E asOf \in Read : ListReminders(asOf)
             \/ \E L \in listed : DropReminders(L)
      PROVE  Grows
  BY <1>1, <1>7 DEF ListReminders, DropReminders
<1>8. CASE Staff \/ Tick \/ UNCHANGED vars
  BY <1>1, <1>8 DEF Staff, UpdateRegistration, SelectAccount, UpdatePriceRule, UpdateCoupon, Tick,
                    vars
<1>. QED
  BY <1>3, <1>4, <1>5, <1>6, <1>7, <1>8 DEF Next, Finance, Deadlines

(* What the job reads of an order it lists. *)
LEMMA ListedWhenDue ==
  ASSUME RowsInv, NEW asOf \in Read, NEW o \in NearDeadline(asOf)
  PROVE  /\ o \in Order /\ status[o] \in Awaiting /\ deadline[o] \in Nat
         /\ deadline[o] <= now + ReminderWindow /\ now < deadline[o] + Lag
<1>1. o \in Order /\ status[o] \in Awaiting
  BY BuyersOfOrders DEF NearDeadline
<1>2. deadline[o] > asOf /\ deadline[o] <= asOf + ReminderWindow
  BY DEF NearDeadline
<1>3. deadline[o] \in Nat
  <2>1. deadline[o] # Null
    BY <1>1 DEF RowsInv, OrderRowsAgree, Follows
  <2>2. deadline[o] \in Instant
    BY <1>1 DEF RowsInv, TypeInv, TypeOK, OrderType
  <2>. QED  BY <2>1, <2>2 DEF Instant
<1>4. now \in Nat /\ asOf \in Nat /\ asOf <= now /\ now - asOf <= Lag
  BY DEF RowsInv, TypeInv, TypeOK, SetupType, Read
<1>. QED
  BY <1>1, <1>2, <1>3, <1>4, NumbersType

(* The reminders queued or listed are of orders and instants. *)
ReminderInv ==
  /\ RemindersTell
  /\ \A n \in notices : n.template = "DEADLINE_REMINDER" => n.order \in Order /\ n.ref \in Nat
  /\ \A L \in listed : \A e \in L : e[1] \in Order /\ e[2] \in Nat

LEMMA RemindersNext == RowsInv /\ ReminderInv /\ [Next]_vars => ReminderInv'
<1>. SUFFICES ASSUME RowsInv, ReminderInv, [Next]_vars PROVE ReminderInv'
  OBVIOUS
<1>1. ASSUME NEW o \in Order, NEW d \in Nat, ReminderHolds(o, d)
      PROVE  ReminderHolds(o, d)'
  <2>1. now \in Nat /\ (now' = now \/ now' = now + 1)
    BY TimePasses DEF RowsInv, TypeInv, TypeOK, SetupType
  <2>2. status[o] \notin {"NONE"} \cup InFlight /\ d <= now + ReminderWindow
    BY <1>1 DEF ReminderHolds
  <2>3. /\ status'[o] \notin {"NONE"} \cup InFlight
        /\ status'[o] = "PENDING_PAYMENT" =>
             status[o] = "PENDING_PAYMENT" /\ deadline'[o] = deadline[o]
    BY <2>2, CommittedStays DEF RowsInv
  <2>4. d <= now' + ReminderWindow
    BY <2>1, <2>2, NumbersType
  <2>. QED  BY <1>1, <2>3, <2>4 DEF ReminderHolds
<1>2. ASSUME NEW L \in listed, NEW e \in L
      PROVE  e[1] \in Order /\ e[2] \in Nat /\ ReminderHolds(e[1], e[2])'
  BY <1>1, <1>2 DEF ReminderInv, RemindersTell
<1>3. ASSUME NEW n \in notices', n.template = "DEADLINE_REMINDER"
      PROVE  n.order \in Order /\ n.ref \in Nat /\ ReminderHolds(n.order, n.ref)'
  <2>1. CASE n \in notices
    BY <1>1, <1>3, <2>1 DEF ReminderInv, RemindersTell
  <2>2. CASE n \notin notices
    <3>1. PICK L \in listed : \E e \in L : n = Notice("DEADLINE_REMINDER", e[1], e[2])
      BY <1>3, <2>2, NewNotices
    <3>2. PICK e \in L : n = Notice("DEADLINE_REMINDER", e[1], e[2])
      BY <3>1
    <3>3. n.order = e[1] /\ n.ref = e[2]
      BY <3>2 DEF Notice
    <3>. QED  BY <1>2, <3>3
  <2>. QED  BY <2>1, <2>2
<1>4. ASSUME NEW L \in listed', NEW e \in L
      PROVE  e[1] \in Order /\ e[2] \in Nat /\ ReminderHolds(e[1], e[2])'
  <2>1. CASE L \in listed
    BY <1>2, <2>1
  <2>2. ASSUME NEW asOf \in Read, ListReminders(asOf), L \notin listed
        PROVE  e[1] \in Order /\ e[2] \in Nat /\ ReminderHolds(e[1], e[2])'
    <3>1. L = {<<o, deadline[o]>> : o \in NearDeadline(asOf)}
      BY <2>2 DEF ListReminders
    <3>2. PICK o \in NearDeadline(asOf) : e = <<o, deadline[o]>>
      BY <3>1
    <3>3. /\ o \in Order /\ status[o] \in Awaiting /\ deadline[o] \in Nat
          /\ deadline[o] <= now + ReminderWindow
      BY ListedWhenDue
    <3>4. ReminderHolds(o, deadline[o])
      BY <3>3 DEF ReminderHolds, Awaiting, InFlight
    <3>. PICK d \in Nat : d = deadline[o]
      BY <3>3
    <3>5. ReminderHolds(o, d)'
      BY <1>1, <3>3, <3>4
    <3>. QED  BY <3>2, <3>3, <3>5
  <2>. QED  BY <2>1, <2>2, ListsChange
<1>. QED
  BY <1>3, <1>4 DEF ReminderInv, RemindersTell

(* A buyer hears that an order expired, or that a proof was approved or    *)
(* rejected, exactly when it was, in whatever order those transactions     *)
(* commit; and a reminder, although read without a lock, is of an order    *)
(* that exists, never early, and of the deadline still running unless the  *)
(* order has moved on.                                                     *)
THEOREM BuyersToldTheTruth == Spec => []NoticesTell
<1>1. Init => OutcomesTold /\ ReminderInv
  <2>1. Init => OutcomesTold
    <3> SUFFICES ASSUME Init, NEW o \in Reachable
                 PROVE  ExpiryTold(o) /\ \A f \in Proof : ReviewTold(o, f)
      BY NoticesAreTold
    <3>1. notices = {} /\ \A f \in Proof : proof[f].status = "NONE"
      BY DEF Init
    <3>2. status[o] = "NONE"
      BY BuyersOfOrders DEF Init
    <3>3. QED
      BY <3>1, <3>2 DEF ExpiryTold, ReviewTold
  <2>2. Init => ReminderInv
    BY DEF Init, ReminderInv, RemindersTell
  <2>3. QED
    BY <2>1, <2>2
<1>2. RowsInv /\ OutcomesTold /\ [Next]_vars => OutcomesTold'
  BY OutcomesNext DEF RowsInv
<1>3. RowsInv /\ ReminderInv /\ [Next]_vars => ReminderInv'
  BY RemindersNext
<1>4. OutcomesTold /\ ReminderInv => NoticesTell
  BY DEF NoticesTell, ReminderInv
<1>5. QED
  BY <1>1, <1>2, <1>3, <1>4, RowsInvariant, PTL DEF Spec

(* The job lists an order only while its buyer is to act, with the         *)
(* deadline it has at that moment, no earlier than the window before it    *)
(* and no later than a clock reading's age after it.  A reminder queued    *)
(* later was so listed, and none is ever taken back.  What the order is by *)
(* then is for NoticesTell to say.                                         *)
THEOREM RemindersFollowReads ==
  Spec => [][/\ \A L \in listed' \ listed : \A e \in L :
                  /\ e[1] \in Order /\ status[e[1]] \in Awaiting /\ e[2] = deadline[e[1]]
                  /\ e[2] <= now + ReminderWindow /\ now < e[2] + Lag
             /\ notices \subseteq notices'
             /\ \A n \in notices' \ notices : n.template = "DEADLINE_REMINDER" =>
                  \E L \in listed : <<n.order, n.ref>> \in L]_vars
<1>1. ASSUME RowsInv, [Next]_vars, NEW L \in listed' \ listed, NEW e \in L
      PROVE  /\ e[1] \in Order /\ status[e[1]] \in Awaiting /\ e[2] = deadline[e[1]]
             /\ e[2] <= now + ReminderWindow /\ now < e[2] + Lag
  <2>1. PICK asOf \in Read : ListReminders(asOf)
    BY <1>1, ListsChange
  <2>2. L = {<<o, deadline[o]>> : o \in NearDeadline(asOf)}
    BY <1>1, <2>1 DEF ListReminders
  <2>3. PICK o \in NearDeadline(asOf) : e = <<o, deadline[o]>>
    BY <2>2
  <2>. QED  BY <1>1, <2>3, ListedWhenDue
<1>2. ASSUME RowsInv, [Next]_vars, NEW n \in notices' \ notices, n.template = "DEADLINE_REMINDER"
      PROVE  \E L \in listed : <<n.order, n.ref>> \in L
  <2>1. PICK L \in listed : \E e \in L : n = Notice("DEADLINE_REMINDER", e[1], e[2])
    BY <1>2, NewNotices
  <2>2. PICK e \in L : n = Notice("DEADLINE_REMINDER", e[1], e[2])
    BY <2>1
  <2>3. e \in Order \X Instant
    BY <1>2, <2>1, <2>2 DEF RowsInv, TypeInv, TypeOK, ReminderType
  <2>4. <<n.order, n.ref>> = e
    BY <2>2, <2>3 DEF Notice
  <2>. QED  BY <2>4
<1>3. RowsInv /\ [Next]_vars =>
        [/\ \A L \in listed' \ listed : \A e \in L :
              /\ e[1] \in Order /\ status[e[1]] \in Awaiting /\ e[2] = deadline[e[1]]
              /\ e[2] <= now + ReminderWindow /\ now < e[2] + Lag
         /\ notices \subseteq notices'
         /\ \A n \in notices' \ notices : n.template = "DEADLINE_REMINDER" =>
              \E L \in listed : <<n.order, n.ref>> \in L]_vars
  BY <1>1, <1>2, NewNotices
<1>. QED
  BY <1>3, RowsInvariant, PTL DEF Spec
=============================================================================
