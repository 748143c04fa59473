------------------------------ MODULE LockProofs ------------------------------
(***************************************************************************)
(* No deadlock between the transactions of OrderLocks, for any number of   *)
(* transactions, any ids, carts and orders.                                *)
(*                                                                         *)
(* Every request has a rank, given by what it locks and how strongly; a    *)
(* transaction's locks are always below what it has still to ask for, also *)
(* when they are measured by the weakest request they can make wait.  A    *)
(* circle of waiting transactions would have to climb for ever.            *)
(***************************************************************************)
EXTENDS OrderLocks, WellFoundedInduction, TLAPS

(* What the proofs need of a request's type. *)
Numbered(R) == \A q \in R : q.step \in Nat /\ q.id \in Id

Rank(class, mode) ==
  IF mode = "KeyShare" /\ class \in {"category", "account"} THEN 8
  ELSE IF mode = "KeyShare" /\ class \in {"event", "user"} THEN 9
  ELSE IF class \in {"event", "proof", "user", "account"} THEN 1
  ELSE IF class \in {"key", "order"} THEN 2
  ELSE IF class \in {"person", "ref", "receipt", "notice"} THEN 3
  ELSE IF class = "amounts" THEN 4
  ELSE IF class = "category" THEN 5
  ELSE IF class \in {"rule", "signup"} THEN 6
  ELSE 7

(* A request for what q locks, in the mode m, ranks below r. *)
Below(q, m, r) ==
  \/ Rank(q.class, m) < Rank(r.class, r.mode)
  \/ Rank(q.class, m) = Rank(r.class, r.mode) /\ q.id < r.id

Under(q, r) == \A m \in Blocks(q.mode) : Below(q, m, r)

Sorted(R) == Numbered(R) /\ \A q, r \in R : Before(q, r) => Under(q, r)

LockInv ==
  /\ DOMAIN todo = Txn /\ DOMAIN held = Txn
  /\ \A t \in Txn :
    /\ Sorted(todo[t]) /\ Numbered(held[t])
    /\ \A h \in held[t], r \in todo[t] : Under(h, r)

LEMMA BlocksTable ==
  \A mode :
    /\ mode = "KeyShare" => Blocks(mode) = {"Update"}
    /\ mode = "Share" => Blocks(mode) = {"NoKeyUpdate", "Update"}
    /\ mode = "NoKeyUpdate" => Blocks(mode) = {"Share", "NoKeyUpdate", "Update"}
    /\ mode = "Update" => Blocks(mode) = {"KeyShare", "Share", "NoKeyUpdate", "Update"}
  BY DEF Blocks, Mode

LEMMA RankBound ==
  \A class, mode : Rank(class, mode) \in Nat /\ 1 <= Rank(class, mode) /\ Rank(class, mode) <= 9
  BY DEF Rank

(* A request of this class and mode has rank n, and what it locks makes    *)
(* wait requests up to rank c.                                             *)
Level(class, mode, n, c) ==
  Rank(class, mode) = n /\ \A m \in Blocks(mode) : Rank(class, m) <= c

LEMMA Levels ==
  ASSUME NEW class, NEW mode
  PROVE  /\ class = "event" /\ mode = "Share" => Level(class, mode, 1, 1)
         /\ class = "proof" /\ mode = "Update" => Level(class, mode, 1, 1)
         /\ class \in {"event", "user"} /\ mode = "Update" => Level(class, mode, 1, 9)
         /\ class \in {"event", "user"} /\ mode = "KeyShare" => Level(class, mode, 9, 1)
         /\ class = "account" /\ mode = "Update" => Level(class, mode, 1, 8)
         /\ class = "account" /\ mode = "KeyShare" => Level(class, mode, 8, 1)
         /\ class \in {"key", "order"} /\ mode = "Update" => Level(class, mode, 2, 2)
         /\ class \in {"person", "ref", "receipt", "notice"} /\ mode = "Update" => Level(class, mode, 3, 3)
         /\ class = "amounts" /\ mode = "Update" => Level(class, mode, 4, 4)
         /\ class = "category" /\ mode = "NoKeyUpdate" => Level(class, mode, 5, 5)
         /\ class = "category" /\ mode = "KeyShare" => Level(class, mode, 8, 5)
         /\ class = "rule" /\ mode = "NoKeyUpdate" => Level(class, mode, 6, 6)
         /\ class \in {"rule", "signup"} /\ mode = "Update" => Level(class, mode, 6, 6)
         /\ class = "coupon" /\ mode = "NoKeyUpdate" => Level(class, mode, 7, 7)
         /\ class = "coupon" /\ mode = "Update" => Level(class, mode, 7, 7)
<1>1. \A m : Rank(class, m) \in Nat
  BY RankBound
<1> QED
  BY <1>1, BlocksTable DEF Level, Rank

LEMMA CountersFields ==
  ASSUME NEW c \in Carts
  PROVE  \A q \in Counters(c) :
           /\ q.id \in Id
           /\ \/ q.step = 5 /\ q.class = "category" /\ q.mode = "NoKeyUpdate"
              \/ q.step = 6 /\ q.class = "rule" /\ q.mode = "NoKeyUpdate"
              \/ q.step = 7 /\ q.class = "coupon" /\ q.mode = "NoKeyUpdate"
  BY DEF Counters, Ask, Carts

LEMMA CreateOrderSorted ==
  ASSUME NEW e \in Id, NEW k \in Id, NEW c \in Carts, NEW a \in Id, NEW u \in Id
  PROVE  Sorted(CreateOrder(e, k, c, a, u))
<1>1. \A q \in CreateOrder(e, k, c, a, u) :
        /\ q.id \in Id
        /\ \/ q.step = 1 /\ q.class = "event" /\ q.mode = "Share"
           \/ q.step = 2 /\ q.class = "key" /\ q.mode = "Update"
           \/ q.step = 3 /\ q.class = "person" /\ q.mode = "Update"
           \/ q.step = 4 /\ q.class = "amounts" /\ q.mode = "Update"
           \/ q.step = 5 /\ q.class = "category" /\ q.mode = "NoKeyUpdate"
           \/ q.step = 6 /\ q.class = "rule" /\ q.mode = "NoKeyUpdate"
           \/ q.step = 7 /\ q.class = "coupon" /\ q.mode = "NoKeyUpdate"
           \/ q.step = 8 /\ q.class = "account" /\ q.mode = "KeyShare"
           \/ q.step = 9 /\ q.class = "user" /\ q.mode = "KeyShare"
  BY CountersFields, LockInstance DEF CreateOrder, Ask, Carts
<1> QED
  BY <1>1, Levels, RankBound, LockInstance DEF Sorted, Numbered, Before, Under, Below, Level, Id

LEMMA CancelOrderSorted ==
  ASSUME NEW o \in DOMAIN OrderCart
  PROVE  Sorted(CancelOrder(o))
<1>1. \A q \in CancelOrder(o) :
        /\ q.id \in Id
        /\ \/ q.step = 1 /\ q.class = "order" /\ q.mode = "Update"
           \/ q.step = 5 /\ q.class = "category" /\ q.mode = "NoKeyUpdate"
           \/ q.step = 6 /\ q.class = "rule" /\ q.mode = "NoKeyUpdate"
           \/ q.step = 7 /\ q.class = "coupon" /\ q.mode = "NoKeyUpdate"
  BY CountersFields, LockInstance DEF CancelOrder, Ask, Carts
<1> QED
  BY <1>1, Levels, RankBound, LockInstance DEF Sorted, Numbered, Before, Under, Below, Level, Id

LEMMA SubmitProofSorted ==
  ASSUME NEW o \in DOMAIN OrderCart, NEW n \in Id, NEW a \in Id, NEW u \in Id
  PROVE  Sorted(SubmitProof(o, n, a, u))
<1>1. \A q \in SubmitProof(o, n, a, u) :
        /\ q.id \in Id
        /\ \/ q.step = 1 /\ q.class = "order" /\ q.mode = "Update"
           \/ q.step = 2 /\ q.class = "ref" /\ q.mode = "Update"
           \/ q.step = 3 /\ q.class = "account" /\ q.mode = "KeyShare"
           \/ q.step = 4 /\ q.class = "user" /\ q.mode = "KeyShare"
  BY LockInstance DEF SubmitProof, Ask, Carts
<1> QED
  BY <1>1, Levels, RankBound, LockInstance DEF Sorted, Numbered, Before, Under, Below, Level, Id

LEMMA ApproveProofSorted ==
  ASSUME NEW p \in Id, NEW o \in DOMAIN OrderCart, NEW n \in Id, NEW a \in Id
  PROVE  Sorted(ApproveProof(p, o, n, a))
<1>1. \A q \in ApproveProof(p, o, n, a) :
        /\ q.id \in Id
        /\ \/ q.step = 1 /\ q.class = "proof" /\ q.mode = "Update"
           \/ q.step = 2 /\ q.class = "order" /\ q.mode = "Update"
           \/ q.step = 3 /\ q.class = "receipt" /\ q.mode = "Update"
           \/ q.step = 4 /\ q.class = "account" /\ q.mode = "KeyShare"
           \/ q.step = 5 /\ q.class = "category" /\ q.mode = "NoKeyUpdate"
           \/ q.step = 6 /\ q.class = "rule" /\ q.mode = "NoKeyUpdate"
           \/ q.step = 7 /\ q.class = "coupon" /\ q.mode = "NoKeyUpdate"
  BY CountersFields, LockInstance DEF ApproveProof, Ask, Carts
<1> QED
  BY <1>1, Levels, RankBound, LockInstance DEF Sorted, Numbered, Before, Under, Below, Level, Id

LEMMA RejectProofSorted ==
  ASSUME NEW p \in Id, NEW o \in DOMAIN OrderCart, NEW n \in Id
  PROVE  Sorted(RejectProof(p, o, n))
<1>1. \A q \in RejectProof(p, o, n) :
        /\ q.id \in Id
        /\ \/ q.step = 1 /\ q.class = "proof" /\ q.mode = "Update"
           \/ q.step = 2 /\ q.class = "order" /\ q.mode = "Update"
           \/ q.step = 3 /\ q.class = "ref" /\ q.mode = "Update"
  BY LockInstance DEF RejectProof, Ask, Carts
<1> QED
  BY <1>1, Levels, RankBound, LockInstance DEF Sorted, Numbered, Before, Under, Below, Level, Id

LEMMA BatchCountersSorted ==
  ASSUME NEW O \in SUBSET DOMAIN OrderCart
  PROVE  Sorted(BatchCounters(O))
<1>1. \A q \in BatchCounters(O) :
        /\ q.id \in Id
        /\ \/ q.step = 5 /\ q.class = "category" /\ q.mode = "NoKeyUpdate"
           \/ q.step = 6 /\ q.class = "rule" /\ q.mode = "NoKeyUpdate"
           \/ q.step = 7 /\ q.class = "coupon" /\ q.mode = "NoKeyUpdate"
  BY CountersFields, LockInstance DEF BatchCounters, Ask, Carts
<1> QED
  BY <1>1, Levels, RankBound, LockInstance DEF Sorted, Numbered, Before, Under, Below, Level, Id

LEMMA UpdatePriceRuleSorted ==
  ASSUME NEW r \in Id, NEW C \in SUBSET Id
  PROVE  Sorted(UpdatePriceRule(r, C))
<1>1. \A q \in UpdatePriceRule(r, C) :
        /\ q.id \in Id
        /\ \/ q.step = 1 /\ q.class = "rule" /\ q.mode = "Update"
           \/ q.step = 2 /\ q.class = "category" /\ q.mode = "KeyShare"
  BY LockInstance DEF UpdatePriceRule, Ask, Carts
<1> QED
  BY <1>1, Levels, RankBound, LockInstance DEF Sorted, Numbered, Before, Under, Below, Level, Id

LEMMA UpdateCouponSorted ==
  ASSUME NEW k \in Id, NEW e \in Id
  PROVE  Sorted(UpdateCoupon(k, e))
<1>1. \A q \in UpdateCoupon(k, e) :
        /\ q.id \in Id
        /\ \/ q.step = 1 /\ q.class = "coupon" /\ q.mode = "Update"
           \/ q.step = 2 /\ q.class = "event" /\ q.mode = "KeyShare"
  BY LockInstance DEF UpdateCoupon, Ask, Carts
<1> QED
  BY <1>1, Levels, RankBound, LockInstance DEF Sorted, Numbered, Before, Under, Below, Level, Id

LEMMA UpdateAccountSorted ==
  ASSUME NEW a \in Id, NEW e \in Id
  PROVE  Sorted(UpdateAccount(a, e))
<1>1. \A q \in UpdateAccount(a, e) :
        /\ q.id \in Id
        /\ \/ q.step = 1 /\ q.class = "account" /\ q.mode = "Update" /\ q.id = a
           \/ q.step = 2 /\ q.class = "event" /\ q.mode = "KeyShare"
  BY LockInstance DEF UpdateAccount, Ask, Carts
<1> QED
  BY <1>1, Levels, RankBound, LockInstance DEF Sorted, Numbered, Before, Under, Below, Level, Id

LEMMA UpdateRegistrationSorted ==
  ASSUME NEW e \in Id
  PROVE  Sorted(UpdateRegistration(e))
<1>1. \A q \in UpdateRegistration(e) :
        /\ q.id \in Id
        /\ \/ q.step = 1 /\ q.class = "event" /\ q.mode = "Update" /\ q.id = e
  BY LockInstance DEF UpdateRegistration, Ask, Carts
<1> QED
  BY <1>1, Levels, RankBound, LockInstance DEF Sorted, Numbered, Before, Under, Below, Level, Id

LEMMA SaveSelfProfileSorted ==
  ASSUME NEW u \in Id
  PROVE  Sorted(SaveSelfProfile(u))
<1>1. \A q \in SaveSelfProfile(u) :
        /\ q.id \in Id
        /\ \/ q.step = 1 /\ q.class = "user" /\ q.mode = "Update" /\ q.id = u
  BY LockInstance DEF SaveSelfProfile, Ask, Carts
<1> QED
  BY <1>1, Levels, RankBound, LockInstance DEF Sorted, Numbered, Before, Under, Below, Level, Id

LEMMA FreeSignupSorted ==
  ASSUME NEW e \in Id, NEW c \in Id, NEW n \in Id, NEW u \in Id
  PROVE  Sorted(FreeSignup(e, c, n, u))
<1>1. \A q \in FreeSignup(e, c, n, u) :
        /\ q.id \in Id
        /\ \/ q.step = 1 /\ q.class = "event" /\ q.mode = "Share"
           \/ q.step = 2 /\ q.class = "category" /\ q.mode = "NoKeyUpdate"
           \/ q.step = 3 /\ q.class = "signup" /\ q.mode = "Update"
           \/ q.step = 4 /\ q.class = "user" /\ q.mode = "KeyShare"
  BY LockInstance DEF FreeSignup, Ask, Carts
<1> QED
  BY <1>1, Levels, RankBound, LockInstance DEF Sorted, Numbered, Before, Under, Below, Level, Id

LEMMA EnqueueRemindersSorted ==
  ASSUME NEW O \in SUBSET DOMAIN OrderCart
  PROVE  Sorted(EnqueueReminders(O))
<1>1. \A q \in EnqueueReminders(O) :
        /\ q.id \in Id
        /\ \/ q.step = 1 /\ q.class = "notice" /\ q.mode = "Update"
  BY LockInstance DEF EnqueueReminders, Ask, Carts
<1> QED
  BY <1>1, Levels, RankBound, LockInstance DEF Sorted, Numbered, Before, Under, Below, Level, Id

LEMMA PurgeKeysSorted ==
  ASSUME NEW K \in SUBSET Id
  PROVE  Sorted(PurgeKeys(K))
<1>1. \A q \in PurgeKeys(K) :
        /\ q.id \in Id
        /\ \/ q.step = 1 /\ q.class = "key" /\ q.mode = "Update"
  BY LockInstance DEF PurgeKeys, Ask, Carts
<1> QED
  BY <1>1, Levels, RankBound, LockInstance DEF Sorted, Numbered, Before, Under, Below, Level, Id

-----------------------------------------------------------------------------
LEMMA InitInv == Init => LockInv
  BY DEF Init, LockInv, Sorted, Numbered

LEMMA BeginInv ==
  ASSUME LockInv, NEW t \in Txn, NEW R, Sorted(R), Begin(t, R)
  PROVE  LockInv'
  BY DEF LockInv, Begin, Idle, Sorted, Numbered, Under, Below, Before

(* The orders of a batch are locked below its counters. *)
LEMMA ExpireInv ==
  ASSUME LockInv, NEW t \in Txn, NEW O \in SUBSET DOMAIN OrderCart, ExpireBatch(t, O)
  PROVE  LockInv'
<1>1. Sorted(BatchCounters(O))
  BY BatchCountersSorted
<1>2. \A h \in Ask(0, "order", "Update", O) :
        h.step = 0 /\ h.class = "order" /\ h.mode = "Update" /\ h.id \in Id
  BY LockInstance DEF Ask
<1>3. \A r \in BatchCounters(O) :
        \/ r.class = "category" /\ r.mode = "NoKeyUpdate"
        \/ r.class = "rule" /\ r.mode = "NoKeyUpdate"
        \/ r.class = "coupon" /\ r.mode = "NoKeyUpdate"
  BY CountersFields, LockInstance DEF BatchCounters
<1>4. \A h \in Ask(0, "order", "Update", O), r \in BatchCounters(O) : Under(h, r)
  BY <1>2, <1>3, Levels, RankBound DEF Under, Below, Level
<1>5. Numbered(Ask(0, "order", "Update", O))
  BY <1>2 DEF Numbered
<1> QED
  BY <1>1, <1>4, <1>5 DEF LockInv, ExpireBatch, Idle, Sorted, Numbered

LEMMA AcquireInv ==
  ASSUME LockInv, NEW t \in Txn, Acquire(t)
  PROVE  LockInv'
<1> PICK r \in todo[t] :
      /\ Asks(t, r)
      /\ todo' = [todo EXCEPT ![t] = @ \ {r}]
      /\ held' = [held EXCEPT ![t] = @ \cup {r}]
  BY DEF Acquire
<1>1. \A q \in todo[t] \ {r} : Under(r, q)
  BY DEF LockInv, Sorted, Asks
<1> QED
  BY <1>1 DEF LockInv, Sorted, Numbered

LEMMA EndInv ==
  ASSUME LockInv, NEW t \in Txn, End(t)
  PROVE  LockInv'
  BY DEF LockInv, End, Sorted, Numbered

LEMMA StepInv == LockInv /\ [Next]_vars => LockInv'
<1> SUFFICES ASSUME LockInv, [Next]_vars PROVE LockInv'
  OBVIOUS
<1> USE LockInstance
<1>1. \A c \in Class : Rows[c] \subseteq Id
  OBVIOUS
<1>2. ASSUME NEW t \in Txn, NEW e \in Rows["event"], NEW k \in Rows["key"], NEW c \in Cart,
             NEW a \in Rows["account"], NEW u \in Rows["user"], Begin(t, CreateOrder(e, k, c, a, u))
      PROVE  LockInv'
  BY <1>1, <1>2, CreateOrderSorted, BeginInv DEF Class
<1>3. ASSUME NEW t \in Txn, NEW o \in DOMAIN OrderCart, Begin(t, CancelOrder(o))
      PROVE  LockInv'
  BY <1>3, CancelOrderSorted, BeginInv
<1>4. ASSUME NEW t \in Txn, NEW o \in DOMAIN OrderCart, NEW n \in Rows["ref"],
             NEW a \in Rows["account"], NEW u \in Rows["user"], Begin(t, SubmitProof(o, n, a, u))
      PROVE  LockInv'
  BY <1>1, <1>4, SubmitProofSorted, BeginInv DEF Class
<1>5. ASSUME NEW t \in Txn, NEW f \in Rows["proof"], NEW o \in DOMAIN OrderCart,
             NEW n \in Rows["receipt"], NEW a \in Rows["account"], Begin(t, ApproveProof(f, o, n, a))
      PROVE  LockInv'
  BY <1>1, <1>5, ApproveProofSorted, BeginInv DEF Class
<1>6. ASSUME NEW t \in Txn, NEW f \in Rows["proof"], NEW o \in DOMAIN OrderCart,
             NEW n \in Rows["ref"], Begin(t, RejectProof(f, o, n))
      PROVE  LockInv'
  BY <1>1, <1>6, RejectProofSorted, BeginInv DEF Class
<1>7. ASSUME NEW t \in Txn, NEW O \in SUBSET DOMAIN OrderCart, Begin(t, EnqueueReminders(O))
      PROVE  LockInv'
  BY <1>7, EnqueueRemindersSorted, BeginInv
<1>8. ASSUME NEW t \in Txn, NEW K \in SUBSET Rows["key"], Begin(t, PurgeKeys(K))
      PROVE  LockInv'
  BY <1>1, <1>8, PurgeKeysSorted, BeginInv DEF Class
<1>9. ASSUME NEW t \in Txn, NEW r \in Rows["rule"], NEW C \in SUBSET Rows["category"],
             Begin(t, UpdatePriceRule(r, C))
      PROVE  LockInv'
  BY <1>1, <1>9, UpdatePriceRuleSorted, BeginInv DEF Class
<1>10. ASSUME NEW t \in Txn, NEW k \in Rows["coupon"], NEW e \in Rows["event"],
              Begin(t, UpdateCoupon(k, e))
       PROVE  LockInv'
  BY <1>1, <1>10, UpdateCouponSorted, BeginInv DEF Class
<1>11. ASSUME NEW t \in Txn, NEW a \in Rows["account"], NEW e \in Rows["event"],
              Begin(t, UpdateAccount(a, e))
       PROVE  LockInv'
  BY <1>1, <1>11, UpdateAccountSorted, BeginInv DEF Class
<1>12. ASSUME NEW t \in Txn, NEW e \in Rows["event"], Begin(t, UpdateRegistration(e))
       PROVE  LockInv'
  BY <1>1, <1>12, UpdateRegistrationSorted, BeginInv DEF Class
<1>13. ASSUME NEW t \in Txn, NEW u \in Rows["user"], Begin(t, SaveSelfProfile(u))
       PROVE  LockInv'
  BY <1>1, <1>13, SaveSelfProfileSorted, BeginInv DEF Class
<1>14. ASSUME NEW t \in Txn, NEW e \in Rows["event"], NEW c \in Rows["category"],
              NEW n \in Rows["signup"], NEW u \in Rows["user"], Begin(t, FreeSignup(e, c, n, u))
       PROVE  LockInv'
  BY <1>1, <1>14, FreeSignupSorted, BeginInv DEF Class
<1>15. CASE UNCHANGED vars
  BY <1>15 DEF vars, LockInv, Sorted, Numbered, Under, Below, Before
<1> QED
  BY <1>2, <1>3, <1>4, <1>5, <1>6, <1>7, <1>8, <1>9, <1>10, <1>11, <1>12, <1>13, <1>14, <1>15,
     ExpireInv, AcquireInv, EndInv DEF Next
(* In every behaviour, what a transaction holds ranks below what it has    *)
(* still to ask for.                                                       *)
THEOREM LocksClimb == Spec => []LockInv
  BY InitInv, StepInv, PTL DEF Spec

-----------------------------------------------------------------------------
LEMMA LargestNatural ==
  ASSUME NEW B \in Nat, NEW S \in SUBSET (0 .. B), S # {}
  PROVE  \E m \in S : \A n \in S : n <= m
<1> DEFINE D == {B - n : n \in S}
           R == OpToRel(<, Nat)
<1>1. D \subseteq Nat
  OBVIOUS
<1>2. D # {}
  OBVIOUS
<1>3. IsWellFoundedOn(R, Nat)
  BY NatLessThanWellFounded
<1>4. \A c, d \in Nat : c < d => <<c, d>> \in R
  BY DEF OpToRel
<1> HIDE DEF R, D
<1>5. PICK d \in D : \A c \in D : ~ (<<c, d>> \in R)
  BY <1>1, <1>2, <1>3, WFMin
<1>6. ASSUME NEW c \in D PROVE d <= c
  <2>1. c \in Nat /\ d \in Nat
    BY <1>1
  <2>2. ~ (c < d)
    BY <2>1, <1>4, <1>5
  <2> QED
    BY <2>1, <2>2
<1>7. PICK m \in S : d = B - m
  BY <1>5 DEF D
<1>8. ASSUME NEW n \in S PROVE n <= m
  <2>1. B - n \in D /\ n \in Int /\ m \in Int
    BY DEF D
  <2>2. B - m <= B - n
    BY <1>6, <1>7, <2>1
  <2> QED
    BY <2>1, <2>2
<1> QED
  BY <1>8

(* A transaction that waits asks for something that ranks below whatever   *)
(* the one it waits for asks for.                                          *)
LEMMA WaitsBelow ==
  ASSUME LockInv, NEW t \in Txn, NEW u \in Txn, NEW q, NEW r,
         Asks(t, q), Asks(u, r), WaitsFor(t, u)
  PROVE  \/ Rank(q.class, q.mode) < Rank(r.class, r.mode)
         \/ Rank(q.class, q.mode) = Rank(r.class, r.mode) /\ q.id < r.id
<1>1. PICK p \in todo[t] : Asks(t, p) /\ \E h \in held[u] : Conflict(p, h)
  BY DEF WaitsFor
<1>2. p = q
  <2> SUFFICES ASSUME p # q PROVE FALSE
    OBVIOUS
  <2>1. Before(p, q) /\ Before(q, p)
    BY <1>1 DEF Asks
  <2>2. /\ p.step \in Nat /\ p.id \in Int /\ q.step \in Nat /\ q.id \in Int
    BY <1>1, LockInstance DEF LockInv, Sorted, Numbered, Asks, Id
  <2> QED
    BY <2>1, <2>2 DEF Before
<1>3. PICK h \in held[u] : Conflict(q, h)
  BY <1>1, <1>2
<1>4. Under(h, r)
  BY DEF LockInv, Asks
<1> QED
  BY <1>3, <1>4 DEF Under, Below, Conflict

(* Of the transactions of a circle one asks for what ranks highest, and    *)
(* among those for the largest id: it waits for none of the others.        *)
LEMMA ClimbingIsSafe == LockInv => NoDeadlock
<1> SUFFICES ASSUME LockInv, NEW S \in SUBSET Txn, S # {},
                    \A t \in S : \E u \in S : WaitsFor(t, u)
             PROVE  FALSE
  BY DEF NoDeadlock
<1> DEFINE Wanted == {q \in UNION {todo[t] : t \in S} : \E t \in S : Asks(t, q)}
           Top(q) == Rank(q.class, q.mode)
           Ranks  == {Top(q) : q \in Wanted}
<1>1. \A t \in S : \E q \in Wanted : Asks(t, q)
  BY DEF WaitsFor
<1>2. Ranks \in SUBSET (0 .. 9) /\ Ranks # {}
  <2>1. \A q \in Wanted : Top(q) \in 0 .. 9
    BY RankBound
  <2>2. Wanted # {}
    BY <1>1
  <2> HIDE DEF Wanted, Top
  <2> QED
    BY <2>1, <2>2
<1>3. PICK n \in Ranks : \A k \in Ranks : k <= n
  BY <1>2, LargestNatural
<1> DEFINE Ids == {q.id : q \in {p \in Wanted : Top(p) = n}}
<1>4. Ids \in SUBSET (0 .. MaxId) /\ Ids # {}
  BY <1>3 DEF LockInv, Sorted, Numbered, Id
<1>5. PICK i \in Ids : \A k \in Ids : k <= i
  BY <1>4, LargestNatural, LockInstance
<1>6. PICK q \in Wanted : Top(q) = n /\ q.id = i
  BY <1>5
<1>7. PICK t \in S : Asks(t, q)
  BY <1>6
<1>8. PICK u \in S : WaitsFor(t, u)
  BY <1>7
<1>9. PICK r \in Wanted : Asks(u, r)
  BY <1>1
<1>10. Top(q) < Top(r) \/ (Top(q) = Top(r) /\ q.id < r.id)
  BY <1>7, <1>8, <1>9, WaitsBelow
<1>11. Top(r) \in Ranks /\ Top(r) <= n /\ n \in Nat /\ Top(r) \in Nat
  BY <1>2, <1>3, <1>9, RankBound
<1>12. Top(r) = n
  BY <1>6, <1>10, <1>11
<1>13. r.id \in Ids /\ r.id <= i
  BY <1>5, <1>9, <1>12
<1>14. r.id \in Int /\ i \in Int
  BY <1>4, <1>13, LockInstance
<1> QED
  BY <1>6, <1>10, <1>12, <1>13, <1>14, <1>11

(* No circle of waiting transactions, for every number of transactions and *)
(* orders of any size.                                                     *)
THEOREM NeverDeadlocked == Spec => []NoDeadlock
  BY LocksClimb, ClimbingIsSafe, PTL
=============================================================================
