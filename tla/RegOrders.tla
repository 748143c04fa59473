----------------------------- MODULE RegOrders -----------------------------
(***************************************************************************)
(* The paid-registration core of the API: orders, the registrations they   *)
(* carry, the seat and quota counters they draw on, the payment proofs the *)
(* buyer uploads and the receipts finance records.                         *)
(*                                                                         *)
(* The transaction that creates an order reads prices and counters before  *)
(* it locks them, so it is three actions: BeginOrder (checks and quote),   *)
(* PickOffset (under the payment account's lock) and CommitOrder (the      *)
(* conditional counter updates, the inserts and the commit).  The deadline *)
(* job's reminders are listed without a lock and queued later, so they are *)
(* two actions: ListReminders and QueueReminders.  Every other action is   *)
(* one whole transaction, which holds the row locks it needs from its      *)
(* first read.                                                             *)
(*                                                                         *)
(* Categories, price rules and coupons keep the same two counters under    *)
(* the same conditional updates, so the three tables are one set of pools. *)
(*                                                                         *)
(* A definition named X_... in front of X is X with a bug of the kind the  *)
(* code guards against; Next never uses it.                                *)
(***************************************************************************)
EXTENDS Pricing

CONSTANTS
  Order,            \* rows of reg_orders that can come to exist
  Person,           \* distinct id_no_hash values
  Local,            \* the people whose nationality admits LOCAL tiers
  Category, Rule, Coupon,
  Eligible,         \* <<person, category>>: old enough on race day
  Capacity,         \* [Category -> Nat]
  TierRows,         \* [Rule -> the rows staff may give the price rule]
  CouponRows,       \* [Coupon -> the rows staff may give the coupon]
  Windows,          \* registration windows staff may set
  Account,          \* payment accounts a registration can be paid to
  Txn,              \* bank transaction references
  Proof,            \* rows of payment_proofs that can come to exist
  Reachable,        \* orders whose buyer has a telegram_user_id
  MaxParticipants,
  UploadWindow, ReuploadWindow, ReminderWindow,
  OffsetMax,        \* payment.ident_offset_max_cents
  BatchSize,        \* deadlineBatchSize
  Lag,              \* bound: how far a handler's clock reading is behind its reads
  Overpay,          \* bound: cents received beyond the amount due
  Horizon           \* bound: the last instant of the clock

Pool == Category \cup Rule \cup Coupon

ASSUME PoolsDisjoint ==
  /\ Category \cap Rule = {} /\ Category \cap Coupon = {} /\ Rule \cap Coupon = {}
  /\ Null \notin Pool
ASSUME TablesFinite == IsFiniteSet(Order) /\ Rule \subseteq Nat
ASSUME BuyersOfOrders == Reachable \subseteq Order
ASSUME NullIsNoValue ==
  /\ Null \notin Nat /\ Null \notin Account /\ Null \notin Order /\ Null \notin Txn
  /\ Null \notin Windows
ASSUME NumbersType ==
  /\ MaxParticipants \in Nat /\ BatchSize \in Nat \ {0}
  /\ UploadWindow \in Nat /\ ReuploadWindow \in Nat /\ ReminderWindow \in Nat
  /\ OffsetMax \in Nat /\ Lag \in Nat /\ Overpay \in Nat /\ Horizon \in Nat

Instant    == Nat \cup {Null}
TierRow    == [audience : {"ALL", "LOCAL"}, price : Nat, cats : SUBSET Category,
               quota : Nat \cup {Null}, saleStartsAt : Instant, saleEndsAt : Instant, sort : Nat]
CouponRow  == [kind : {"PERCENT", "AMOUNT", "WAIVER"}, value : Nat, quota : Nat,
               minRunners : Nat, validFrom : Instant, validUntil : Instant, active : BOOLEAN]
WindowRow  == [opensAt : Instant, closesAt : Instant]

ASSUME RowsType ==
  /\ Capacity \in [Category -> Nat]
  /\ TierRows \in [Rule -> SUBSET TierRow]
  /\ CouponRows \in [Coupon -> SUBSET CouponRow]
  /\ Windows \subseteq WindowRow

VARIABLES
  now,          \* the clock, in ticks
  window,       \* the event's registration window; Null while not published and open
  account,      \* what SelectRegistrationPaymentAccount returns; Null for no row
  tier,         \* price_rules
  coupon,       \* coupons
  status,       \* reg_orders.status; NONE, QUOTED and PRICED before the row is committed
  reservation,  \* reg_orders.reservation_state
  parts,        \* order_participants of the order, in order
  couponOf,     \* reg_orders.coupon_id
  list,         \* reg_orders.list_amount_cents
  amount,       \* reg_orders.amount_cents
  offset,       \* reg_orders.ident_offset_cents
  payTo,        \* reg_orders.payment_account_id
  deadline,     \* reg_orders.deadline_at
  regs,         \* registrations.status of the order's participants
  redemption,   \* coupon_redemptions.state of the order
  used, reserved,  \* used_count and reserved_count of every pool
  proof,        \* payment_proofs
  receipts,     \* payment_receipts; an EXCEPTION row carries its OVERPAID exception
  notices,      \* notification_logs, by the fields of dedupe_key
  listed        \* the <<order, deadline>> lists of reminder transactions still open

setupVars   == <<window, account, tier, coupon>>
quoteVars   == <<parts, couponOf, list, amount, offset, payTo>>
counterVars == <<used, reserved>>
payVars     == <<proof, receipts>>
vars == <<now, window, account, tier, coupon, status, reservation, parts, couponOf, list,
          amount, offset, payTo, deadline, regs, redemption, used, reserved, proof, receipts,
          notices, listed>>

InFlight   == {"QUOTED", "PRICED"}                  \* the creating transaction is open
Awaiting   == {"PENDING_PAYMENT", "PROOF_REJECTED"} \* a deadline is running
OpenStatus == Awaiting \cup {"PROOF_SUBMITTED"}
Line       == [person : Person, cat : Category, rule : Rule]
PartLists  == UNION {[1 .. n -> Line] : n \in 1 .. MaxParticipants}
NoParts    == <<>>

(* An instant a handler may have read as "now" by the time it reads rows. *)
Read == {t \in 0 .. now : now - t <= Lag}

-----------------------------------------------------------------------------
(* Seats and quotas *)

Limit(k) ==
  CASE k \in Category -> Capacity[k]
    [] k \in Rule     -> tier[k].quota
    [] OTHER          -> coupon[k].quota

(* What an order takes from a pool: the participants on that category or   *)
(* tier, and one use (numbered 0) of its coupon.                           *)
Takes(ps, c, k) ==
  {i \in DOMAIN ps : ps[i].cat = k \/ ps[i].rule = k}
    \cup (IF c # Null /\ c = k THEN {0} ELSE {})

Room_NotRechecked(ps, c) == c # Null => coupon[c].active

(* pricing.Reserve: every conditional update finds room. *)
Room(ps, c) ==
  /\ c # Null => coupon[c].active
  /\ \A k \in Pool :
       LET n == Cardinality(Takes(ps, c, k))
       IN  n > 0 /\ Limit(k) # Null => used[k] + reserved[k] + n <= Limit(k)

Moved_NoCoupon(O, k) ==
  {s \in O \X (0 .. MaxParticipants) : s[2] \in Takes(parts[s[1]], Null, k)}

(* What moveCounters moves for a set of orders: their participants, and    *)
(* the coupon when the redemption row is still RESERVED.                   *)
Moved(O, k) ==
  {s \in O \X (0 .. MaxParticipants) :
     s[2] \in Takes(parts[s[1]],
                    IF redemption[s[1]] = "RESERVED" THEN couponOf[s[1]] ELSE Null, k)}

CanMove(O) == \A k \in Pool : Cardinality(Moved(O, k)) <= reserved[k]

(* The redemption rows MarkCouponRedemption turns into "to". *)
Redeem(O, to) ==
  redemption' = [o \in Order |-> IF o \in O /\ redemption[o] = "RESERVED" THEN to
                                 ELSE redemption[o]]

(* Consume and Release, for a set of orders. *)
ConsumeSeats(O) ==
  /\ CanMove(O)
  /\ reserved' = [k \in Pool |-> reserved[k] - Cardinality(Moved(O, k))]
  /\ used' = [k \in Pool |-> used[k] + Cardinality(Moved(O, k))]
  /\ Redeem(O, "CONSUMED")

ReleaseSeats_FromUsed(O) ==
  /\ reserved' = [k \in Pool |-> reserved[k] - Cardinality(Moved(O, k))]
  /\ used' = [k \in Pool |-> used[k] - Cardinality(Moved(O, k))]
  /\ Redeem(O, "RELEASED")

ReleaseSeats(O) ==
  /\ CanMove(O)
  /\ reserved' = [k \in Pool |-> reserved[k] - Cardinality(Moved(O, k))]
  /\ used' = used
  /\ Redeem(O, "RELEASED")

-----------------------------------------------------------------------------
(* pricing.Quote *)

Candidate(r) ==
  [id |-> r, audience |-> tier[r].audience, price |-> tier[r].price, sort |-> tier[r].sort,
   saleStartsAt |-> tier[r].saleStartsAt, saleEndsAt |-> tier[r].saleEndsAt,
   quota |-> tier[r].quota, used |-> used[r], reserved |-> reserved[r]]

(* Participant i is on the tier SelectTier picks after the tiers of the    *)
(* participants before it have been counted.                               *)
OnQuotedTiers(ps, at) ==
  \A i \in DOMAIN ps :
    LET cands   == {Candidate(r) : r \in {x \in Rule : ps[i].cat \in tier[x].cats}}
        earlier == [r \in Rule |-> Cardinality({j \in 1 .. (i - 1) : ps[j].rule = r})]
    IN  Candidate(ps[i].rule) \in SelectTier(cands, ps[i].person \in Local, at, earlier)

CouponUsable(c, runners, at) ==
  /\ coupon[c].active
  /\ coupon[c].validFrom # Null => coupon[c].validFrom <= at
  /\ coupon[c].validUntil # Null => coupon[c].validUntil > at
  /\ coupon[c].minRunners <= runners
  /\ used[c] + reserved[c] < coupon[c].quota

ListAmount(ps) == Total([i \in DOMAIN ps |-> tier[ps[i].rule].price])

CouponCut(c, cents) ==
  IF c = Null THEN 0 ELSE CouponDiscount(coupon[c].kind, coupon[c].value, cents)

OpenAmounts(a) == {amount[o] : o \in {x \in Order : payTo[x] = a /\ status[x] \in OpenStatus}}

-----------------------------------------------------------------------------
(* Notices: Enqueue inserts one row per dedupe key, and none for a buyer   *)
(* without Telegram.                                                       *)
Notice(template, o, ref) == [template |-> template, order |-> o, ref |-> ref]
Enqueue(S) == notices' = notices \cup {n \in S : n.order \in Reachable}

People(o) == {parts[o][i].person : i \in DOMAIN parts[o]}

(* ListRegisteredIDNoHashes: the row that blocks a second registration. *)
Registered(p) == \E o \in Order : regs[o] \in {"PENDING", "CONFIRMED"} /\ p \in People(o)

IDLocked_Never(p) == FALSE
AccountLocked_Never(a) == FALSE

(* LockIDNoHash: some open transaction holds the advisory lock of p. *)
IDLocked(p) == \E o \in Order : status[o] \in InFlight /\ p \in People(o)

(* QuoteLockPaymentAccount: held from PickOffset to the commit. *)
AccountLocked(a) == \E o \in Order : status[o] = "PRICED" /\ payTo[o] = a

RegistrationOpen(at) ==
  /\ window # Null
  /\ window.opensAt # Null => window.opensAt <= at
  /\ window.closesAt # Null => window.closesAt > at

-----------------------------------------------------------------------------
Init ==
  /\ now = 0
  /\ window \in Windows \cup {Null}
  /\ account \in Account \cup {Null}
  /\ tier \in [Rule -> UNION {TierRows[r] : r \in Rule}]
  /\ \A r \in Rule : tier[r] \in TierRows[r]
  /\ coupon \in [Coupon -> UNION {CouponRows[c] : c \in Coupon}]
  /\ \A c \in Coupon : coupon[c] \in CouponRows[c]
  /\ status = [o \in Order |-> "NONE"]
  /\ reservation = [o \in Order |-> "NONE"]
  /\ parts = [o \in Order |-> NoParts]
  /\ couponOf = [o \in Order |-> Null]
  /\ list = [o \in Order |-> 0]
  /\ amount = [o \in Order |-> 0]
  /\ offset = [o \in Order |-> 0]
  /\ payTo = [o \in Order |-> Null]
  /\ deadline = [o \in Order |-> Null]
  /\ regs = [o \in Order |-> "NONE"]
  /\ redemption = [o \in Order |-> "NONE"]
  /\ used = [k \in Pool |-> 0]
  /\ reserved = [k \in Pool |-> 0]
  /\ proof = [f \in Proof |-> [order |-> Null, account |-> Null, txn |-> Null, status |-> "NONE"]]
  /\ receipts = {}
  /\ notices = {} /\ listed = {}

-----------------------------------------------------------------------------
(* Creating an order *)

(* createOrderTx up to Quote's reads: the event row is locked FOR SHARE,   *)
(* every participant's advisory lock is held, nobody is registered yet,    *)
(* and the prices are read without locking the rows they come from.        *)
BeginOrder(o, ps, c, at) ==
  /\ status[o] = "NONE"
  /\ at + UploadWindow <= Horizon
  /\ RegistrationOpen(at)
  /\ \A i, j \in DOMAIN ps : i # j => ps[i].person # ps[j].person
  /\ \A i \in DOMAIN ps : ~IDLocked(ps[i].person) /\ ~Registered(ps[i].person)
  /\ account # Null
  /\ \A i \in DOMAIN ps : <<ps[i].person, ps[i].cat>> \in Eligible
  /\ OnQuotedTiers(ps, at)
  /\ c # Null => CouponUsable(c, Len(ps), at)
  /\ status' = [status EXCEPT ![o] = "QUOTED"]
  /\ parts' = [parts EXCEPT ![o] = ps]
  /\ couponOf' = [couponOf EXCEPT ![o] = c]
  /\ list' = [list EXCEPT ![o] = ListAmount(ps)]
  /\ amount' = [amount EXCEPT ![o] = ListAmount(ps) - CouponCut(c, ListAmount(ps))]
  /\ payTo' = [payTo EXCEPT ![o] = account]
  /\ deadline' = [deadline EXCEPT ![o] = at + UploadWindow]
  /\ UNCHANGED <<now, setupVars, reservation, offset, regs, redemption, counterVars, payVars,
                 notices, listed>>

(* pickIdentOffsetLocked: only when something is left to pay.              *)
PickOffset(o) ==
  /\ status[o] = "QUOTED" /\ amount[o] > 0
  /\ ~AccountLocked(payTo[o])
  /\ LET n == PickIdentOffset(amount[o], OpenAmounts(payTo[o]), OffsetMax)
     IN  /\ offset' = [offset EXCEPT ![o] = n]
         /\ amount' = [amount EXCEPT ![o] = @ - n]
  /\ status' = [status EXCEPT ![o] = "PRICED"]
  /\ UNCHANGED <<now, setupVars, reservation, parts, couponOf, list, payTo, deadline, regs,
                 redemption, counterVars, payVars, notices, listed>>

(* Reserve, the inserts, and the commit of an order that must be paid.     *)
CommitOrder(o) ==
  /\ status[o] = "PRICED"
  /\ Room(parts[o], couponOf[o])
  /\ status' = [status EXCEPT ![o] = "PENDING_PAYMENT"]
  /\ reservation' = [reservation EXCEPT ![o] = "RESERVED"]
  /\ regs' = [regs EXCEPT ![o] = "PENDING"]
  /\ redemption' = [redemption EXCEPT ![o] = IF couponOf[o] = Null THEN @ ELSE "RESERVED"]
  /\ reserved' = [k \in Pool |-> reserved[k] + Cardinality(Takes(parts[o], couponOf[o], k))]
  /\ UNCHANGED <<now, setupVars, quoteVars, deadline, used, payVars, notices, listed>>

(* The same with nothing to pay: ConfirmPaid turns the reservation into    *)
(* used seats before the transaction commits.                              *)
CommitFreeOrder(o) ==
  /\ status[o] = "QUOTED" /\ amount[o] = 0
  /\ Room(parts[o], couponOf[o])
  /\ status' = [status EXCEPT ![o] = "PAID"]
  /\ reservation' = [reservation EXCEPT ![o] = "CONSUMED"]
  /\ deadline' = [deadline EXCEPT ![o] = Null]
  /\ regs' = [regs EXCEPT ![o] = "CONFIRMED"]
  /\ redemption' = [redemption EXCEPT ![o] = IF couponOf[o] = Null THEN @ ELSE "CONSUMED"]
  /\ used' = [k \in Pool |-> used[k] + Cardinality(Takes(parts[o], couponOf[o], k))]
  /\ UNCHANGED <<now, setupVars, quoteVars, reserved, payVars, notices, listed>>

(* The transaction fails, or the process or its connection dies.           *)
RollbackOrder(o) ==
  /\ status[o] \in InFlight
  /\ status' = [status EXCEPT ![o] = "NONE"]
  /\ parts' = [parts EXCEPT ![o] = NoParts]
  /\ couponOf' = [couponOf EXCEPT ![o] = Null]
  /\ list' = [list EXCEPT ![o] = 0]
  /\ amount' = [amount EXCEPT ![o] = 0]
  /\ offset' = [offset EXCEPT ![o] = 0]
  /\ payTo' = [payTo EXCEPT ![o] = Null]
  /\ deadline' = [deadline EXCEPT ![o] = Null]
  /\ UNCHANGED <<now, setupVars, reservation, regs, redemption, counterVars, payVars, notices, listed>>

-----------------------------------------------------------------------------
(* Ending a reservation *)

(* ReleaseOrder for every order of O.                                      *)
ReleaseOrders(O, from, to) ==
  /\ \A o \in O : reservation[o] = "RESERVED" /\ status[o] \in from
  /\ status' = [o \in Order |-> IF o \in O THEN to ELSE status[o]]
  /\ reservation' = [o \in Order |-> IF o \in O THEN "RELEASED" ELSE reservation[o]]
  /\ deadline' = [o \in Order |-> IF o \in O THEN Null ELSE deadline[o]]
  /\ ReleaseSeats(O)
  /\ regs' = [o \in Order |-> IF o \in O /\ regs[o] = "PENDING" THEN "CANCELLED" ELSE regs[o]]
  /\ UNCHANGED <<now, setupVars, quoteVars, payVars, listed>>

CancelOrder(o) ==
  /\ status[o] = "PENDING_PAYMENT"
  /\ ReleaseOrders({o}, {"PENDING_PAYMENT"}, "CANCELLED")
  /\ notices' = notices

DueForExpiry_Early ==
  {o \in Order : status[o] \in Awaiting /\ deadline[o] <= now + ReminderWindow}
DueForExpiry_FirstOnly == {o \in Order : status[o] = "PENDING_PAYMENT" /\ deadline[o] <= now}

DueForExpiry == {o \in Order : status[o] \in Awaiting /\ deadline[o] <= now}

ExpireBatch_TellsAll(B) ==
  /\ B # {} /\ B \subseteq DueForExpiry /\ Cardinality(B) <= BatchSize
  /\ ReleaseOrders(B, Awaiting, "EXPIRED")
  /\ Enqueue({Notice("ORDER_EXPIRED", o, Null) : o \in DueForExpiry})

(* expireDueBatch: SKIP LOCKED leaves out the orders other transactions    *)
(* hold, so the batch is any part of what is due.                          *)
ExpireBatch(B) ==
  /\ B # {} /\ B \subseteq DueForExpiry /\ Cardinality(B) <= BatchSize
  /\ ReleaseOrders(B, Awaiting, "EXPIRED")
  /\ Enqueue({Notice("ORDER_EXPIRED", o, Null) : o \in B})

(* enqueueDeadlineReminders: ListOrdersDueForReminder, a plain SELECT, so  *)
(* what it finds may change before the transaction commits.  Another run   *)
(* of the job may list the same order again meanwhile.                     *)
NearDeadline(asOf) ==
  {o \in Reachable :
     /\ status[o] \in Awaiting
     /\ deadline[o] > asOf /\ deadline[o] <= asOf + ReminderWindow
     /\ Notice("DEADLINE_REMINDER", o, deadline[o]) \notin notices}

ListReminders(asOf) ==
  LET near == {<<o, deadline[o]>> : o \in NearDeadline(asOf)} IN
  /\ near # {}
  /\ listed' = listed \cup {near}
  /\ UNCHANGED <<now, setupVars, status, reservation, quoteVars, deadline, regs, redemption,
                 counterVars, payVars, notices>>

(* The inserts and the commit, for the orders as they were listed.         *)
QueueReminders(L) ==
  /\ L \in listed
  /\ listed' = listed \ {L}
  /\ Enqueue({Notice("DEADLINE_REMINDER", e[1], e[2]) : e \in L})
  /\ UNCHANGED <<now, setupVars, status, reservation, quoteVars, deadline, regs, redemption,
                 counterVars, payVars>>

(* The transaction fails, or the process dies.                             *)
DropReminders(L) ==
  /\ L \in listed
  /\ listed' = listed \ {L}
  /\ UNCHANGED <<now, setupVars, status, reservation, quoteVars, deadline, regs, redemption,
                 counterVars, payVars, notices>>

-----------------------------------------------------------------------------
(* Proofs and their review *)

TxnFree_QueueOnly(a, t) ==
  \A f \in Proof : proof[f].status = "SUBMITTED" => ~(proof[f].account = a /\ proof[f].txn = t)

(* The unique index payment_proofs_txn_ref_uniq on live proofs.            *)
TxnFree(a, t) ==
  \A f \in Proof : proof[f].status \in {"SUBMITTED", "APPROVED"}
                     => ~(proof[f].account = a /\ proof[f].txn = t)

SubmitProof_KeepsDeadline(o, f, t, at) ==
  /\ proof[f].status = "NONE"
  /\ status[o] \in Awaiting /\ reservation[o] = "RESERVED"
  /\ deadline[o] > at
  /\ TxnFree(payTo[o], t)
  /\ proof' = [proof EXCEPT ![f] = [order |-> o, account |-> payTo[o], txn |-> t,
                                    status |-> "SUBMITTED"]]
  /\ status' = [status EXCEPT ![o] = "PROOF_SUBMITTED"]
  /\ UNCHANGED <<now, setupVars, reservation, quoteVars, deadline, regs, redemption, counterVars,
                 receipts, notices, listed>>

(* "at" was read before the image was stored and the order row locked.     *)
SubmitProof(o, f, t, at) ==
  /\ proof[f].status = "NONE"
  /\ status[o] \in Awaiting /\ reservation[o] = "RESERVED"
  /\ deadline[o] > at
  /\ TxnFree(payTo[o], t)
  /\ proof' = [proof EXCEPT ![f] = [order |-> o, account |-> payTo[o], txn |-> t,
                                    status |-> "SUBMITTED"]]
  /\ status' = [status EXCEPT ![o] = "PROOF_SUBMITTED"]
  /\ deadline' = [deadline EXCEPT ![o] = Null]
  /\ UNCHANGED <<now, setupVars, reservation, quoteVars, regs, redemption, counterVars,
                 receipts, notices, listed>>

Receipt_FlagsExact(f, cents) ==
  [proof |-> f, order |-> proof[f].order, account |-> proof[f].account, txn |-> proof[f].txn,
   cents |-> cents,
   match |-> IF cents >= amount[proof[f].order] THEN "EXCEPTION" ELSE "APPLIED"]

Receipt(f, cents) ==
  [proof |-> f, order |-> proof[f].order, account |-> proof[f].account, txn |-> proof[f].txn,
   cents |-> cents,
   match |-> IF cents > amount[proof[f].order] THEN "EXCEPTION" ELSE "APPLIED"]

(* payment_receipts: proof_id and (payment_account_id, txn_ref) are unique. *)
ReceiptFree(f) ==
  \A r \in receipts : r.proof # f /\ ~(r.account = proof[f].account /\ r.txn = proof[f].txn)

(* lockForReview: a submitted proof of an order under review. *)
Reviewable(f) ==
  proof[f].status = "SUBMITTED" /\ status[proof[f].order] = "PROOF_SUBMITTED"

ApproveProof(f, cents) ==
  LET o == proof[f].order IN
  /\ Reviewable(f)
  /\ cents >= amount[o]
  /\ ReceiptFree(f)
  /\ proof' = [proof EXCEPT ![f].status = "APPROVED"]
  /\ receipts' = receipts \cup {Receipt(f, cents)}
  /\ reservation[o] = "RESERVED"
  /\ status' = [status EXCEPT ![o] = "PAID"]
  /\ reservation' = [reservation EXCEPT ![o] = "CONSUMED"]
  /\ deadline' = [deadline EXCEPT ![o] = Null]
  /\ ConsumeSeats({o})
  /\ regs' = [regs EXCEPT ![o] = IF @ = "PENDING" THEN "CONFIRMED" ELSE @]
  /\ Enqueue({Notice("PROOF_APPROVED", o, f)})
  /\ UNCHANGED <<now, setupVars, quoteVars, listed>>

RejectProof(f) ==
  LET o == proof[f].order IN
  /\ Reviewable(f)
  /\ now + ReuploadWindow <= Horizon
  /\ proof' = [proof EXCEPT ![f].status = "REJECTED"]
  /\ reservation[o] = "RESERVED"
  /\ status' = [status EXCEPT ![o] = "PROOF_REJECTED"]
  /\ deadline' = [deadline EXCEPT ![o] = now + ReuploadWindow]
  /\ Enqueue({Notice("PROOF_REJECTED", o, f)})
  /\ UNCHANGED <<now, setupVars, reservation, quoteVars, regs, redemption, counterVars, receipts,
                 listed>>

-----------------------------------------------------------------------------
(* Staff settings *)

UpdateRegistration_NoLock(w) ==
  /\ w # Null => account # Null /\ \A k \in Category : \E r \in Rule : k \in tier[r].cats
  /\ window' = w
  /\ UNCHANGED <<now, account, tier, coupon, status, reservation, quoteVars, deadline, regs,
                 redemption, counterVars, payVars, notices, listed>>

(* The event row is locked FOR UPDATE, so it waits for open order          *)
(* transactions; opening needs an account to pay to.                       *)
UpdateRegistration(w) ==
  /\ \A o \in Order : status[o] \notin InFlight
  /\ w # Null => account # Null /\ \A k \in Category : \E r \in Rule : k \in tier[r].cats
  /\ window' = w
  /\ UNCHANGED <<now, account, tier, coupon, status, reservation, quoteVars, deadline, regs,
                 redemption, counterVars, payVars, notices, listed>>

(* CreateAccount and UpdateAccount change which account the query selects. *)
SelectAccount(a) ==
  /\ account' = a
  /\ UNCHANGED <<now, window, tier, coupon, status, reservation, quoteVars, deadline, regs,
                 redemption, counterVars, payVars, notices, listed>>

UpdatePriceRule_AnyQuota(r, row) ==
  /\ used[r] + reserved[r] > 0 => /\ row.price = tier[r].price
                                  /\ row.audience = tier[r].audience /\ row.cats = tier[r].cats
  /\ tier' = [tier EXCEPT ![r] = row]
  /\ UNCHANGED <<now, window, account, coupon, status, reservation, quoteVars, deadline, regs,
                 redemption, counterVars, payVars, notices, listed>>

UpdatePriceRule(r, row) ==
  LET taken == used[r] + reserved[r] IN
  /\ taken > 0 => /\ row.price = tier[r].price /\ row.audience = tier[r].audience
                  /\ row.cats = tier[r].cats
  /\ row.quota # Null => row.quota >= taken
  /\ tier' = [tier EXCEPT ![r] = row]
  /\ UNCHANGED <<now, window, account, coupon, status, reservation, quoteVars, deadline, regs,
                 redemption, counterVars, payVars, notices, listed>>

UpdateCoupon(c, row) ==
  /\ row.quota >= used[c] + reserved[c]
  /\ coupon' = [coupon EXCEPT ![c] = row]
  /\ UNCHANGED <<now, window, account, tier, status, reservation, quoteVars, deadline, regs,
                 redemption, counterVars, payVars, notices, listed>>

Tick ==
  /\ now < Horizon
  /\ now' = now + 1
  /\ UNCHANGED <<setupVars, status, reservation, quoteVars, deadline, regs, redemption,
                 counterVars, payVars, notices, listed>>

-----------------------------------------------------------------------------
Buyer ==
  \/ \E o \in Order, ps \in PartLists, c \in Coupon \cup {Null}, at \in Read :
       BeginOrder(o, ps, c, at)
  \/ \E o \in Order : PickOffset(o)
  \/ \E o \in Order : CommitOrder(o)
  \/ \E o \in Order : CommitFreeOrder(o)
  \/ \E o \in Order : RollbackOrder(o)
  \/ \E o \in Order : CancelOrder(o)
  \/ \E o \in Order, f \in Proof, t \in Txn, at \in Read : SubmitProof(o, f, t, at)

Finance ==
  \/ \E f \in Proof : /\ proof[f].status = "SUBMITTED"
                       /\ \E cents \in 0 .. (amount[proof[f].order] + Overpay) :
                            ApproveProof(f, cents)
  \/ \E f \in Proof : RejectProof(f)

Deadlines ==
  \/ \E B \in SUBSET DueForExpiry : ExpireBatch(B)
  \/ \E asOf \in Read : ListReminders(asOf)
  \/ \E L \in listed : QueueReminders(L)
  \/ \E L \in listed : DropReminders(L)

Staff ==
  \/ \E w \in Windows \cup {Null} : UpdateRegistration(w)
  \/ \E a \in Account \cup {Null} : SelectAccount(a)
  \/ \E r \in Rule : \E row \in TierRows[r] : UpdatePriceRule(r, row)
  \/ \E c \in Coupon : \E row \in CouponRows[c] : UpdateCoupon(c, row)

Next == Buyer \/ Finance \/ Deadlines \/ Staff \/ Tick

(* River runs the deadline job every minute, and time passes.              *)
Fairness == WF_vars(\E B \in SUBSET DueForExpiry : ExpireBatch(B)) /\ WF_vars(Tick)

Spec == Init /\ [][Next]_vars
FairSpec == Spec /\ Fairness
=============================================================================
