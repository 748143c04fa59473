------------------------ MODULE RegOrdersProperties ------------------------
(***************************************************************************)
(* What must hold of the orders, counters and payments of RegOrders, and   *)
(* the seat ledger they implement.                                         *)
(***************************************************************************)
EXTENDS RegOrders

Status == {"NONE"} \cup InFlight \cup OpenStatus \cup {"PAID", "EXPIRED", "CANCELLED"}

ProofRow == [order : Order \cup {Null}, account : Account \cup {Null}, txn : Txn \cup {Null},
             status : {"NONE", "SUBMITTED", "APPROVED", "REJECTED"}]

ReceiptRow == [proof : Proof, order : Order, account : Account, txn : Txn, cents : Nat,
               match : {"APPLIED", "EXCEPTION"}]

SetupType ==
  /\ now \in Nat
  /\ window \in Windows \cup {Null} /\ account \in Account \cup {Null}
  /\ tier \in [Rule -> TierRow] /\ coupon \in [Coupon -> CouponRow]

OrderType ==
  /\ status \in [Order -> Status]
  /\ reservation \in [Order -> {"NONE", "RESERVED", "CONSUMED", "RELEASED"}]
  /\ regs \in [Order -> {"NONE", "PENDING", "CONFIRMED", "CANCELLED"}]
  /\ redemption \in [Order -> {"NONE", "RESERVED", "CONSUMED", "RELEASED"}]
  /\ deadline \in [Order -> Instant]

QuoteType ==
  /\ parts \in [Order -> PartLists \cup {NoParts}]
  /\ couponOf \in [Order -> Coupon \cup {Null}]
  /\ list \in [Order -> Nat] /\ amount \in [Order -> Nat]
  /\ offset \in [Order -> 0 .. IdentOffsetCap]
  /\ payTo \in [Order -> Account \cup {Null}]

CounterType == used \in [Pool -> Nat] /\ reserved \in [Pool -> Nat]

PaymentType ==
  /\ proof \in [Proof -> ProofRow]
  /\ receipts \subseteq ReceiptRow

ReminderType == listed \subseteq SUBSET (Order \X Instant)

(* The type invariant: counters never go negative, a quote never owes less *)
(* than nothing, and every column holds a value its table admits.          *)
TypeOK == SetupType /\ OrderType /\ QuoteType /\ CounterType /\ PaymentType /\ ReminderType

-----------------------------------------------------------------------------
(* A proof belongs to an order that exists and is paid to its account.     *)
ProofsBelong ==
  \A f \in Proof : proof[f].status # "NONE" =>
    /\ proof[f].order \in Order /\ proof[f].account \in Account /\ proof[f].txn \in Txn
    /\ proof[f].account = payTo[proof[f].order]
    /\ status[proof[f].order] \notin {"NONE"} \cup InFlight

(* An order that is being created or exists has an account to be paid to.  *)
OrdersPayable == \A o \in Order : status[o] # "NONE" => payTo[o] \in Account

-----------------------------------------------------------------------------
(* Agreement of the tables an order is spread over *)

(* What the reservation, the registrations and the redemption row of an    *)
(* order must be, given its status.                                        *)
ReservationFor(s) ==
  CASE s \in OpenStatus              -> "RESERVED"
    [] s = "PAID"                    -> "CONSUMED"
    [] s \in {"EXPIRED","CANCELLED"} -> "RELEASED"
    [] OTHER                         -> "NONE"

RegsFor(s) ==
  CASE s \in OpenStatus              -> "PENDING"
    [] s = "PAID"                    -> "CONFIRMED"
    [] s \in {"EXPIRED","CANCELLED"} -> "CANCELLED"
    [] OTHER                         -> "NONE"

UnderReview(o) == {f \in Proof : proof[f].order = o /\ proof[f].status = "SUBMITTED"}

Follows(o) ==
  /\ reservation[o] = ReservationFor(status[o])
  /\ regs[o] = RegsFor(status[o])
  /\ redemption[o] = IF couponOf[o] = Null THEN "NONE" ELSE reservation[o]
  /\ deadline[o] # Null <=> status[o] \in Awaiting \cup InFlight

Queued(o) ==
  /\ status[o] = "PROOF_SUBMITTED" <=> UnderReview(o) # {}
  /\ \A f, g \in UnderReview(o) : f = g

(* Every transaction leaves an order's rows telling one story: reservation *)
(* state, registrations and coupon redemption follow the status, a         *)
(* deadline runs exactly while the buyer is the one to act, and an order   *)
(* is under review exactly while it has a submitted proof, one at most.    *)
OrderRowsAgree == \A o \in Order : Follows(o) /\ Queued(o)

-----------------------------------------------------------------------------
(* Counters *)

Seats(state, k) ==
  {s \in Order \X (0 .. MaxParticipants) :
     reservation[s[1]] = state /\ s[2] \in Takes(parts[s[1]], couponOf[s[1]], k)}

(* The counters are the orders: reserved_count is what the RESERVED orders *)
(* take of the pool, used_count what the CONSUMED ones took.  A retried,   *)
(* doubled or partial release would break it for good.                     *)
CountersConserved ==
  \A k \in Pool : /\ reserved[k] = Cardinality(Seats("RESERVED", k))
                  /\ used[k] = Cardinality(Seats("CONSUMED", k))

(* No category, tier or coupon is ever sold beyond its limit, although     *)
(* quotes read the counters without a lock and staff resize the limits.    *)
NeverOversold ==
  \A k \in Pool : Limit(k) = Null \/ used[k] + reserved[k] <= Limit(k)

(* The seat ledger this module implements. *)
Ledger == INSTANCE SeatLedger WITH
  Booking <- Order, Unit <- 0 .. MaxParticipants,
  state <- [o \in Order |-> CASE reservation[o] = "RESERVED" -> "HELD"
                              [] reservation[o] = "CONSUMED" -> "SOLD"
                              [] reservation[o] = "RELEASED" -> "FREED"
                              [] OTHER                       -> "NONE"],
  units <- [o \in Order |-> [k \in Pool |-> IF reservation[o] = "NONE" THEN {}
                                            ELSE Takes(parts[o], couponOf[o], k)]],
  limit <- [k \in Pool |-> Limit(k)]

(* Orders hold, sell and free seats as the ledger does: each exactly once, *)
(* for good, and never more than there are.                                *)
ImplementsLedger == Ledger!Spec

-----------------------------------------------------------------------------
(* Registrations and the event *)

(* A person holds at most one live registration for the event, whoever     *)
(* registers them and however the requests interleave.                     *)
OneActiveRegistration ==
  \A o, p \in Order :
    o # p /\ regs[o] \in {"PENDING", "CONFIRMED"} /\ regs[p] \in {"PENDING", "CONFIRMED"}
      => People(o) \cap People(p) = {}

(* Once staff have closed registration no order appears: the order         *)
(* transactions that saw it open have committed or will not commit.        *)
CreatedWhileOpen ==
  [][\A o \in Order : reservation[o] = "NONE" /\ reservation'[o] # "NONE" => window # Null]_vars

-----------------------------------------------------------------------------
(* Money *)

(* Two open orders of one account ask for different amounts, so that a     *)
(* transfer tells which order it pays; the one exception is an order for   *)
(* which no identification offset was left.                                *)
AmountsIdentify ==
  \A o, p \in Order :
    o # p /\ {status[o], status[p]} \subseteq OpenStatus /\ payTo[o] = payTo[p]
      => amount[o] # amount[p] \/ offset[o] = 0 \/ offset[p] = 0

(* Every proof in the review queue can still be approved: its order is     *)
(* under review and holds its seats, and no receipt has taken its bank     *)
(* transaction.                                                            *)
ReviewNeverStuck ==
  \A f \in Proof : proof[f].status = "SUBMITTED" =>
    Reviewable(f) /\ ReceiptFree(f)
      /\ reservation[proof[f].order] = "RESERVED" /\ CanMove({proof[f].order})

(* An order that owed money is paid exactly when one receipt covers what   *)
(* it owed, from an approved proof of that order, flagged when it is over; *)
(* and no bank transaction pays for two orders.                            *)
MoneyMatches ==
  /\ \A o \in Order : (status[o] = "PAID" /\ amount[o] > 0) <=> \E r \in receipts : r.order = o
  /\ \A r \in receipts :
       /\ proof[r.proof].status = "APPROVED" /\ proof[r.proof].order = r.order
       /\ r.cents >= amount[r.order]
       /\ r.match = "EXCEPTION" <=> r.cents > amount[r.order]
  /\ \A r, s \in receipts : r.order = s.order \/ (r.account = s.account /\ r.txn = s.txn) => r = s

-----------------------------------------------------------------------------
(* Deadlines and notices *)

OutcomesTold ==
  \A o \in Reachable :
    /\ status[o] = "EXPIRED" <=> Notice("ORDER_EXPIRED", o, Null) \in notices
    /\ \A f \in Proof :
         /\ proof[f].order = o /\ proof[f].status = "APPROVED"
              <=> Notice("PROOF_APPROVED", o, f) \in notices
         /\ proof[f].order = o /\ proof[f].status = "REJECTED"
              <=> Notice("PROOF_REJECTED", o, f) \in notices

(* What a reminder of deadline d still says about order o. *)
ReminderHolds(o, d) ==
  /\ status[o] \notin {"NONE"} \cup InFlight
  /\ d <= now + ReminderWindow
  /\ status[o] = "PENDING_PAYMENT" => d = deadline[o]

(* The reminders queued, and those listed and about to be. *)
RemindersTell ==
  /\ \A n \in notices : n.template = "DEADLINE_REMINDER" => ReminderHolds(n.order, n.ref)
  /\ \A L \in listed : \A e \in L : ReminderHolds(e[1], e[2])

(* A buyer who is told an order expired, or a proof was approved or        *)
(* rejected, is told the truth, and every such change is told.  A reminder *)
(* is of an order that exists, never comes before its window opens, and    *)
(* names the deadline in force unless the buyer has acted or the order has *)
(* ended since the job listed it.                                          *)
NoticesTell == OutcomesTold /\ RemindersTell

(* An order expires only after its deadline, and never while finance has   *)
(* its proof.                                                              *)
NeverExpiredEarly ==
  [][\A o \in Order : status[o] # "EXPIRED" /\ status'[o] = "EXPIRED"
        => deadline[o] # Null /\ deadline[o] <= now /\ UnderReview(o) = {}]_vars

(* A reservation does not block seats for ever: the buyer pays or uploads  *)
(* a proof, cancels, or the deadline job frees it.                         *)
ReservationsSettle ==
  \A o \in Order : reservation[o] = "RESERVED"
                     ~> reservation[o] # "RESERVED" \/ status[o] = "PROOF_SUBMITTED"

-----------------------------------------------------------------------------
(* What the design document says and the code does not keep *)

(* Spec 6.2: uploading a proof at or after the deadline is refused.        *)
NoLateUpload ==
  [][\A o \in Order : status[o] \in Awaiting /\ status'[o] = "PROOF_SUBMITTED"
        => deadline[o] > now]_vars
=============================================================================
