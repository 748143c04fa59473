----------------------------- MODULE OrderLocks -----------------------------
(***************************************************************************)
(* The row locks, advisory locks and unique-index waits of the             *)
(* transactions around orders, in the order the code asks for them.        *)
(*                                                                         *)
(* A transaction is a set of lock requests.  "step" is the statement that  *)
(* asks, and one statement or loop takes its rows by ascending id, as the  *)
(* code sorts them.  Requests for what a transaction already holds as      *)
(* strongly are left out.  PostgreSQL grants a request when nobody else    *)
(* holds a conflicting mode, keeps it to the end of the transaction, and   *)
(* finds a deadlock where transactions wait for each other in a circle.    *)
(*                                                                         *)
(* Every kind of row has ids of its own.  Rows that are locked last by     *)
(* transactions that then wait for nothing (profiles, sessions, codes) are *)
(* left out.                                                               *)
(***************************************************************************)
EXTENDS Integers, Sequences

CONSTANTS
  Txn,        \* transactions that can be open at the same time
  MaxId,      \* the largest id
  Rows,       \* the ids there are of each kind of row
  Cart,       \* what an order takes: records of sets of ids
  OrderCart   \* the cart of each order there is

Id == 0 .. MaxId
Class == {"event", "proof", "user", "account", "key", "order", "person", "ref", "receipt",
          "notice", "amounts", "category", "rule", "signup", "coupon"}
Mode  == {"KeyShare", "Share", "NoKeyUpdate", "Update"}

Carts == [person : SUBSET Id, category : SUBSET Id, rule : SUBSET Id, coupon : SUBSET Id]

ASSUME LockInstance ==
  /\ MaxId \in Nat
  /\ Rows \in [Class -> SUBSET Id]
  /\ Cart \subseteq Carts
  /\ DOMAIN OrderCart \subseteq Id
  /\ \A o \in DOMAIN OrderCart : OrderCart[o] \in Carts

VARIABLES
  todo,   \* the requests each transaction has still to make
  held    \* the requests granted to it

vars == <<todo, held>>

Init == todo = [t \in Txn |-> {}] /\ held = [t \in Txn |-> {}]

(* PostgreSQL's table of conflicting row locks.  An advisory lock or the   *)
(* wait for a duplicate key conflicts with itself, as UPDATE does.         *)
Blocks(mode) ==
  CASE mode = "KeyShare"     -> {"Update"}
    [] mode = "Share"         -> {"NoKeyUpdate", "Update"}
    [] mode = "NoKeyUpdate" -> {"Share", "NoKeyUpdate", "Update"}
    [] mode = "Update"        -> Mode

Ask(step, class, mode, ids) ==
  [step : {step}, class : {class}, mode : {mode}, id : ids]

-----------------------------------------------------------------------------
(* What each operation asks for. *)

(* Reserve and moveCounters: categories, then price rules, then the coupon. *)
Counters(c) ==
  Ask(5, "category", "NoKeyUpdate", c.category)
    \cup Ask(6, "rule", "NoKeyUpdate", c.rule)
    \cup Ask(7, "coupon", "NoKeyUpdate", c.coupon)

(* The event, the idempotency key, the identity hashes sorted, the         *)
(* account's amounts, the counters, and what the order row refers to.      *)
CreateOrder(e, k, c, a, u) ==
  Ask(1, "event", "Share", {e}) \cup Ask(2, "key", "Update", {k})
    \cup Ask(3, "person", "Update", c.person) \cup Ask(4, "amounts", "Update", {a})
    \cup Counters(c)
    \cup Ask(8, "account", "KeyShare", {a}) \cup Ask(9, "user", "KeyShare", {u})

CancelOrder(o) == Ask(1, "order", "Update", {o}) \cup Counters(OrderCart[o])

SubmitProof(o, ref, a, u) ==
  Ask(1, "order", "Update", {o}) \cup Ask(2, "ref", "Update", {ref})
    \cup Ask(3, "account", "KeyShare", {a}) \cup Ask(4, "user", "KeyShare", {u})

ApproveProof(f, o, ref, a) ==
  Ask(1, "proof", "Update", {f}) \cup Ask(2, "order", "Update", {o})
    \cup Ask(3, "receipt", "Update", {ref}) \cup Ask(4, "account", "KeyShare", {a})
    \cup Counters(OrderCart[o])

RejectProof(f, o, ref) ==
  Ask(1, "proof", "Update", {f}) \cup Ask(2, "order", "Update", {o})
    \cup Ask(3, "ref", "Update", {ref})

(* LockCountersForOrders: the counters of all orders of the batch at once. *)
BatchCounters_OneByOne(O) ==
  UNION {{[q EXCEPT !.step = 3 * o + q.step] : q \in Counters(OrderCart[o])} : o \in O}

BatchCounters(O) == UNION {Counters(OrderCart[o]) : o \in O}

EnqueueReminders(O) == Ask(1, "notice", "Update", O)
PurgeKeys(K)        == Ask(1, "key", "Update", K)

(* FOR UPDATE, then the category links that refer to categories. *)
UpdatePriceRule(r, C) == Ask(1, "rule", "Update", {r}) \cup Ask(2, "category", "KeyShare", C)

UpdateCoupon(k, e)    == Ask(1, "coupon", "Update", {k}) \cup Ask(2, "event", "KeyShare", {e})
UpdateAccount(a, e)   == Ask(1, "account", "Update", {a}) \cup Ask(2, "event", "KeyShare", {e})
UpdateRegistration(e) == Ask(1, "event", "Update", {e})
SaveSelfProfile(u)    == Ask(1, "user", "Update", {u})

(* The event, the seat, the unique index of active signups, the user. *)
FreeSignup(e, c, n, u) ==
  Ask(1, "event", "Share", {e}) \cup Ask(2, "category", "NoKeyUpdate", {c})
    \cup Ask(3, "signup", "Update", {n}) \cup Ask(4, "user", "KeyShare", {u})

-----------------------------------------------------------------------------
Conflict(q, h) == q.class = h.class /\ q.id = h.id /\ q.mode \in Blocks(h.mode)

Before(q, r) == q.step < r.step \/ (q.step = r.step /\ q.id < r.id)

(* r is what t asks for now. *)
Asks(t, r) == r \in todo[t] /\ \A q \in todo[t] \ {r} : Before(r, q)

Idle(t) == todo[t] = {} /\ held[t] = {}

Begin(t, R) ==
  /\ Idle(t)
  /\ todo' = [todo EXCEPT ![t] = R]
  /\ UNCHANGED held

(* SKIP LOCKED: the batch is of due orders nobody else has locked, taken   *)
(* without waiting.                                                        *)
ExpireBatch(t, O) ==
  LET orders == Ask(0, "order", "Update", O) IN
    /\ Idle(t)
    /\ \A r \in orders : \A u \in Txn : \A h \in held[u] : ~Conflict(r, h)
    /\ held' = [held EXCEPT ![t] = orders]
    /\ todo' = [todo EXCEPT ![t] = BatchCounters(O)]

Acquire(t) ==
  \E r \in todo[t] :
    /\ Asks(t, r)
    /\ \A u \in Txn \ {t} : \A h \in held[u] : ~Conflict(r, h)
    /\ todo' = [todo EXCEPT ![t] = @ \ {r}]
    /\ held' = [held EXCEPT ![t] = @ \cup {r}]

(* Commit, an early return, an error or a crash: everything is released.   *)
End(t) ==
  /\ ~Idle(t)
  /\ todo' = [todo EXCEPT ![t] = {}]
  /\ held' = [held EXCEPT ![t] = {}]

Next ==
  \/ \E t \in Txn, e \in Rows["event"], k \in Rows["key"], c \in Cart, a \in Rows["account"],
       u \in Rows["user"] : Begin(t, CreateOrder(e, k, c, a, u))
  \/ \E t \in Txn, o \in DOMAIN OrderCart : Begin(t, CancelOrder(o))
  \/ \E t \in Txn, o \in DOMAIN OrderCart, n \in Rows["ref"], a \in Rows["account"],
       u \in Rows["user"] : Begin(t, SubmitProof(o, n, a, u))
  \/ \E t \in Txn, f \in Rows["proof"], o \in DOMAIN OrderCart, n \in Rows["receipt"],
       a \in Rows["account"] : Begin(t, ApproveProof(f, o, n, a))
  \/ \E t \in Txn, f \in Rows["proof"], o \in DOMAIN OrderCart, n \in Rows["ref"] :
       Begin(t, RejectProof(f, o, n))
  \/ \E t \in Txn, O \in SUBSET DOMAIN OrderCart : O # {} /\ ExpireBatch(t, O)
  \/ \E t \in Txn, O \in SUBSET DOMAIN OrderCart : O # {} /\ Begin(t, EnqueueReminders(O))
  \/ \E t \in Txn, K \in SUBSET Rows["key"] : K # {} /\ Begin(t, PurgeKeys(K))
  \/ \E t \in Txn, r \in Rows["rule"], C \in SUBSET Rows["category"] :
       Begin(t, UpdatePriceRule(r, C))
  \/ \E t \in Txn, k \in Rows["coupon"], e \in Rows["event"] : Begin(t, UpdateCoupon(k, e))
  \/ \E t \in Txn, a \in Rows["account"], e \in Rows["event"] : Begin(t, UpdateAccount(a, e))
  \/ \E t \in Txn, e \in Rows["event"] : Begin(t, UpdateRegistration(e))
  \/ \E t \in Txn, u \in Rows["user"] : Begin(t, SaveSelfProfile(u))
  \/ \E t \in Txn, e \in Rows["event"], c \in Rows["category"], n \in Rows["signup"],
       u \in Rows["user"] : Begin(t, FreeSignup(e, c, n, u))
  \/ \E t \in Txn : Acquire(t)
  \/ \E t \in Txn : End(t)

Spec == Init /\ [][Next]_vars

-----------------------------------------------------------------------------
WaitsFor(t, u) ==
  t # u /\ \E r \in todo[t] : Asks(t, r) /\ \E h \in held[u] : Conflict(r, h)

(* No circle of transactions wait for each other, whatever orders are      *)
(* created, cancelled, expired and reviewed while staff change prices,     *)
(* coupons, accounts and the event: among any of them one does not wait    *)
(* for the others.                                                         *)
NoDeadlock ==
  \A S \in SUBSET Txn : S # {} => \E t \in S : \A u \in S : ~WaitsFor(t, u)
=============================================================================
