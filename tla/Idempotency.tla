---------------------------- MODULE Idempotency ----------------------------
(***************************************************************************)
(* The idempotency key of CreateOrder: a client that did not hear the      *)
(* answer repeats its request under the same key.  The key's row is        *)
(* claimed by an upsert that locks it until the transaction ends, and      *)
(* committed together with the order and the stored response; the deadline *)
(* job deletes expired rows in a statement that first selects and then     *)
(* deletes them.                                                           *)
(*                                                                         *)
(* An order is named by the request that made it.  What making it involves *)
(* is RegOrders; here it succeeds or fails.                                *)
(***************************************************************************)
EXTENDS Integers, FiniteSets

CONSTANTS
  Request,
  Key,       \* idempotency keys, each with its runner
  Body,      \* distinct request hashes
  TTL,       \* idempotencyTTL
  Lag,       \* bound: how far a handler's clock reading is behind
  Horizon,   \* bound: the last instant of the clock
  Null

ASSUME KeyLimits ==
  /\ IsFiniteSet(Request) /\ TTL \in Nat /\ Lag \in Nat /\ Horizon \in Nat
  /\ Null \notin Request \cup Key \cup Body \cup Nat

VARIABLES
  now,
  row,      \* idempotency_keys as committed; body is Null for no row
  holder,   \* the open transaction that has the key's row locked
  pc,       \* of a request: idle, begun, creating or done
  key, body,
  at,       \* the request's clock reading
  answer,   \* the order a request was answered with
  doomed,   \* rows the purge under way has selected
  purgeAt,  \* its clock reading; Null when none is under way
  orders    \* orders committed

vars == <<now, row, holder, pc, key, body, at, answer, doomed, purgeAt, orders>>

NoRow == [body |-> Null, order |-> Null, expires |-> Null]

Init ==
  /\ now = 0
  /\ row = [k \in Key |-> NoRow]
  /\ holder = [k \in Key |-> Null]
  /\ pc = [x \in Request |-> "idle"]
  /\ key = [x \in Request |-> Null] /\ body = [x \in Request |-> Null]
  /\ at = [x \in Request |-> Null]
  /\ answer = [x \in Request |-> Null]
  /\ doomed = {} /\ purgeAt = Null
  /\ orders = {}

-----------------------------------------------------------------------------
(* The hash is computed and the clock read before the transaction begins.  *)
Begin(x, k, b) ==
  /\ pc[x] = "idle"
  /\ pc' = [pc EXCEPT ![x] = "begun"]
  /\ key' = [key EXCEPT ![x] = k] /\ body' = [body EXCEPT ![x] = b]
  /\ at' = [at EXCEPT ![x] = now]
  /\ UNCHANGED <<now, row, holder, answer, doomed, purgeAt, orders>>

KeyLocked_Never(k) == FALSE

(* The row is locked by the transaction that claimed it. *)
KeyLocked(k) == holder[k] # Null

(* The key has a row that has not expired. *)
Live(x) == row[key[x]].body # Null /\ row[key[x]].expires > at[x]

Claim_OwnTransaction(x) ==
  /\ pc[x] = "begun" /\ ~KeyLocked(key[x])
  /\ ~Live(x)
  /\ pc' = [pc EXCEPT ![x] = "creating"]
  /\ row' = [row EXCEPT ![key[x]] = [body |-> body[x], order |-> Null, expires |-> at[x] + TTL]]
  /\ UNCHANGED <<now, holder, key, body, at, answer, doomed, purgeAt, orders>>

(* ClaimIdempotencyKey inserts the row, or overwrites an expired one. *)
Claim(x) ==
  /\ pc[x] = "begun" /\ ~KeyLocked(key[x])
  /\ ~Live(x)
  /\ pc' = [pc EXCEPT ![x] = "creating"]
  /\ holder' = [holder EXCEPT ![key[x]] = x]
  /\ UNCHANGED <<now, row, key, body, at, answer, doomed, purgeAt, orders>>

Replay_AnyBody(x) ==
  /\ pc[x] = "begun" /\ ~KeyLocked(key[x])
  /\ Live(x)
  /\ pc' = [pc EXCEPT ![x] = "done"]
  /\ answer' = [answer EXCEPT ![x] = row[key[x]].order]
  /\ UNCHANGED <<now, row, holder, key, body, at, doomed, purgeAt, orders>>

(* An unexpired row is locked and loaded: the stored response is answered, *)
(* or IDEMPOTENCY_KEY_REUSED for another request.                          *)
Replay(x) ==
  /\ pc[x] = "begun" /\ ~KeyLocked(key[x])
  /\ Live(x)
  /\ pc' = [pc EXCEPT ![x] = "done"]
  /\ answer' = [answer EXCEPT ![x] = IF row[key[x]].body = body[x] THEN row[key[x]].order
                                     ELSE Null]
  /\ UNCHANGED <<now, row, holder, key, body, at, doomed, purgeAt, orders>>

(* The order is made, the response saved, and both committed; the answer   *)
(* may be lost.                                                            *)
Commit(x) ==
  /\ pc[x] = "creating"
  /\ pc' = [pc EXCEPT ![x] = "done"]
  /\ row' = [row EXCEPT ![key[x]] = [body |-> body[x], order |-> x, expires |-> at[x] + TTL]]
  /\ holder' = [holder EXCEPT ![key[x]] = Null]
  /\ orders' = orders \cup {x}
  /\ \E heard \in {x, Null} : answer' = [answer EXCEPT ![x] = heard]
  /\ UNCHANGED <<now, key, body, at, doomed, purgeAt>>

Rollback(x) ==
  /\ pc[x] \in {"begun", "creating"}
  /\ pc' = [pc EXCEPT ![x] = "done"]
  /\ holder' = [k \in Key |-> IF holder[k] = x THEN Null ELSE holder[k]]
  /\ UNCHANGED <<now, row, key, body, at, answer, doomed, purgeAt, orders>>

-----------------------------------------------------------------------------
(* PurgeExpiredIdempotencyKeys: the subquery, limited to a batch, ...      *)
PurgeSelect(K) ==
  /\ purgeAt = Null
  /\ K # {} /\ \A k \in K : row[k].body # Null /\ row[k].expires < now
  /\ doomed' = K /\ purgeAt' = now
  /\ UNCHANGED <<now, row, holder, pc, key, body, at, answer, orders>>

PurgeRow_NotRechecked(k) == row[k].body # Null

(* ... and the delete, which checks the latest version of the row again.   *)
PurgeRow(k) == row[k].body # Null /\ row[k].expires < purgeAt

PurgeDelete(k) ==
  /\ k \in doomed /\ ~KeyLocked(k)
  /\ row' = [row EXCEPT ![k] = IF PurgeRow(k) THEN NoRow ELSE @]
  /\ doomed' = doomed \ {k}
  /\ purgeAt' = IF doomed = {k} THEN Null ELSE purgeAt
  /\ UNCHANGED <<now, holder, pc, key, body, at, answer, orders>>

(* Time passes; no request takes longer than Lag to claim its key. *)
Tick ==
  /\ now < Horizon
  /\ \A x \in Request : pc[x] = "begun" => now - at[x] < Lag
  /\ now' = now + 1
  /\ UNCHANGED <<row, holder, pc, key, body, at, answer, doomed, purgeAt, orders>>

Next ==
  \/ \E x \in Request, k \in Key, b \in Body : Begin(x, k, b)
  \/ \E x \in Request : Claim(x)
  \/ \E x \in Request : Replay(x)
  \/ \E x \in Request : Commit(x)
  \/ \E x \in Request : Rollback(x)
  \/ \E K \in SUBSET Key : PurgeSelect(K)
  \/ \E k \in Key : PurgeDelete(k)
  \/ Tick

Spec == Init /\ [][Next]_vars

-----------------------------------------------------------------------------
(* Tables and requests hold what they may; a committed row always has the  *)
(* response of a committed order.                                          *)
TypeOK ==
  /\ now \in Nat
  /\ row \in [Key -> {NoRow} \cup [body : Body, order : orders, expires : Nat]]
  /\ holder \in [Key -> Request \cup {Null}]
  /\ pc \in [Request -> {"idle", "begun", "creating", "done"}]
  /\ key \in [Request -> Key \cup {Null}] /\ body \in [Request -> Body \cup {Null}]
  /\ at \in [Request -> Nat \cup {Null}]
  /\ \A x \in Request : pc[x] # "idle" => key[x] \in Key /\ body[x] \in Body /\ at[x] \in Nat
  /\ answer \in [Request -> orders \cup {Null}]
  /\ doomed \subseteq Key /\ purgeAt \in Nat \cup {Null}
  /\ orders \subseteq Request

(* One key makes one order while it lives, however often and however       *)
(* concurrently the request is repeated: a second order comes from a       *)
(* request that reads its clock no earlier than the key's end, give or     *)
(* take the age of that reading.                                           *)
OneOrderPerKey ==
  \A x, y \in orders :
    x # y /\ key[x] = key[y] => at[x] + TTL <= at[y] + Lag \/ at[y] + TTL <= at[x] + Lag

(* A repeated request is answered with the order of the same request made  *)
(* under the same key, never with that of another.                         *)
AnswersMatch ==
  \A x \in Request : answer[x] # Null =>
    key[answer[x]] = key[x] /\ body[answer[x]] = body[x]

(* Until it expires a key remembers its order, whatever is purged.         *)
KeptWhileAlive ==
  \A x \in orders : now < at[x] + TTL => row[key[x]].order = x
=============================================================================
