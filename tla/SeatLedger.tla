----------------------------- MODULE SeatLedger -----------------------------
(***************************************************************************)
(* What the counters of categories, price rules and coupons are for, with  *)
(* no counters: every booking holds a fixed set of units of each pool,     *)
(* sells them or frees them exactly once, and the units held and sold      *)
(* together never exceed the pool's limit, which itself may move.          *)
(***************************************************************************)
EXTENDS Integers, FiniteSets

CONSTANTS Booking, Pool, Unit, Null

VARIABLES
  state,  \* NONE, HELD, SOLD or FREED
  units,  \* the units a booking takes from each pool
  limit   \* the size of each pool; Null for no limit

vars == <<state, units, limit>>

Taken(k) == {s \in Booking \X Unit : state[s[1]] \in {"HELD", "SOLD"} /\ s[2] \in units[s[1]][k]}

Fits(k) == limit[k] = Null \/ Cardinality(Taken(k)) <= limit[k]

Init ==
  /\ state = [b \in Booking |-> "NONE"]
  /\ units = [b \in Booking |-> [k \in Pool |-> {}]]
  /\ limit \in [Pool -> Nat \cup {Null}]

(* A booking appears, holding its units or having bought them outright. *)
Book(b) ==
  /\ state[b] = "NONE"
  /\ state'[b] \in {"HELD", "SOLD"}
  /\ state' = [state EXCEPT ![b] = state'[b]]
  /\ units'[b] \in [Pool -> SUBSET Unit]
  /\ units' = [units EXCEPT ![b] = units'[b]]
  /\ limit' = limit
  /\ \A k \in Pool : units'[b][k] # {} => Fits(k)'

Settle(B, to) ==
  /\ \A b \in B : state[b] = "HELD"
  /\ state' = [b \in Booking |-> IF b \in B THEN to ELSE state[b]]
  /\ UNCHANGED <<units, limit>>

(* A pool is resized, never below what is taken of it. *)
Resize ==
  /\ limit' \in [Pool -> Nat \cup {Null}]
  /\ UNCHANGED <<state, units>>
  /\ \A k \in Pool : Fits(k)'

Next ==
  \/ \E b \in Booking : Book(b)
  \/ \E b \in Booking : Settle({b}, "SOLD")
  \/ \E B \in SUBSET Booking : Settle(B, "FREED")
  \/ Resize

Spec == Init /\ [][Next]_vars

NeverOversold == \A k \in Pool : Fits(k)
=============================================================================
