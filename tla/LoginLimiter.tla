---------------------------- MODULE LoginLimiter ----------------------------
(***************************************************************************)
(* iam.LoginLimiter as staff logins use it: a request passes the quota of  *)
(* its address, takes a slot of its username, checks the password without  *)
(* the lock, and gives the slot back as a failure, a success or neither.   *)
(*                                                                         *)
(* The limiter keeps lists of times.  They grow at the end and are pruned  *)
(* from the front, so a list is the set of the requests it stands for and  *)
(* pruning keeps the recent ones; hitAt and failedAt are their times.      *)
(* Every method holds the mutex, so each is one step.  A restart empties   *)
(* the limiter: that is Init again.                                        *)
(***************************************************************************)
EXTENDS Integers, FiniteSets

CONSTANTS
  Login,          \* login requests that can come
  User, IP,
  IPWindow, IPMax,
  FailureWindow, MaxFailures, LockDuration,
  SweepEvery,
  Horizon,        \* bound: the last instant of the clock
  Null

ASSUME LimitsType ==
  /\ IsFiniteSet(Login) /\ Null \notin Nat /\ Null \notin User /\ Null \notin IP
  /\ IPWindow \in Nat \ {0} /\ IPMax \in Nat \ {0}
  /\ FailureWindow \in Nat \ {0} /\ MaxFailures \in Nat \ {0} /\ SweepEvery \in Nat \ {0}
  /\ Horizon \in Nat

(* A username stays locked until the failures that locked it are too old   *)
(* to count: lockDuration is failureWindow, 15 minutes.                    *)
ASSUME LockOutlivesFailures == LockDuration \in Nat /\ LockDuration >= FailureWindow

VARIABLES
  now,
  ipHits,     \* requests counted against an address
  failures,   \* failed requests counted against a username
  locked,     \* until when a username is locked; Null for no entry
  inFlight,   \* slots of a username that are taken
  calls,      \* calls since the last sweep
  pc,         \* of a request: idle, admitted, checking or done
  who, from,  \* its username and address
  hitAt, failedAt,
  wrong       \* history: requests that failed since the username's last success

limiter == <<ipHits, failures, locked, inFlight, calls>>
vars == <<now, limiter, pc, who, from, hitAt, failedAt, wrong>>

Init ==
  /\ now = 0
  /\ ipHits = [i \in IP |-> {}]
  /\ failures = [u \in User |-> {}]
  /\ locked = [u \in User |-> Null]
  /\ inFlight = [u \in User |-> 0]
  /\ calls = 0
  /\ pc = [l \in Login |-> "idle"]
  /\ who = [l \in Login |-> Null]
  /\ from = [l \in Login |-> Null]
  /\ hitAt = [l \in Login |-> Null]
  /\ failedAt = [l \in Login |-> Null]
  /\ wrong = [u \in User |-> {}]

-----------------------------------------------------------------------------
(* pruneBefore *)
Recent(S, at, window) == {l \in S : at[l] > now - window}

(* maybeSweep: what the maps hold once the call has been counted.          *)
Sweeping    == (calls + 1) % SweepEvery = 0
Count       == calls' = (calls + 1) % SweepEvery
SweptHits   == IF Sweeping THEN [i \in IP |-> Recent(ipHits[i], hitAt, IPWindow)] ELSE ipHits
SweptFails  == IF Sweeping THEN [u \in User |-> Recent(failures[u], failedAt, FailureWindow)]
               ELSE failures
SweptLocks  == [u \in User |-> IF Sweeping /\ locked[u] # Null /\ now >= locked[u] THEN Null
                               ELSE locked[u]]

IsLocked(u) == locked[u] # Null /\ now < locked[u]

AllowIP_OneMore(l, u, i) ==
  LET hits == Recent(SweptHits[i], hitAt, IPWindow)
      ok   == Cardinality(hits) <= IPMax
  IN  /\ pc[l] = "idle"
      /\ pc' = [pc EXCEPT ![l] = IF ok THEN "admitted" ELSE "done"]
      /\ who' = [who EXCEPT ![l] = u] /\ from' = [from EXCEPT ![l] = i]
      /\ ipHits' = [SweptHits EXCEPT ![i] = IF ok THEN hits \cup {l} ELSE hits]
      /\ hitAt' = [hitAt EXCEPT ![l] = IF ok THEN now ELSE Null]
      /\ failures' = SweptFails /\ locked' = SweptLocks /\ Count
      /\ UNCHANGED <<now, inFlight, failedAt, wrong>>

AllowIP(l, u, i) ==
  LET hits == Recent(SweptHits[i], hitAt, IPWindow)
      ok   == Cardinality(hits) < IPMax
  IN  /\ pc[l] = "idle"
      /\ pc' = [pc EXCEPT ![l] = IF ok THEN "admitted" ELSE "done"]
      /\ who' = [who EXCEPT ![l] = u] /\ from' = [from EXCEPT ![l] = i]
      /\ ipHits' = [SweptHits EXCEPT ![i] = IF ok THEN hits \cup {l} ELSE hits]
      /\ hitAt' = [hitAt EXCEPT ![l] = IF ok THEN now ELSE Null]
      /\ failures' = SweptFails /\ locked' = SweptLocks /\ Count
      /\ UNCHANGED <<now, inFlight, failedAt, wrong>>

SlotFree_OneMore(u) ==
  Cardinality(Recent(failures[u], failedAt, FailureWindow)) + inFlight[u] <= MaxFailures
SlotFree_FailuresOnly(u) ==
  Cardinality(Recent(failures[u], failedAt, FailureWindow)) < MaxFailures

(* Failures in the window and attempts under way together leave room.      *)
SlotFree(u) ==
  Cardinality(Recent(failures[u], failedAt, FailureWindow)) + inFlight[u] < MaxFailures

BeginAttempt(l) ==
  LET u  == who[l]
      ok == ~IsLocked(u) /\ SlotFree(u)
  IN  /\ pc[l] = "admitted"
      /\ pc' = [pc EXCEPT ![l] = IF ok THEN "checking" ELSE "done"]
      /\ inFlight' = [inFlight EXCEPT ![u] = IF ok THEN @ + 1 ELSE @]
      /\ locked' = [SweptLocks EXCEPT ![u] = IF IsLocked(u) THEN @ ELSE Null]
      /\ failures' = [SweptFails EXCEPT ![u] = IF IsLocked(u) THEN @
                                               ELSE Recent(@, failedAt, FailureWindow)]
      /\ ipHits' = SweptHits /\ Count
      /\ UNCHANGED <<now, who, from, hitAt, failedAt, wrong>>

-----------------------------------------------------------------------------
GiveBack_Twice(l) ==
  /\ pc[l] = "checking"
  /\ pc' = [pc EXCEPT ![l] = "done"]
  /\ inFlight' = [inFlight EXCEPT ![who[l]] = IF @ <= 1 THEN 0 ELSE @ - 2]
  /\ UNCHANGED <<now, ipHits, calls, who, from, hitAt>>

(* The password has been checked, or something failed before it could be.  *)
GiveBack(l) ==
  /\ pc[l] = "checking"
  /\ pc' = [pc EXCEPT ![l] = "done"]
  /\ inFlight' = [inFlight EXCEPT ![who[l]] = IF @ = 0 THEN 0 ELSE @ - 1]
  /\ UNCHANGED <<now, ipHits, calls, who, from, hitAt>>

Failure(l) ==
  LET u    == who[l]
      fail == Recent(failures[u], failedAt, FailureWindow) \cup {l}
      lock == Cardinality(fail) >= MaxFailures
  IN  /\ GiveBack(l)
      /\ failedAt' = [failedAt EXCEPT ![l] = now]
      /\ failures' = [failures EXCEPT ![u] = IF lock THEN {} ELSE fail]
      /\ locked' = [locked EXCEPT ![u] = IF lock THEN now + LockDuration ELSE @]
      /\ wrong' = [wrong EXCEPT ![u] = @ \cup {l}]

Success(l) ==
  /\ GiveBack(l)
  /\ failures' = [failures EXCEPT ![who[l]] = {}]
  /\ locked' = [locked EXCEPT ![who[l]] = Null]
  /\ wrong' = [wrong EXCEPT ![who[l]] = {}]
  /\ UNCHANGED failedAt

Release(l) ==
  /\ GiveBack(l)
  /\ UNCHANGED <<failures, locked, failedAt, wrong>>

Tick ==
  /\ now < Horizon
  /\ now' = now + 1
  /\ UNCHANGED <<limiter, pc, who, from, hitAt, failedAt, wrong>>

Next ==
  \/ \E l \in Login, u \in User, i \in IP : AllowIP(l, u, i)
  \/ \E l \in Login : BeginAttempt(l)
  \/ \E l \in Login : Failure(l)
  \/ \E l \in Login : Success(l)
  \/ \E l \in Login : Release(l)
  \/ Tick

Spec == Init /\ [][Next]_vars

-----------------------------------------------------------------------------
Checking(u) == {l \in Login : pc[l] = "checking" /\ who[l] = u}

TypeOK ==
  /\ now \in Nat
  /\ ipHits \in [IP -> SUBSET {l \in Login : hitAt[l] # Null}]
  /\ failures \in [User -> SUBSET {l \in Login : failedAt[l] # Null}]
  /\ locked \in [User -> Nat \cup {Null}]
  /\ inFlight \in [User -> Nat]
  /\ calls \in Nat
  /\ pc \in [Login -> {"idle", "admitted", "checking", "done"}]
  /\ who \in [Login -> User \cup {Null}] /\ from \in [Login -> IP \cup {Null}]
  /\ \A l \in Login : pc[l] \in {"admitted", "checking"} => who[l] \in User /\ from[l] \in IP
  /\ hitAt \in [Login -> Nat \cup {Null}] /\ failedAt \in [Login -> Nat \cup {Null}]
  /\ wrong \in [User -> SUBSET {l \in Login : failedAt[l] # Null}]

(* Every slot taken is given back once, on every way out of a login, so a  *)
(* username is neither shut out for ever nor open to more attempts.        *)
SlotsReturned == \A u \in User : inFlight[u] = Cardinality(Checking(u))

(* However many logins for a username run at once, the wrong passwords     *)
(* tried in the last window since a success, with those being checked,     *)
(* never exceed the maximum: no request slips between check and count,     *)
(* neither around a lock nor around a sweep.                               *)
GuessesBounded ==
  \A u \in User :
    Cardinality(Recent(wrong[u], failedAt, FailureWindow)) + Cardinality(Checking(u)) <= MaxFailures

(* A running lock stays until it has run out: no login that was under way  *)
(* when it was set lifts it by succeeding, or moves it by failing.         *)
LockHolds == [][\A u \in User : IsLocked(u) => locked'[u] = locked[u]]_vars

(* No address is let through more than IPMax times within the window,      *)
(* whatever has been pruned or swept meanwhile.                            *)
AddressBounded ==
  \A i \in IP :
    Cardinality({l \in Login : from[l] = i /\ hitAt[l] # Null /\ hitAt[l] > now - IPWindow}) <= IPMax
=============================================================================
