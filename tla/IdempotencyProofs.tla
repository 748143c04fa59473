------------------------- MODULE IdempotencyProofs -------------------------
(***************************************************************************)
(* One order per idempotency key, for any number of requests, keys and     *)
(* bodies, any lifetime of keys and any age of a clock reading.            *)
(***************************************************************************)
EXTENDS Idempotency, TLAPS

(* The row of a key is locked by the one request that creates under it.    *)
Locks ==
  /\ \A x \in Request : pc[x] = "creating" => holder[key[x]] = x
  /\ \A k \in Key : holder[k] # Null => pc[holder[k]] = "creating" /\ key[holder[k]] = k

Readings ==
  /\ \A x \in Request : pc[x] # "idle" => at[x] <= now
  /\ \A x \in Request : pc[x] = "begun" => now <= at[x] + Lag
  /\ purgeAt # Null => purgeAt <= now
  /\ doomed # {} => purgeAt # Null

Settled ==
  /\ \A x \in orders : pc[x] = "done"
  /\ \A x \in Request : answer[x] # Null => pc[x] = "done"

(* A row is that of the order it stores. *)
Stored ==
  \A k \in Key : row[k].body # Null =>
    /\ key[row[k].order] = k /\ body[row[k].order] = row[k].body
    /\ row[k].expires = at[row[k].order] + TTL

(* What was there when a request claimed its key had come to its end.      *)
Superseded ==
  \A y \in Request : pc[y] = "creating" =>
    /\ row[key[y]].body # Null => row[key[y]].expires <= at[y]
    /\ \A x \in orders : key[x] = key[y] => at[x] + TTL <= at[y] + Lag

KeyInv ==
  /\ TypeOK /\ Locks /\ Readings /\ Settled /\ Stored /\ Superseded
  /\ KeptWhileAlive /\ OneOrderPerKey /\ AnswersMatch

LEMMA RowFields ==
  ASSUME TypeOK, NEW k \in Key
  PROVE  \/ row[k] = NoRow /\ row[k].body = Null /\ row[k].order = Null
         \/ /\ row[k].body \in Body /\ row[k].order \in orders /\ row[k].expires \in Nat
            /\ row[k].body # Null /\ row[k].order # Null
BY KeyLimits DEF TypeOK, NoRow

LEMMA KeysInitial == Init => KeyInv
<1> SUFFICES ASSUME Init PROVE KeyInv
  OBVIOUS
<1> USE KeyLimits DEF Init
<1>1. TypeOK
  BY DEF TypeOK, NoRow
<1>2. Locks /\ Readings /\ Settled /\ Superseded
  BY DEF Locks, Readings, Settled, Superseded
<1>3. Stored
  BY DEF Stored, NoRow
<1>4. KeptWhileAlive /\ OneOrderPerKey /\ AnswersMatch
  BY DEF KeptWhileAlive, OneOrderPerKey, AnswersMatch
<1>5. QED
  BY <1>1, <1>2, <1>3, <1>4 DEF KeyInv

-----------------------------------------------------------------------------
LEMMA BeginKeeps ==
  ASSUME KeyInv, NEW x \in Request, NEW k \in Key, NEW b \in Body, Begin(x, k, b)
  PROVE  KeyInv'
<1> USE KeyLimits
<1>t. TypeOK
  BY DEF KeyInv
<1>1. /\ pc[x] = "idle" /\ pc' = [pc EXCEPT ![x] = "begun"]
      /\ key' = [key EXCEPT ![x] = k] /\ body' = [body EXCEPT ![x] = b] /\ at' = [at EXCEPT ![x] = now]
      /\ UNCHANGED <<now, row, holder, answer, doomed, purgeAt, orders>>
  BY DEF Begin
<1>2. /\ pc'[x] = "begun" /\ key'[x] = k /\ body'[x] = b /\ at'[x] = now
      /\ \A y \in Request \ {x} : pc'[y] = pc[y] /\ key'[y] = key[y] /\ body'[y] = body[y] /\ at'[y] = at[y]
  BY <1>1, <1>t DEF TypeOK
<1>3. TypeOK'
  BY <1>1, <1>2, <1>t DEF TypeOK
<1>4. x \notin orders /\ answer[x] = Null /\ \A h \in Key : holder[h] # x
  BY <1>1 DEF KeyInv, Settled, Locks, TypeOK
<1>5. \A y \in orders : y \in Request \ {x}
  BY <1>4, <1>t DEF TypeOK
<1>6. Locks'
  BY <1>1, <1>2, <1>4, <1>t DEF KeyInv, Locks, TypeOK
<1>7. Readings'
  BY <1>1, <1>2, <1>t DEF KeyInv, Readings, TypeOK
<1>8. Settled'
  BY <1>1, <1>2, <1>4, <1>5 DEF KeyInv, Settled
<1>9. Stored'
  <2>1. \A h \in Key : row[h].body # Null => row[h].order \in orders
    BY RowFields, <1>t
  <2>2. QED
    BY <1>1, <1>2, <1>5, <2>1 DEF KeyInv, Stored
<1>10. Superseded'
  BY <1>1, <1>2, <1>5 DEF KeyInv, Superseded
<1>11. KeptWhileAlive' /\ OneOrderPerKey'
  BY <1>1, <1>2, <1>5 DEF KeyInv, KeptWhileAlive, OneOrderPerKey
<1>12. AnswersMatch'
  <2>1. \A y \in Request : answer[y] # Null => answer[y] \in Request \ {x} /\ y # x
    BY <1>4, <1>5, <1>t DEF TypeOK
  <2>2. QED
    BY <1>1, <1>2, <2>1 DEF KeyInv, AnswersMatch
<1>13. QED
  BY <1>3, <1>6, <1>7, <1>8, <1>9, <1>10, <1>11, <1>12 DEF KeyInv

(* The claimed key has no row that is alive at the request's reading: what *)
(* it remembers no longer is over by now, and now is not far from that.    *)
LEMMA ClaimKeeps ==
  ASSUME KeyInv, NEW x \in Request, Claim(x)
  PROVE  KeyInv'
<1> USE KeyLimits
<1>t. TypeOK
  BY DEF KeyInv
<1>1. /\ pc[x] = "begun" /\ holder[key[x]] = Null /\ ~Live(x)
      /\ pc' = [pc EXCEPT ![x] = "creating"] /\ holder' = [holder EXCEPT ![key[x]] = x]
      /\ UNCHANGED <<now, row, key, body, at, answer, doomed, purgeAt, orders>>
  BY DEF Claim, KeyLocked
<1>2. /\ key[x] \in Key /\ at[x] \in Nat /\ now \in Nat
      /\ pc'[x] = "creating" /\ holder'[key[x]] = x
      /\ \A y \in Request \ {x} : pc'[y] = pc[y]
      /\ \A k \in Key \ {key[x]} : holder'[k] = holder[k]
  BY <1>1, <1>t DEF TypeOK
<1>3. TypeOK'
  BY <1>1, <1>2, <1>t DEF TypeOK
<1>4. x \notin orders /\ answer[x] = Null
  BY <1>1 DEF KeyInv, Settled
<1>5. Locks'
  <2>1. ASSUME NEW y \in Request, pc'[y] = "creating" PROVE holder'[key[y]] = y
    <3>1. CASE y = x
      BY <1>2, <3>1
    <3>2. CASE y # x
      <4>1. holder[key[y]] = y /\ key[y] \in Key
        BY <1>2, <1>t, <2>1, <3>2 DEF KeyInv, Locks, TypeOK
      <4>2. key[y] # key[x]
        BY <1>1, <4>1
      <4>3. QED
        BY <1>2, <4>1, <4>2
    <3>3. QED
      BY <3>1, <3>2
  <2>2. ASSUME NEW k \in Key, holder'[k] # Null PROVE pc'[holder'[k]] = "creating" /\ key[holder'[k]] = k
    <3>1. CASE k = key[x]
      BY <1>2, <3>1
    <3>2. CASE k # key[x]
      <4>1. holder'[k] = holder[k] /\ pc[holder[k]] = "creating" /\ key[holder[k]] = k /\ holder[k] \in Request
        BY <1>2, <1>t, <2>2, <3>2 DEF KeyInv, Locks, TypeOK
      <4>2. holder[k] # x
        BY <1>1, <4>1
      <4>3. QED
        BY <1>2, <4>1, <4>2
    <3>3. QED
      BY <3>1, <3>2
  <2>3. QED
    BY <1>1, <2>1, <2>2 DEF Locks
<1>6. Readings'
  BY <1>1, <1>2 DEF KeyInv, Readings
<1>7. Settled'
  BY <1>1, <1>2, <1>4, <1>t DEF KeyInv, Settled, TypeOK
<1>8. Superseded'
  <2>1. row[key[x]].body # Null => row[key[x]].expires <= at[x]
    BY <1>1, <1>2, <1>t, RowFields DEF Live
  <2>2. ASSUME NEW y \in orders, key[y] = key[x] PROVE at[y] + TTL <= at[x] + Lag
    <3>1. y \in Request /\ at[y] \in Nat /\ now <= at[x] + Lag
      <4>1. y \in Request
        BY <1>t DEF TypeOK
      <4>2. pc[y] = "done"
        BY DEF KeyInv, Settled
      <4>3. QED
        BY <1>1, <1>t, <4>1, <4>2 DEF KeyInv, Readings, TypeOK
    <3>2. CASE row[key[x]].order = y
      <4>1. row[key[x]].body # Null
        BY <1>2, <1>t, <3>1, <3>2, RowFields
      <4>2. row[key[x]].expires = at[y] + TTL
        BY <1>2, <3>2, <4>1 DEF KeyInv, Stored
      <4>3. QED
        BY <1>2, <2>1, <3>1, <4>1, <4>2
    <3>3. CASE row[key[x]].order # y
      <4>1. ~(now < at[y] + TTL)
        BY <2>2, <3>3 DEF KeyInv, KeptWhileAlive
      <4>2. QED
        BY <1>2, <3>1, <4>1
    <3>4. QED
      BY <3>2, <3>3
  <2>3. QED
    BY <1>1, <1>2, <2>1, <2>2 DEF KeyInv, Superseded
<1>9. Stored' /\ KeptWhileAlive' /\ OneOrderPerKey' /\ AnswersMatch'
  BY <1>1 DEF KeyInv, Stored, KeptWhileAlive, OneOrderPerKey, AnswersMatch
<1>10. QED
  BY <1>3, <1>5, <1>6, <1>7, <1>8, <1>9 DEF KeyInv

LEMMA ReplayKeeps ==
  ASSUME KeyInv, NEW x \in Request, Replay(x)
  PROVE  KeyInv'
<1> USE KeyLimits
<1>t. TypeOK
  BY DEF KeyInv
<1>1. /\ pc[x] = "begun" /\ Live(x) /\ pc' = [pc EXCEPT ![x] = "done"]
      /\ answer' = [answer EXCEPT ![x] = IF row[key[x]].body = body[x] THEN row[key[x]].order ELSE Null]
      /\ UNCHANGED <<now, row, holder, key, body, at, doomed, purgeAt, orders>>
  BY DEF Replay
<1>2. /\ key[x] \in Key /\ pc'[x] = "done" /\ \A y \in Request \ {x} : pc'[y] = pc[y]
      /\ \A y \in Request \ {x} : answer'[y] = answer[y]
      /\ answer'[x] # Null => answer'[x] = row[key[x]].order /\ row[key[x]].body = body[x]
  BY <1>1, <1>t DEF TypeOK
<1>3. row[key[x]].body # Null /\ row[key[x]].order \in orders
  BY <1>1, <1>2, <1>t, RowFields DEF Live
<1>4. TypeOK'
  BY <1>1, <1>2, <1>3, <1>t DEF TypeOK
<1>5. Locks'
  BY <1>1, <1>2, <1>t DEF KeyInv, Locks, TypeOK
<1>6. Readings' /\ Settled'
  BY <1>1, <1>2, <1>t DEF KeyInv, Readings, Settled, TypeOK
<1>7. Superseded' /\ Stored' /\ KeptWhileAlive' /\ OneOrderPerKey'
  BY <1>1, <1>2 DEF KeyInv, Superseded, Stored, KeptWhileAlive, OneOrderPerKey
<1>8. AnswersMatch'
  BY <1>1, <1>2, <1>3 DEF KeyInv, AnswersMatch, Stored
<1>9. QED
  BY <1>4, <1>5, <1>6, <1>7, <1>8 DEF KeyInv

LEMMA CommitKeeps ==
  ASSUME KeyInv, NEW x \in Request, Commit(x)
  PROVE  KeyInv'
<1> USE KeyLimits
<1>t. TypeOK
  BY DEF KeyInv
<1> SUFFICES ASSUME NEW k, k = key[x], NEW new, new = [body |-> body[x], order |-> x, expires |-> at[x] + TTL]
             PROVE  KeyInv'
  OBVIOUS
<1>1. /\ pc[x] = "creating" /\ pc' = [pc EXCEPT ![x] = "done"]
      /\ row' = [row EXCEPT ![k] = new] /\ holder' = [holder EXCEPT ![k] = Null]
      /\ orders' = orders \cup {x}
      /\ \E heard \in {x, Null} : answer' = [answer EXCEPT ![x] = heard]
      /\ UNCHANGED <<now, key, body, at, doomed, purgeAt>>
  BY DEF Commit
<1>2. /\ k \in Key /\ body[x] \in Body /\ at[x] \in Nat /\ now \in Nat /\ at[x] <= now
      /\ holder[k] = x /\ x \notin orders
  BY <1>1, <1>t DEF KeyInv, TypeOK, Locks, Settled, Readings
<1>3. /\ pc'[x] = "done" /\ \A y \in Request \ {x} : pc'[y] = pc[y]
      /\ row'[k] = new /\ \A h \in Key \ {k} : row'[h] = row[h]
      /\ holder'[k] = Null /\ \A h \in Key \ {k} : holder'[h] = holder[h]
      /\ answer'[x] \in {x, Null} /\ \A y \in Request \ {x} : answer'[y] = answer[y]
  BY <1>1, <1>2, <1>t DEF TypeOK
<1>4. new.body = body[x] /\ new.order = x /\ new.expires = at[x] + TTL
  OBVIOUS
<1>5. TypeOK'
  <2>1. new \in [body : Body, order : orders', expires : Nat]
    BY <1>1, <1>2
  <2>2. row' \in [Key -> {NoRow} \cup [body : Body, order : orders', expires : Nat]]
    <3>1. \A h \in Key : row'[h] \in {NoRow} \cup [body : Body, order : orders', expires : Nat]
      BY <1>1, <1>3, <1>t, <2>1 DEF TypeOK
    <3>2. QED
      BY <1>1, <1>t, <3>1 DEF TypeOK
  <2>3. answer' \in [Request -> orders' \cup {Null}] /\ orders' \subseteq Request
    BY <1>1, <1>3, <1>t DEF TypeOK
  <2>4. QED
    BY <1>1, <1>2, <1>3, <1>t, <2>2, <2>3 DEF TypeOK
<1>6. \A y \in Request \ {x} : pc[y] = "creating" => key[y] # k
  BY <1>2 DEF KeyInv, Locks
<1>7. Locks'
  <2>1. \A h \in Key \ {k} : holder[h] # x
    BY <1>2, <1>1 DEF KeyInv, Locks
  <2>2. QED
    BY <1>1, <1>3, <1>6, <1>t, <2>1 DEF KeyInv, Locks, TypeOK
<1>8. Readings' /\ Settled'
  BY <1>1, <1>3, <1>t DEF KeyInv, Readings, Settled, TypeOK
<1>9. Stored'
  BY <1>1, <1>3, <1>4 DEF KeyInv, Stored
<1>10. Superseded'
  <2>1. ASSUME NEW y \in Request, pc'[y] = "creating"
        PROVE  /\ row'[key[y]].body # Null => row'[key[y]].expires <= at[y]
               /\ \A z \in orders' : key[z] = key[y] => at[z] + TTL <= at[y] + Lag
    <3>1. y # x /\ pc[y] = "creating" /\ key[y] # k /\ key[y] \in Key
      BY <1>3, <1>6, <1>t, <2>1 DEF TypeOK
    <3>2. row'[key[y]] = row[key[y]]
      BY <1>3, <3>1
    <3>3. QED
      BY <1>1, <3>1, <3>2 DEF KeyInv, Superseded
  <2>2. QED
    BY <1>1, <2>1 DEF Superseded
<1>11. KeptWhileAlive'
  <2>1. ASSUME NEW y \in orders', now < at[y] + TTL PROVE row'[key[y]].order = y
    <3>1. CASE y = x
      BY <1>3, <1>4, <3>1
    <3>2. CASE y # x /\ key[y] # k
      <4>1. y \in orders /\ key[y] \in Key
        BY <1>1, <1>t, <3>2 DEF KeyInv, Settled, TypeOK
      <4>2. QED
        BY <1>3, <2>1, <3>2, <4>1 DEF KeyInv, KeptWhileAlive
    <3>3. CASE y # x /\ key[y] = k
      <4>1. y \in orders /\ y \in Request /\ row[k].order = y
        BY <1>1, <1>t, <2>1, <3>3 DEF KeyInv, KeptWhileAlive, TypeOK
      <4>2. row[k].body # Null
        BY <1>2, <1>t, <4>1, RowFields
      <4>3. row[k].expires = at[y] + TTL /\ row[k].expires <= at[x]
        BY <1>1, <1>2, <4>1, <4>2 DEF KeyInv, Stored, Superseded
      <4>4. at[y] \in Nat
        BY <1>t, <4>1 DEF KeyInv, Settled, TypeOK
      <4>5. QED
        BY <1>2, <2>1, <4>3, <4>4
    <3>4. QED
      BY <3>1, <3>2, <3>3
  <2>2. QED
    BY <1>1, <2>1 DEF KeptWhileAlive
<1>12. OneOrderPerKey'
  <2>1. \A y \in orders : key[y] = k => at[y] + TTL <= at[x] + Lag
    BY <1>1 DEF KeyInv, Superseded
  <2>2. QED
    BY <1>1, <2>1 DEF KeyInv, OneOrderPerKey
<1>13. AnswersMatch'
  BY <1>1, <1>3 DEF KeyInv, AnswersMatch
<1>14. QED
  BY <1>5, <1>7, <1>8, <1>9, <1>10, <1>11, <1>12, <1>13 DEF KeyInv

LEMMA RollbackKeeps ==
  ASSUME KeyInv, NEW x \in Request, Rollback(x)
  PROVE  KeyInv'
<1> USE KeyLimits
<1>t. TypeOK
  BY DEF KeyInv
<1>1. /\ pc[x] \in {"begun", "creating"} /\ pc' = [pc EXCEPT ![x] = "done"]
      /\ holder' = [k \in Key |-> IF holder[k] = x THEN Null ELSE holder[k]]
      /\ UNCHANGED <<now, row, key, body, at, answer, doomed, purgeAt, orders>>
  BY DEF Rollback
<1>2. pc'[x] = "done" /\ \A y \in Request \ {x} : pc'[y] = pc[y]
  BY <1>1, <1>t DEF TypeOK
<1>3. TypeOK'
  BY <1>1, <1>2, <1>t DEF TypeOK
<1>4. Locks'
  BY <1>1, <1>2, <1>t DEF KeyInv, Locks, TypeOK
<1>5. Readings' /\ Settled'
  BY <1>1, <1>2, <1>t DEF KeyInv, Readings, Settled, TypeOK
<1>6. Superseded' /\ Stored' /\ KeptWhileAlive' /\ OneOrderPerKey' /\ AnswersMatch'
  BY <1>1, <1>2 DEF KeyInv, Superseded, Stored, KeptWhileAlive, OneOrderPerKey, AnswersMatch
<1>7. QED
  BY <1>3, <1>4, <1>5, <1>6 DEF KeyInv

LEMMA SelectKeeps ==
  ASSUME KeyInv, NEW K \in SUBSET Key, PurgeSelect(K)
  PROVE  KeyInv'
<1> USE KeyLimits
<1>1. TypeOK' /\ Readings'
  BY DEF KeyInv, PurgeSelect, TypeOK, Readings
<1>2. Locks' /\ Settled' /\ Superseded' /\ Stored' /\ KeptWhileAlive' /\ OneOrderPerKey' /\ AnswersMatch'
  BY DEF KeyInv, PurgeSelect, Locks, Settled, Superseded, Stored, KeptWhileAlive, OneOrderPerKey, AnswersMatch
<1>3. QED
  BY <1>1, <1>2 DEF KeyInv

(* The delete finds a row that was over when the purge began, or none. *)
LEMMA DeleteKeeps ==
  ASSUME KeyInv, NEW k \in Key, PurgeDelete(k)
  PROVE  KeyInv'
<1> USE KeyLimits
<1>t. TypeOK
  BY DEF KeyInv
<1>1. /\ k \in doomed /\ holder[k] = Null
      /\ row' = [row EXCEPT ![k] = IF PurgeRow(k) THEN NoRow ELSE @]
      /\ doomed' = doomed \ {k} /\ purgeAt' = IF doomed = {k} THEN Null ELSE purgeAt
      /\ UNCHANGED <<now, holder, pc, key, body, at, answer, orders>>
  BY DEF PurgeDelete, KeyLocked
<1>2. /\ \A h \in Key \ {k} : row'[h] = row[h]
      /\ row'[k] = row[k] \/ (row'[k] = NoRow /\ PurgeRow(k))
  BY <1>1, <1>t DEF TypeOK
<1>3. TypeOK'
  <2>1. row' \in [Key -> {NoRow} \cup [body : Body, order : orders, expires : Nat]]
    BY <1>1, <1>t DEF TypeOK
  <2>2. QED
    BY <1>1, <1>t, <2>1 DEF TypeOK
<1>4. Locks' /\ Settled' /\ OneOrderPerKey' /\ AnswersMatch'
  BY <1>1 DEF KeyInv, Locks, Settled, OneOrderPerKey, AnswersMatch
<1>5. Readings'
  BY <1>1 DEF KeyInv, Readings
<1>6. \A y \in Request : pc[y] = "creating" => key[y] \in Key \ {k}
  BY <1>1, <1>t DEF KeyInv, Locks, TypeOK
<1>7. Superseded'
  BY <1>1, <1>2, <1>6 DEF KeyInv, Superseded
<1>8. Stored'
  BY <1>1, <1>2 DEF KeyInv, Stored, NoRow
<1>9. KeptWhileAlive'
  <2>1. ASSUME NEW x \in orders, now < at[x] + TTL PROVE row'[key[x]].order = x
    <3>1. row[key[x]].order = x /\ key[x] \in Key /\ at[x] \in Nat /\ now \in Nat /\ x \in Request
      BY <1>t, <2>1 DEF KeyInv, KeptWhileAlive, Settled, TypeOK
    <3>2. CASE key[x] = k /\ PurgeRow(k)
      <4>1. row[k].expires = at[x] + TTL
        BY <3>1, <3>2 DEF KeyInv, Stored, PurgeRow
      <4>2. purgeAt \in Nat /\ purgeAt <= now
        BY <1>1, <1>t DEF KeyInv, Readings, TypeOK
      <4>3. QED
        BY <2>1, <3>1, <3>2, <4>1, <4>2 DEF PurgeRow
    <3>3. QED
      BY <1>2, <3>1, <3>2
  <2>2. QED
    BY <1>1, <2>1 DEF KeptWhileAlive
<1>10. QED
  BY <1>3, <1>4, <1>5, <1>7, <1>8, <1>9 DEF KeyInv

LEMMA TickKeeps == KeyInv /\ Tick => KeyInv'
<1> SUFFICES ASSUME KeyInv, Tick PROVE KeyInv'
  OBVIOUS
<1> USE KeyLimits
<1>1. /\ \A x \in Request : pc[x] = "begun" => now - at[x] < Lag
      /\ now' = now + 1
      /\ UNCHANGED <<row, holder, pc, key, body, at, answer, doomed, purgeAt, orders>>
  BY DEF Tick
<1>2. TypeOK'
  BY <1>1 DEF KeyInv, TypeOK
<1>3. Readings'
  BY <1>1 DEF KeyInv, Readings, TypeOK
<1>4. KeptWhileAlive'
  <2>1. \A x \in orders : at[x] \in Nat
    BY DEF KeyInv, Settled, TypeOK
  <2>2. now \in Nat
    BY DEF KeyInv, TypeOK
  <2>3. QED
    BY <1>1, <2>1, <2>2 DEF KeyInv, KeptWhileAlive
<1>5. Locks' /\ Settled' /\ Superseded' /\ Stored' /\ OneOrderPerKey' /\ AnswersMatch'
  BY <1>1 DEF KeyInv, Locks, Settled, Superseded, Stored, OneOrderPerKey, AnswersMatch
<1>6. QED
  BY <1>2, <1>3, <1>4, <1>5 DEF KeyInv

LEMMA KeysInvariant == Spec => []KeyInv
<1>1. KeyInv /\ UNCHANGED vars => KeyInv'
  BY DEF KeyInv, vars, TypeOK, Locks, Readings, Settled, Stored, Superseded, KeptWhileAlive,
         OneOrderPerKey, AnswersMatch
<1>2. KeyInv /\ Next => KeyInv'
  BY BeginKeeps, ClaimKeeps, ReplayKeeps, CommitKeeps, RollbackKeeps, SelectKeeps, DeleteKeeps, TickKeeps
     DEF Next
<1>3. KeyInv /\ [Next]_vars => KeyInv'
  BY <1>1, <1>2
<1>4. QED
  BY KeysInitial, <1>3, PTL DEF Spec

(* A living key makes one order, however the request is repeated: the row  *)
(* stays locked from the claim to the commit.                              *)
THEOREM KeyMakesOneOrder == Spec => []OneOrderPerKey
<1>1. KeyInv => OneOrderPerKey
  BY DEF KeyInv
<1>2. QED
  BY <1>1, KeysInvariant, PTL

(* Nobody is answered with the order of another request body or key.       *)
THEOREM AnswersAreOwn == Spec => []AnswersMatch
<1>1. KeyInv => AnswersMatch
  BY DEF KeyInv
<1>2. QED
  BY <1>1, KeysInvariant, PTL

(* The purge, whose delete checks each row again, removes no living key.   *)
THEOREM LivingKeysKept == Spec => []KeptWhileAlive
<1>1. KeyInv => KeptWhileAlive
  BY DEF KeyInv
<1>2. QED
  BY <1>1, KeysInvariant, PTL

(* Every row that is committed has the response of a committed order.      *)
THEOREM KeyTables == Spec => []TypeOK
<1>1. KeyInv => TypeOK
  BY DEF KeyInv
<1>2. QED
  BY <1>1, KeysInvariant, PTL
=============================================================================
