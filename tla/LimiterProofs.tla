--------------------------- MODULE LimiterProofs ---------------------------
(***************************************************************************)
(* For every number of logins, usernames and addresses and every limit:    *)
(* the guesses and the addresses stay within their maximum, slots are      *)
(* returned exactly once, and a lock that is running is never lifted.      *)
(***************************************************************************)
EXTENDS LoginLimiter, FiniteSetTheorems, TLAPS

USE LimitsType, LockOutlivesFailures

-----------------------------------------------------------------------------
(* Cardinalities of sets of requests *)

LEMMA PartFinite ==
  ASSUME NEW S \in SUBSET Login
  PROVE  IsFiniteSet(S) /\ Cardinality(S) \in Nat
BY FS_Subset, FS_CardinalityType

LEMMA PartLess ==
  ASSUME NEW T \in SUBSET Login, NEW S \in SUBSET T
  PROVE  Cardinality(S) <= Cardinality(T)
BY PartFinite, FS_Subset

LEMMA PartAdd ==
  ASSUME NEW S \in SUBSET Login, NEW l \in Login
  PROVE  /\ Cardinality(S \cup {l}) <= Cardinality(S) + 1
         /\ l \notin S => Cardinality(S \cup {l}) = Cardinality(S) + 1
BY PartFinite, FS_AddElement

LEMMA PartRemove ==
  ASSUME NEW S \in SUBSET Login, NEW l \in S
  PROVE  Cardinality(S \ {l}) = Cardinality(S) - 1
BY PartFinite, FS_RemoveElement

-----------------------------------------------------------------------------
(* The inductive invariant *)

(* A request has the times of what it has done, none of them to come.      *)
TimesOf ==
  \A l \in Login :
    /\ failedAt[l] # Null => pc[l] = "done" /\ failedAt[l] <= now
    /\ pc[l] = "idle" => hitAt[l] = Null /\ from[l] = Null

(* Failures that count, with the slots taken, stay within the maximum.     *)
Fits ==
  \A u \in User :
    Cardinality(Recent(failures[u], failedAt, FailureWindow)) + inFlight[u] <= MaxFailures

(* The failure that locks a username was the last attempt under way.       *)
LockIdle == \A u \in User : IsLocked(u) => Checking(u) = {}

(* A wrong password is still counted, or no longer matters, or will not    *)
(* matter by the time the lock it led to has ended.                        *)
Remembered ==
  \A u \in User : \A l \in wrong[u] :
    \/ l \in failures[u]
    \/ failedAt[l] <= now - FailureWindow
    \/ IsLocked(u) /\ failedAt[l] + FailureWindow <= locked[u]

(* An address's recent requests are in its list, which is not too long.    *)
HitsKept ==
  \A i \in IP :
    /\ {l \in Login : from[l] = i /\ hitAt[l] # Null /\ hitAt[l] > now - IPWindow} \subseteq ipHits[i]
    /\ Cardinality(Recent(ipHits[i], hitAt, IPWindow)) <= IPMax

LimInv ==
  TypeOK /\ SlotsReturned /\ TimesOf /\ Fits /\ LockIdle /\ Remembered /\ GuessesBounded /\ HitsKept

LEMMA LimInvInit == Init => LimInv
<1>. SUFFICES ASSUME Init PROVE LimInv
  OBVIOUS
<1>1. Cardinality({}) = 0
  BY FS_EmptySet
<1>2. TypeOK
  BY DEF Init, TypeOK
<1>2a. TimesOf /\ LockIdle /\ Remembered
  BY DEF Init, TimesOf, LockIdle, Remembered, IsLocked
<1>3. \A u \in User : Checking(u) = {} /\ Recent(failures[u], failedAt, FailureWindow) = {}
                      /\ Recent(wrong[u], failedAt, FailureWindow) = {}
  BY DEF Init, Checking, Recent
<1>4. \A u \in User : inFlight[u] = 0
  BY DEF Init
<1>4a. SlotsReturned
  BY <1>1, <1>3, <1>4 DEF SlotsReturned
<1>4b. Fits /\ GuessesBounded
  <2>1. 0 + 0 <= MaxFailures
    OBVIOUS
  <2>2. \A u \in User : /\ Cardinality(Recent(failures[u], failedAt, FailureWindow)) = 0
                        /\ Cardinality(Recent(wrong[u], failedAt, FailureWindow)) = 0
                        /\ Cardinality(Checking(u)) = 0
    BY <1>1, <1>3
  <2>. QED
    BY <1>4, <2>1, <2>2 DEF Fits, GuessesBounded
<1>5. HitsKept
  <2>. SUFFICES ASSUME NEW i \in IP
                PROVE  /\ {l \in Login : from[l] = i /\ hitAt[l] # Null /\ hitAt[l] > now - IPWindow}
                            \subseteq ipHits[i]
                       /\ Cardinality(Recent(ipHits[i], hitAt, IPWindow)) <= IPMax
    BY DEF HitsKept
  <2>1. Recent(ipHits[i], hitAt, IPWindow) = {}
    BY DEF Init, Recent
  <2>2. {l \in Login : from[l] = i /\ hitAt[l] # Null /\ hitAt[l] > now - IPWindow} = {}
    BY DEF Init
  <2>3. 0 <= IPMax
    OBVIOUS
  <2>. QED
    BY <1>1, <2>1, <2>2, <2>3
<1>. QED
  BY <1>2, <1>2a, <1>4a, <1>4b, <1>5 DEF LimInv

-----------------------------------------------------------------------------
(* A sweep drops only what no longer counts. *)
LEMMA SweepDrops ==
  ASSUME TypeOK
  PROVE  /\ SweptFails \in [User -> SUBSET {l \in Login : failedAt[l] # Null}]
         /\ SweptHits \in [IP -> SUBSET {l \in Login : hitAt[l] # Null}]
         /\ SweptLocks \in [User -> Nat \cup {Null}]
         /\ \A u \in User : /\ SweptFails[u] \subseteq failures[u]
                            /\ Recent(failures[u], failedAt, FailureWindow) \subseteq SweptFails[u]
                            /\ SweptLocks[u] # locked[u] => SweptLocks[u] = Null /\ ~IsLocked(u)
         /\ \A i \in IP : /\ SweptHits[i] \subseteq ipHits[i]
                          /\ Recent(ipHits[i], hitAt, IPWindow) \subseteq SweptHits[i]
<1>1. SweptFails \in [User -> SUBSET {l \in Login : failedAt[l] # Null}]
      /\ \A u \in User : /\ SweptFails[u] \subseteq failures[u]
                         /\ Recent(failures[u], failedAt, FailureWindow) \subseteq SweptFails[u]
  BY DEF TypeOK, SweptFails, Recent
<1>2. SweptHits \in [IP -> SUBSET {l \in Login : hitAt[l] # Null}]
      /\ \A i \in IP : /\ SweptHits[i] \subseteq ipHits[i]
                       /\ Recent(ipHits[i], hitAt, IPWindow) \subseteq SweptHits[i]
  BY DEF TypeOK, SweptHits, Recent
<1>3. SweptLocks \in [User -> Nat \cup {Null}]
      /\ \A u \in User : SweptLocks[u] # locked[u] => SweptLocks[u] = Null /\ ~IsLocked(u)
  BY DEF TypeOK, SweptLocks, IsLocked
<1>. QED
  BY <1>1, <1>2, <1>3

(* A recent wrong password of a username that is not locked is counted.    *)
LEMMA RecentCounted ==
  ASSUME LimInv, NEW u \in User, ~IsLocked(u)
  PROVE  Recent(wrong[u], failedAt, FailureWindow) \subseteq Recent(failures[u], failedAt, FailureWindow)
<1>. SUFFICES ASSUME NEW l \in wrong[u], failedAt[l] > now - FailureWindow
              PROVE  l \in failures[u]
  BY DEF Recent
<1>1. failedAt[l] \in Nat /\ now \in Nat
  BY DEF LimInv, TypeOK
<1>. QED
  BY <1>1 DEF LimInv, Remembered

LEMMA CountType == calls \in Nat /\ Count => calls' \in Nat
BY DEF Count

-----------------------------------------------------------------------------
LEMMA AllowIPKeeps ==
  ASSUME LimInv, NEW l \in Login, NEW v \in User, NEW j \in IP, AllowIP(l, v, j)
  PROVE  LimInv'
<1> DEFINE hits == Recent(SweptHits[j], hitAt, IPWindow)
           ok   == Cardinality(hits) < IPMax
<1>1. /\ pc[l] = "idle"
      /\ pc' = [pc EXCEPT ![l] = IF ok THEN "admitted" ELSE "done"]
      /\ who' = [who EXCEPT ![l] = v] /\ from' = [from EXCEPT ![l] = j]
      /\ ipHits' = [SweptHits EXCEPT ![j] = IF ok THEN hits \cup {l} ELSE hits]
      /\ hitAt' = [hitAt EXCEPT ![l] = IF ok THEN now ELSE Null]
      /\ failures' = SweptFails /\ locked' = SweptLocks /\ Count
      /\ UNCHANGED <<now, inFlight, failedAt, wrong>>
  BY DEF AllowIP
<1>2. TypeOK /\ TimesOf
  BY DEF LimInv
<1>3. hits = Recent(ipHits[j], hitAt, IPWindow) /\ hits \subseteq ipHits[j]
  BY <1>2, SweepDrops DEF Recent
<1>4. hitAt[l] = Null /\ failedAt[l] = Null
  BY <1>1, <1>2 DEF TimesOf, TypeOK
<1>5. hits \subseteq {k \in Login : hitAt[k] # Null /\ k # l}
  BY <1>2, <1>3, <1>4 DEF TypeOK
<1>. HIDE DEF hits, ok
<1>6. TypeOK'
  <2>1. calls' \in Nat
    BY <1>1, <1>2, CountType DEF TypeOK
  <2>2. ipHits' \in [IP -> SUBSET {k \in Login : hitAt'[k] # Null}]
    <3>1. \A i \in IP : SweptHits[i] \subseteq {k \in Login : hitAt'[k] # Null}
      BY <1>1, <1>2, <1>4, SweepDrops DEF TypeOK
    <3>2. (IF ok THEN hits \cup {l} ELSE hits) \subseteq {k \in Login : hitAt'[k] # Null}
      BY <1>1, <1>2, <1>5 DEF TypeOK
    <3>. QED
      BY <1>1, <1>2, <3>1, <3>2, SweepDrops
  <2>3. failures' \in [User -> SUBSET {k \in Login : failedAt'[k] # Null}] /\ locked' \in [User -> Nat \cup {Null}]
    BY <1>1, <1>2, SweepDrops
  <2>. QED
    BY <1>1, <1>2, <2>1, <2>2, <2>3 DEF TypeOK
<1>7. TimesOf'
  BY <1>1, <1>2, <1>4 DEF TimesOf, TypeOK
<1>8. \A u \in User : Checking(u)' = Checking(u)
  BY <1>1, <1>2 DEF Checking, TypeOK
<1>9. SlotsReturned'
  BY <1>1, <1>8 DEF LimInv, SlotsReturned
<1>10. \A u \in User : Recent(failures[u], failedAt, FailureWindow)' = Recent(failures[u], failedAt, FailureWindow)
  BY <1>1, <1>2, SweepDrops DEF Recent
<1>11. Fits'
  BY <1>1, <1>10 DEF LimInv, Fits
<1>12. \A u \in User : IsLocked(u)' <=> IsLocked(u)
  BY <1>1, <1>2, SweepDrops DEF IsLocked
<1>13. LockIdle'
  BY <1>8, <1>12 DEF LimInv, LockIdle
<1>14. Remembered'
  <2>. SUFFICES ASSUME NEW u \in User, NEW k \in wrong[u]
                PROVE  \/ k \in failures'[u]
                       \/ failedAt[k] <= now - FailureWindow
                       \/ IsLocked(u)' /\ failedAt[k] + FailureWindow <= locked'[u]
    BY <1>1 DEF Remembered
  <2>1. failedAt[k] \in Nat /\ now \in Nat
    BY <1>2 DEF TypeOK
  <2>2. CASE k \in failures[u]
    BY <1>1, <1>2, <2>1, <2>2, SweepDrops DEF Recent
  <2>3. CASE IsLocked(u) /\ failedAt[k] + FailureWindow <= locked[u]
    BY <1>1, <1>2, <1>12, <2>3, SweepDrops DEF IsLocked
  <2>. QED
    BY <2>2, <2>3 DEF LimInv, Remembered
<1>15. GuessesBounded'
  <2>1. \A u \in User : Recent(wrong[u], failedAt, FailureWindow)' = Recent(wrong[u], failedAt, FailureWindow)
    BY <1>1 DEF Recent
  <2>. QED
    BY <1>8, <2>1 DEF LimInv, GuessesBounded
<1>16. HitsKept'
  <2>. SUFFICES ASSUME NEW i \in IP
                PROVE  /\ {k \in Login : from'[k] = i /\ hitAt'[k] # Null /\ hitAt'[k] > now - IPWindow}
                            \subseteq ipHits'[i]
                       /\ Cardinality(Recent(ipHits[i], hitAt, IPWindow)') <= IPMax
    BY <1>1 DEF HitsKept
  <2>1. HitsKept /\ now \in Nat
    BY <1>2 DEF LimInv, TypeOK
  <2>2. Cardinality(Recent(ipHits[i], hitAt, IPWindow)') <= IPMax
    <3>1. CASE i = j
      <4>1. Recent(ipHits[i], hitAt, IPWindow)' \subseteq (IF ok THEN hits \cup {l} ELSE hits)
        BY <1>1, <1>2, <3>1, SweepDrops DEF Recent
      <4>2. hits \in SUBSET Login /\ hits \cup {l} \in SUBSET Login
        BY <1>5
      <4>3. Cardinality(hits) \in Nat /\ Cardinality(hits) <= IPMax
        BY <1>3, <2>1, <4>2, PartFinite DEF HitsKept
      <4>4. CASE ok
        <5>1. Cardinality(hits \cup {l}) \in Nat /\ Cardinality(hits \cup {l}) <= Cardinality(hits) + 1
          BY <4>2, PartFinite, PartAdd
        <5>2. Recent(ipHits[i], hitAt, IPWindow)' \in SUBSET (hits \cup {l})
          BY <4>1, <4>4
        <5>3. Cardinality(Recent(ipHits[i], hitAt, IPWindow)') <= Cardinality(hits \cup {l})
          BY <4>2, <5>2, PartLess
        <5>4. Cardinality(Recent(ipHits[i], hitAt, IPWindow)') \in Nat
          BY <4>2, <5>2, PartFinite
        <5>. QED
          BY <4>3, <4>4, <5>1, <5>3, <5>4 DEF ok
      <4>5. CASE ~ok
        BY <4>1, <4>2, <4>3, <4>5, PartFinite, PartLess
      <4>. QED
        BY <4>4, <4>5
    <3>2. CASE i # j
      <4>1. Recent(ipHits[i], hitAt, IPWindow)' \subseteq Recent(ipHits[i], hitAt, IPWindow)
        BY <1>1, <1>2, <1>4, <3>2, SweepDrops DEF Recent, TypeOK
      <4>2. Recent(ipHits[i], hitAt, IPWindow) \in SUBSET Login
        BY <1>2 DEF Recent, TypeOK
      <4>. QED
        BY <2>1, <4>1, <4>2, PartFinite, PartLess DEF HitsKept
    <3>. QED
      BY <3>1, <3>2
  <2>3. ASSUME NEW k \in Login, from'[k] = i, hitAt'[k] # Null, hitAt'[k] > now - IPWindow
        PROVE  k \in ipHits'[i]
    <3>1. CASE k = l
      BY <1>1, <1>2, <2>3, <3>1, SweepDrops DEF TypeOK
    <3>2. CASE k # l
      <4>1. from[k] = i /\ hitAt[k] # Null /\ hitAt[k] > now - IPWindow
        BY <1>1, <1>2, <2>3, <3>2 DEF TypeOK
      <4>2. k \in Recent(ipHits[i], hitAt, IPWindow)
        BY <2>1, <4>1 DEF HitsKept, Recent
      <4>. QED
        BY <1>1, <1>2, <1>3, <4>2, SweepDrops
    <3>. QED
      BY <3>1, <3>2
  <2>. QED
    BY <2>2, <2>3
<1>. QED
  BY <1>6, <1>7, <1>9, <1>11, <1>13, <1>14, <1>15, <1>16 DEF LimInv

-----------------------------------------------------------------------------
LEMMA BeginAttemptKeeps ==
  ASSUME LimInv, NEW l \in Login, BeginAttempt(l)
  PROVE  LimInv'
<1> DEFINE ok == ~IsLocked(who[l]) /\ SlotFree(who[l])
<1>1. /\ pc[l] = "admitted"
      /\ pc' = [pc EXCEPT ![l] = IF ok THEN "checking" ELSE "done"]
      /\ inFlight' = [inFlight EXCEPT ![who[l]] = IF ok THEN @ + 1 ELSE @]
      /\ locked' = [SweptLocks EXCEPT ![who[l]] = IF IsLocked(who[l]) THEN @ ELSE Null]
      /\ failures' = [SweptFails EXCEPT ![who[l]] = IF IsLocked(who[l]) THEN @
                                                    ELSE Recent(@, failedAt, FailureWindow)]
      /\ ipHits' = SweptHits /\ Count
      /\ UNCHANGED <<now, who, from, hitAt, failedAt, wrong>>
  BY DEF BeginAttempt
<1>2. TypeOK /\ TimesOf /\ who[l] \in User /\ from[l] \in IP
  BY <1>1 DEF LimInv, TypeOK
<1>3. /\ failures' \in [User -> SUBSET {k \in Login : failedAt[k] # Null}]
      /\ \A u \in User : /\ failures'[u] \subseteq failures[u]
                         /\ Recent(failures[u], failedAt, FailureWindow) \subseteq failures'[u]
  <2> DEFINE kept == IF IsLocked(who[l]) THEN SweptFails[who[l]]
                     ELSE Recent(SweptFails[who[l]], failedAt, FailureWindow)
  <2>1. /\ kept \subseteq failures[who[l]]
        /\ kept \in SUBSET {k \in Login : failedAt[k] # Null}
        /\ Recent(failures[who[l]], failedAt, FailureWindow) \subseteq kept
    BY <1>2, SweepDrops DEF Recent
  <2>2. failures' = [SweptFails EXCEPT ![who[l]] = kept]
    BY <1>1, <1>2, SweepDrops
  <2>. HIDE DEF kept
  <2>. QED
    BY <1>2, <2>1, <2>2, SweepDrops
<1>4. /\ locked' \in [User -> Nat \cup {Null}]
      /\ \A u \in User : locked'[u] # locked[u] => locked'[u] = Null /\ ~IsLocked(u)
  BY <1>1, <1>2, SweepDrops
<1>5. \A u \in User : IsLocked(u)' <=> IsLocked(u)
  BY <1>1, <1>4 DEF IsLocked
<1>6. ok \in BOOLEAN
  BY DEF SlotFree
<1>. HIDE DEF ok
<1>7. \A u \in User : Checking(u)' = IF ok /\ u = who[l] THEN Checking(u) \cup {l} ELSE Checking(u)
  BY <1>1, <1>2 DEF Checking, TypeOK
<1>8. \A u \in User : Checking(u) \in SUBSET Login /\ Cardinality(Checking(u)) \in Nat /\ l \notin Checking(u)
  BY <1>1, PartFinite DEF Checking
<1>9. \A u \in User : Cardinality(Checking(u)') =
                       IF ok /\ u = who[l] THEN Cardinality(Checking(u)) + 1 ELSE Cardinality(Checking(u))
  BY <1>7, <1>8, PartAdd
<1>10. TypeOK'
  <2>1. calls' \in Nat
    BY <1>1, <1>2, CountType DEF TypeOK
  <2>2. ipHits' \in [IP -> SUBSET {k \in Login : hitAt'[k] # Null}]
    BY <1>1, <1>2, SweepDrops
  <2>3. inFlight' \in [User -> Nat]
    BY <1>1, <1>2 DEF TypeOK
  <2>4. pc' \in [Login -> {"idle", "admitted", "checking", "done"}]
    BY <1>1, <1>2 DEF TypeOK
  <2>5. \A k \in Login : pc'[k] \in {"admitted", "checking"} => who'[k] \in User /\ from'[k] \in IP
    BY <1>1, <1>2 DEF TypeOK
  <2>. QED
    BY <1>1, <1>2, <1>3, <1>4, <2>1, <2>2, <2>3, <2>4, <2>5 DEF TypeOK
<1>11. TimesOf'
  BY <1>1, <1>2 DEF TimesOf, TypeOK
<1>12. SlotsReturned'
  BY <1>1, <1>2, <1>9 DEF LimInv, SlotsReturned, TypeOK
<1>13. \A u \in User : Recent(failures[u], failedAt, FailureWindow)' = Recent(failures[u], failedAt, FailureWindow)
  BY <1>1, <1>2, <1>3 DEF Recent
<1>14. \A u \in User : Cardinality(Recent(failures[u], failedAt, FailureWindow)) \in Nat
  <2>1. \A u \in User : Recent(failures[u], failedAt, FailureWindow) \in SUBSET Login
    BY <1>2 DEF TypeOK, Recent
  <2>. QED
    BY <2>1, PartFinite
<1>15. ok => /\ ~IsLocked(who[l])
             /\ Cardinality(Recent(failures[who[l]], failedAt, FailureWindow)) + inFlight[who[l]] < MaxFailures
  BY DEF ok, SlotFree
<1>16. Fits'
  <2>. SUFFICES ASSUME NEW u \in User
                PROVE  Cardinality(Recent(failures[u], failedAt, FailureWindow)) + inFlight'[u] <= MaxFailures
    BY <1>13 DEF Fits
  <2>1. inFlight[u] \in Nat
    BY <1>2 DEF TypeOK
  <2>2. CASE ok /\ u = who[l]
    <3>1. inFlight'[u] = inFlight[u] + 1
      BY <1>1, <1>2, <2>2 DEF TypeOK
    <3>. QED
      BY <1>14, <1>15, <2>1, <2>2, <3>1
  <2>3. CASE ~(ok /\ u = who[l])
    <3>1. inFlight'[u] = inFlight[u]
      BY <1>1, <1>2, <2>3 DEF TypeOK
    <3>. QED
      BY <3>1 DEF LimInv, Fits
  <2>. QED
    BY <2>2, <2>3
<1>17. LockIdle'
  BY <1>5, <1>7, <1>15 DEF LimInv, LockIdle
<1>18. Remembered'
  <2>. SUFFICES ASSUME NEW u \in User, NEW k \in wrong[u]
                PROVE  \/ k \in failures'[u]
                       \/ failedAt[k] <= now - FailureWindow
                       \/ IsLocked(u)' /\ failedAt[k] + FailureWindow <= locked'[u]
    BY <1>1 DEF Remembered
  <2>1. failedAt[k] \in Nat /\ now \in Nat
    BY <1>2 DEF TypeOK
  <2>2. CASE k \in failures[u]
    BY <1>3, <2>1, <2>2 DEF Recent
  <2>3. CASE IsLocked(u) /\ failedAt[k] + FailureWindow <= locked[u]
    BY <1>4, <1>5, <2>3
  <2>. QED
    BY <2>2, <2>3 DEF LimInv, Remembered
<1>19. GuessesBounded'
  <2>. SUFFICES ASSUME NEW u \in User
                PROVE  Cardinality(Recent(wrong[u], failedAt, FailureWindow)) + Cardinality(Checking(u)')
                         <= MaxFailures
    BY <1>1 DEF GuessesBounded, Recent
  <2>1. Cardinality(Recent(wrong[u], failedAt, FailureWindow)) + Cardinality(Checking(u)) <= MaxFailures
    BY DEF LimInv, GuessesBounded
  <2>2. CASE ok /\ u = who[l]
    <3>1. Recent(wrong[u], failedAt, FailureWindow) \subseteq Recent(failures[u], failedAt, FailureWindow)
      BY <1>15, <2>2, RecentCounted
    <3>2. Recent(failures[u], failedAt, FailureWindow) \in SUBSET Login
      BY <1>2 DEF TypeOK, Recent
    <3>3. /\ Cardinality(Recent(wrong[u], failedAt, FailureWindow)) \in Nat
          /\ Cardinality(Recent(wrong[u], failedAt, FailureWindow))
               <= Cardinality(Recent(failures[u], failedAt, FailureWindow))
      BY <3>1, <3>2, PartFinite, PartLess
    <3>4. inFlight[u] = Cardinality(Checking(u))
      BY DEF LimInv, SlotsReturned
    <3>. QED
      BY <1>8, <1>9, <1>14, <1>15, <2>2, <3>3, <3>4
  <2>3. CASE ~(ok /\ u = who[l])
    BY <1>9, <2>1, <2>3
  <2>. QED
    BY <2>2, <2>3
<1>20. HitsKept'
  <2>. SUFFICES ASSUME NEW i \in IP
                PROVE  /\ {k \in Login : from[k] = i /\ hitAt[k] # Null /\ hitAt[k] > now - IPWindow}
                            \subseteq ipHits'[i]
                       /\ Cardinality(Recent(ipHits[i], hitAt, IPWindow)') <= IPMax
    BY <1>1 DEF HitsKept
  <2>1. Recent(ipHits[i], hitAt, IPWindow)' = Recent(ipHits[i], hitAt, IPWindow)
    BY <1>1, <1>2, SweepDrops DEF Recent
  <2>2. \A k \in ipHits[i] : hitAt[k] > now - IPWindow => k \in ipHits'[i]
    BY <1>1, <1>2, SweepDrops DEF Recent
  <2>. QED
    BY <2>1, <2>2 DEF LimInv, HitsKept
<1>. QED
  BY <1>10, <1>11, <1>12, <1>16, <1>17, <1>18, <1>19, <1>20 DEF LimInv

-----------------------------------------------------------------------------
(* What every way of giving a slot back has in common. *)
LEMMA GiveBackKeeps ==
  ASSUME LimInv, NEW l \in Login, GiveBack(l)
  PROVE  /\ who[l] \in User /\ ~IsLocked(who[l]) /\ failedAt[l] = Null
         /\ inFlight' \in [User -> Nat] /\ pc' \in [Login -> {"idle", "admitted", "checking", "done"}]
         /\ inFlight[who[l]] \in Nat /\ inFlight[who[l]] >= 1
         /\ \A u \in User : inFlight'[u] = IF u = who[l] THEN inFlight[u] - 1 ELSE inFlight[u]
         /\ \A u \in User : Checking(u)' = Checking(u) \ {l}
         /\ \A u \in User : /\ Cardinality(Checking(u)) = inFlight[u]
                            /\ Cardinality(Checking(u)') = inFlight'[u]
         /\ HitsKept'
<1>1. /\ pc[l] = "checking" /\ pc' = [pc EXCEPT ![l] = "done"]
      /\ inFlight' = [inFlight EXCEPT ![who[l]] = IF @ = 0 THEN 0 ELSE @ - 1]
      /\ UNCHANGED <<now, ipHits, calls, who, from, hitAt>>
  BY DEF GiveBack
<1>2. TypeOK /\ TimesOf /\ SlotsReturned /\ LockIdle /\ who[l] \in User
  BY <1>1 DEF LimInv, TypeOK
<1>3. l \in Checking(who[l]) /\ \A u \in User : Checking(u) \in SUBSET Login /\ (u # who[l] => l \notin Checking(u))
  BY <1>1 DEF Checking
<1>4. \A u \in User : Checking(u)' = Checking(u) \ {l}
  BY <1>1, <1>2 DEF Checking, TypeOK
<1>5. ~IsLocked(who[l]) /\ failedAt[l] = Null
  BY <1>1, <1>2, <1>3 DEF LockIdle, TimesOf
<1>6. \A u \in User : Cardinality(Checking(u)) = inFlight[u] /\ inFlight[u] \in Nat
  BY <1>2 DEF SlotsReturned, TypeOK
<1>. PICK v \in User : v = who[l]
  BY <1>2
<1>7. Cardinality(Checking(v)') = inFlight[v] - 1 /\ Cardinality(Checking(v)') \in Nat
  <2>1. Checking(v)' = Checking(v) \ {l} /\ Checking(v) \ {l} \in SUBSET Login
    BY <1>3, <1>4
  <2>2. l \in Checking(v) /\ Checking(v) \in SUBSET Login
    BY <1>3
  <2>3. Cardinality(Checking(v) \ {l}) = Cardinality(Checking(v)) - 1
    BY <2>2, PartRemove
  <2>4. Cardinality(Checking(v) \ {l}) \in Nat
    BY <2>1, PartFinite
  <2>. QED
    BY <1>6, <2>1, <2>3, <2>4
<1>8. inFlight[who[l]] >= 1 /\ inFlight[who[l]] - 1 \in Nat
  BY <1>6, <1>7
<1>9. \A u \in User : inFlight'[u] = IF u = who[l] THEN inFlight[u] - 1 ELSE inFlight[u]
  BY <1>1, <1>2, <1>8 DEF TypeOK
<1>10. \A u \in User : Cardinality(Checking(u)') = inFlight'[u]
  <2>. SUFFICES ASSUME NEW u \in User
                PROVE  Cardinality(Checking(u)') = inFlight'[u]
    OBVIOUS
  <2>1. CASE u = who[l]
    BY <1>7, <1>9, <2>1
  <2>2. CASE u # who[l]
    <3>1. Checking(u)' = Checking(u)
      BY <1>3, <1>4, <2>2
    <3>. QED
      BY <1>6, <1>9, <2>2, <3>1
  <2>. QED
    BY <2>1, <2>2
<1>11. inFlight' \in [User -> Nat] /\ pc' \in [Login -> {"idle", "admitted", "checking", "done"}]
  BY <1>1, <1>2, <1>8 DEF TypeOK
<1>12. HitsKept'
  BY <1>1 DEF LimInv, HitsKept, Recent
<1>. QED
  BY <1>2, <1>4, <1>5, <1>6, <1>8, <1>9, <1>10, <1>11, <1>12

LEMMA ReleaseKeeps ==
  ASSUME LimInv, NEW l \in Login, Release(l)
  PROVE  LimInv'
<1>1. /\ GiveBack(l) /\ UNCHANGED <<failures, locked, failedAt, wrong, now, ipHits, calls, who, from, hitAt>>
      /\ pc[l] = "checking" /\ pc' = [pc EXCEPT ![l] = "done"]
  BY DEF Release, GiveBack
<1>2. TypeOK' /\ TimesOf'
  BY <1>1, GiveBackKeeps DEF LimInv, TypeOK, TimesOf
<1>3. SlotsReturned' /\ HitsKept'
  BY <1>1, GiveBackKeeps DEF SlotsReturned
<1>4. \A u \in User : inFlight'[u] <= inFlight[u] /\ inFlight'[u] \in Nat /\ inFlight[u] \in Nat
  BY <1>1, GiveBackKeeps DEF LimInv, TypeOK
<1>5. /\ \A u \in User : Recent(failures[u], failedAt, FailureWindow)' = Recent(failures[u], failedAt, FailureWindow)
      /\ \A u \in User : Recent(wrong[u], failedAt, FailureWindow)' = Recent(wrong[u], failedAt, FailureWindow)
      /\ \A u \in User : IsLocked(u)' <=> IsLocked(u)
  BY <1>1 DEF Recent, IsLocked
<1>6. /\ \A u \in User : Cardinality(Recent(failures[u], failedAt, FailureWindow)) \in Nat
      /\ \A u \in User : Cardinality(Recent(wrong[u], failedAt, FailureWindow)) \in Nat
  <2>1. \A u \in User : /\ Recent(failures[u], failedAt, FailureWindow) \in SUBSET Login
                        /\ Recent(wrong[u], failedAt, FailureWindow) \in SUBSET Login
    BY DEF LimInv, TypeOK, Recent
  <2>. QED
    BY <2>1, PartFinite
<1>7. Fits'
  BY <1>4, <1>5, <1>6 DEF LimInv, Fits
<1>8. GuessesBounded'
  <2>1. \A u \in User : Cardinality(Checking(u)) = inFlight[u] /\ Cardinality(Checking(u)') = inFlight'[u]
    BY <1>1, GiveBackKeeps
  <2>. QED
    BY <1>4, <1>5, <1>6, <2>1 DEF LimInv, GuessesBounded
<1>9. LockIdle'
  BY <1>1, <1>5, GiveBackKeeps DEF LimInv, LockIdle
<1>10. Remembered'
  BY <1>1, <1>5 DEF LimInv, Remembered
<1>. QED
  BY <1>2, <1>3, <1>7, <1>8, <1>9, <1>10 DEF LimInv

LEMMA SuccessKeeps ==
  ASSUME LimInv, NEW l \in Login, Success(l)
  PROVE  LimInv'
<1>1. /\ GiveBack(l) /\ UNCHANGED <<failedAt, now, ipHits, calls, who, from, hitAt>>
      /\ pc[l] = "checking" /\ pc' = [pc EXCEPT ![l] = "done"]
      /\ failures' = [failures EXCEPT ![who[l]] = {}]
      /\ locked' = [locked EXCEPT ![who[l]] = Null]
      /\ wrong' = [wrong EXCEPT ![who[l]] = {}]
  BY DEF Success, GiveBack
<1>2. who[l] \in User /\ TypeOK
  BY <1>1, GiveBackKeeps DEF LimInv
<1>3. TypeOK' /\ TimesOf'
  <2>1. /\ failures' \in [User -> SUBSET {k \in Login : failedAt[k] # Null}]
        /\ wrong' \in [User -> SUBSET {k \in Login : failedAt[k] # Null}]
        /\ locked' \in [User -> Nat \cup {Null}]
    BY <1>1, <1>2 DEF TypeOK
  <2>. QED
    BY <1>1, <2>1, GiveBackKeeps DEF LimInv, TypeOK, TimesOf
<1>4. SlotsReturned' /\ HitsKept'
  BY <1>1, GiveBackKeeps DEF SlotsReturned
<1>5. \A u \in User : inFlight'[u] <= inFlight[u] /\ inFlight'[u] \in Nat /\ inFlight[u] \in Nat
  BY <1>1, GiveBackKeeps DEF LimInv, TypeOK
<1>6. \A u \in User : /\ failures'[u] \subseteq failures[u] /\ wrong'[u] \subseteq wrong[u]
                      /\ u # who[l] => failures'[u] = failures[u] /\ locked'[u] = locked[u]
  BY <1>1, <1>2 DEF TypeOK
<1>6a. wrong'[who[l]] = {} /\ locked'[who[l]] = Null
  BY <1>1, <1>2 DEF TypeOK
<1>7. \A u \in User : /\ Cardinality(Recent(failures[u], failedAt, FailureWindow)') \in Nat
                      /\ Cardinality(Recent(failures[u], failedAt, FailureWindow)')
                           <= Cardinality(Recent(failures[u], failedAt, FailureWindow))
                      /\ Cardinality(Recent(failures[u], failedAt, FailureWindow)) \in Nat
  <2>1. \A u \in User : /\ Recent(failures[u], failedAt, FailureWindow) \in SUBSET Login
                        /\ Recent(failures[u], failedAt, FailureWindow)'
                             \in SUBSET Recent(failures[u], failedAt, FailureWindow)
    BY <1>1, <1>2, <1>6 DEF TypeOK, Recent
  <2>. QED
    BY <2>1, PartFinite, PartLess
<1>8. \A u \in User : /\ Cardinality(Recent(wrong[u], failedAt, FailureWindow)') \in Nat
                      /\ Cardinality(Recent(wrong[u], failedAt, FailureWindow)')
                           <= Cardinality(Recent(wrong[u], failedAt, FailureWindow))
                      /\ Cardinality(Recent(wrong[u], failedAt, FailureWindow)) \in Nat
  <2>1. \A u \in User : /\ Recent(wrong[u], failedAt, FailureWindow) \in SUBSET Login
                        /\ Recent(wrong[u], failedAt, FailureWindow)'
                             \in SUBSET Recent(wrong[u], failedAt, FailureWindow)
    BY <1>1, <1>2, <1>6 DEF TypeOK, Recent
  <2>. QED
    BY <2>1, PartFinite, PartLess
<1>9. Fits'
  BY <1>5, <1>7 DEF LimInv, Fits
<1>10. GuessesBounded'
  <2>1. \A u \in User : Cardinality(Checking(u)) = inFlight[u] /\ Cardinality(Checking(u)') = inFlight'[u]
    BY <1>1, GiveBackKeeps
  <2>. QED
    BY <1>5, <1>8, <2>1 DEF LimInv, GuessesBounded
<1>11. LockIdle'
  <2>. SUFFICES ASSUME NEW u \in User, IsLocked(u)'
                PROVE  Checking(u)' = {}
    BY DEF LockIdle
  <2>1. u # who[l]
    BY <1>6a DEF IsLocked
  <2>2. locked'[u] = locked[u]
    BY <1>6, <2>1
  <2>3. IsLocked(u)
    BY <1>1, <2>2 DEF IsLocked
  <2>. QED
    BY <1>1, <2>3, GiveBackKeeps DEF LimInv, LockIdle
<1>12. Remembered'
  <2>. SUFFICES ASSUME NEW u \in User, NEW k \in wrong'[u]
                PROVE  \/ k \in failures'[u]
                       \/ failedAt[k] <= now - FailureWindow
                       \/ IsLocked(u)' /\ failedAt[k] + FailureWindow <= locked'[u]
    BY <1>1 DEF Remembered
  <2>1. u # who[l] /\ k \in wrong[u]
    BY <1>6, <1>6a
  <2>2. failures'[u] = failures[u] /\ locked'[u] = locked[u] /\ (IsLocked(u)' <=> IsLocked(u))
    BY <1>1, <1>6, <2>1 DEF IsLocked
  <2>. QED
    BY <2>1, <2>2 DEF LimInv, Remembered
<1>. QED
  BY <1>3, <1>4, <1>9, <1>10, <1>11, <1>12 DEF LimInv

LEMMA FailureKeeps ==
  ASSUME LimInv, NEW l \in Login, Failure(l)
  PROVE  LimInv'
<1> DEFINE R    == Recent(failures[who[l]], failedAt, FailureWindow)
           fail == R \cup {l}
           lock == Cardinality(fail) >= MaxFailures
<1>1. /\ GiveBack(l) /\ UNCHANGED <<now, ipHits, calls, who, from, hitAt>>
      /\ pc[l] = "checking" /\ pc' = [pc EXCEPT ![l] = "done"]
      /\ failedAt' = [failedAt EXCEPT ![l] = now]
      /\ failures' = [failures EXCEPT ![who[l]] = IF lock THEN {} ELSE fail]
      /\ locked' = [locked EXCEPT ![who[l]] = IF lock THEN now + LockDuration ELSE @]
      /\ wrong' = [wrong EXCEPT ![who[l]] = @ \cup {l}]
  BY DEF Failure, GiveBack
<1>2. who[l] \in User /\ ~IsLocked(who[l]) /\ failedAt[l] = Null /\ inFlight[who[l]] >= 1
  BY <1>1, GiveBackKeeps
<1>3. TypeOK /\ TimesOf /\ Fits /\ Remembered /\ now \in Nat /\ R \in SUBSET failures[who[l]]
  BY DEF LimInv, TypeOK, Recent
<1>4. R \in SUBSET Login /\ l \notin R
  BY <1>2, <1>3 DEF TypeOK
<1>5. /\ Cardinality(R) \in Nat /\ Cardinality(fail) = Cardinality(R) + 1
      /\ Cardinality(R) + inFlight[who[l]] <= MaxFailures
  BY <1>2, <1>3, <1>4, PartFinite, PartAdd DEF Fits
<1>. /\ R \in SUBSET Login /\ fail \in SUBSET Login /\ lock \in BOOLEAN
     /\ \A k : k \in fail <=> k \in R \/ k = l
  BY <1>4
<1>5a. \A k \in failures[who[l]] : failedAt[k] > now - FailureWindow => k \in R
  BY DEF Recent
<1>5b. lock => Cardinality(fail) >= MaxFailures
  OBVIOUS
<1>. HIDE DEF R, fail, lock
<1>6. \A u \in User : u # who[l] => /\ failures'[u] = failures[u] /\ locked'[u] = locked[u]
                                    /\ wrong'[u] = wrong[u]
  BY <1>1, <1>3 DEF TypeOK
<1>7. /\ failures'[who[l]] = IF lock THEN {} ELSE fail
      /\ locked'[who[l]] = IF lock THEN now + LockDuration ELSE locked[who[l]]
      /\ wrong'[who[l]] = wrong[who[l]] \cup {l}
  BY <1>1, <1>2, <1>3 DEF TypeOK
<1>8. failedAt'[l] = now /\ \A k \in Login : k # l => failedAt'[k] = failedAt[k]
  BY <1>1, <1>3 DEF TypeOK
<1>9. \A u \in User : IsLocked(u)' => IF u = who[l] THEN lock ELSE IsLocked(u)
  BY <1>1, <1>2, <1>6, <1>7 DEF IsLocked
<1>10. \A u \in User : /\ l \notin failures[u] /\ failures[u] \in SUBSET Login
                       /\ l \notin wrong[u] /\ wrong[u] \in SUBSET Login
  BY <1>2, <1>3 DEF TypeOK
<1>11. TypeOK' /\ TimesOf'
  <2>1. failedAt' \in [Login -> Nat \cup {Null}] /\ locked' \in [User -> Nat \cup {Null}]
    BY <1>1, <1>2, <1>3 DEF TypeOK
  <2>2. {k \in Login : failedAt[k] # Null} \cup {l} = {k \in Login : failedAt'[k] # Null}
    BY <1>3, <1>8
  <2>3. fail \in SUBSET ({k \in Login : failedAt[k] # Null} \cup {l})
    <3>1. R \in SUBSET {k \in Login : failedAt[k] # Null}
      BY <1>2, <1>3 DEF TypeOK
    <3>. QED
      BY <3>1 DEF fail
  <2>4. failures' \in [User -> SUBSET {k \in Login : failedAt'[k] # Null}]
    <3>1. failures' \in [User -> SUBSET ({k \in Login : failedAt[k] # Null} \cup {l})]
      BY <1>1, <1>3, <2>3 DEF TypeOK
    <3>. QED
      BY <2>2, <3>1
  <2>5. wrong' \in [User -> SUBSET {k \in Login : failedAt'[k] # Null}]
    <3>1. wrong' \in [User -> SUBSET ({k \in Login : failedAt[k] # Null} \cup {l})]
      BY <1>1, <1>3 DEF TypeOK
    <3>. QED
      BY <2>2, <3>1
  <2>6. TypeOK'
    BY <1>1, <1>3, <2>1, <2>4, <2>5, GiveBackKeeps DEF TypeOK
  <2>7. TimesOf'
    BY <1>1, <1>3, <1>8 DEF TimesOf, TypeOK
  <2>. QED
    BY <2>6, <2>7
<1>12. SlotsReturned' /\ HitsKept'
  BY <1>1, GiveBackKeeps DEF SlotsReturned
<1>13. \A u \in User : u # who[l] =>
         /\ Recent(failures[u], failedAt, FailureWindow)' = Recent(failures[u], failedAt, FailureWindow)
         /\ Recent(wrong[u], failedAt, FailureWindow)' = Recent(wrong[u], failedAt, FailureWindow)
  BY <1>1, <1>6, <1>8, <1>10 DEF Recent
<1>14. \A u \in User : /\ u # who[l] => inFlight'[u] = inFlight[u] /\ Checking(u)' = Checking(u)
                       /\ inFlight[u] \in Nat /\ Cardinality(Checking(u)) = inFlight[u]
                       /\ Cardinality(Checking(u)') = inFlight'[u]
  <2>1. \A u \in User : u # who[l] => l \notin Checking(u)
    BY DEF Checking
  <2>2. \A u \in User : inFlight[u] \in Nat
    BY <1>3 DEF TypeOK
  <2>3. \A u \in User : u # who[l] => inFlight'[u] = inFlight[u] /\ Checking(u)' = Checking(u)
    <3>1. \A u \in User : Checking(u)' = Checking(u) \ {l}
      BY <1>1, GiveBackKeeps
    <3>2. \A u \in User : u # who[l] => inFlight'[u] = inFlight[u]
      BY <1>1, GiveBackKeeps
    <3>3. \A u \in User : l \notin Checking(u) => Checking(u) \ {l} = Checking(u)
      OBVIOUS
    <3>. HIDE DEF Checking
    <3>. QED
      BY <2>1, <3>1, <3>2, <3>3
  <2>. QED
    BY <1>1, <2>2, <2>3, GiveBackKeeps
<1>15. inFlight'[who[l]] = inFlight[who[l]] - 1
  BY <1>1, <1>2, GiveBackKeeps
<1>16. Fits'
  <2>. SUFFICES ASSUME NEW u \in User
                PROVE  Cardinality(Recent(failures[u], failedAt, FailureWindow)') + inFlight'[u] <= MaxFailures
    BY DEF Fits
  <2>1. CASE u = who[l]
    <3>1. Recent(failures[u], failedAt, FailureWindow)' \in SUBSET fail
      BY <1>7, <2>1 DEF Recent
    <3>2. /\ Cardinality(Recent(failures[u], failedAt, FailureWindow)') \in Nat
          /\ Cardinality(Recent(failures[u], failedAt, FailureWindow)') <= Cardinality(R) + 1
      BY <1>5, <3>1, PartFinite, PartLess
    <3>. QED
      BY <1>5, <1>14, <1>15, <2>1, <3>2
  <2>2. CASE u # who[l]
    BY <1>3, <1>13, <1>14, <2>2 DEF Fits
  <2>. QED
    BY <2>1, <2>2
<1>17. LockIdle'
  <2>. SUFFICES ASSUME NEW u \in User, IsLocked(u)'
                PROVE  Checking(u)' = {}
    BY DEF LockIdle
  <2>1. CASE u = who[l]
    <3>1. inFlight'[u] = 0
      BY <1>2, <1>5, <1>5b, <1>9, <1>14, <1>15, <2>1
    <3>2. Checking(u)' \in SUBSET Login
      BY DEF Checking
    <3>. QED
      BY <1>14, <3>1, <3>2, PartFinite, FS_EmptySet
  <2>2. CASE u # who[l]
    BY <1>9, <1>14, <2>2 DEF LimInv, LockIdle
  <2>. QED
    BY <2>1, <2>2
<1>18. Remembered'
  <2>. SUFFICES ASSUME NEW u \in User, NEW k \in wrong'[u]
                PROVE  \/ k \in failures'[u]
                       \/ failedAt'[k] <= now - FailureWindow
                       \/ IsLocked(u)' /\ failedAt'[k] + FailureWindow <= locked'[u]
    BY <1>1 DEF Remembered
  <2>1. CASE u # who[l]
    <3>1. k \in wrong[u] /\ k # l /\ k \in Login
      BY <1>6, <1>10, <2>1
    <3>2. failedAt'[k] = failedAt[k] /\ failures'[u] = failures[u] /\ locked'[u] = locked[u] /\ now' = now
      BY <1>1, <1>6, <1>8, <2>1, <3>1
    <3>3. IsLocked(u)' <=> IsLocked(u)
      BY <3>2 DEF IsLocked
    <3>. QED
      BY <1>3, <3>1, <3>2, <3>3 DEF Remembered
  <2>2. CASE u = who[l]
    <3>1. lock => locked'[u] = now + LockDuration /\ IsLocked(u)'
      BY <1>1, <1>3, <1>7, <2>2 DEF IsLocked
    <3>2. CASE k = l
      BY <1>3, <1>7, <1>8, <2>2, <3>1, <3>2
    <3>3. CASE k # l
      <4>1. k \in wrong[u] /\ k \in Login /\ failedAt'[k] = failedAt[k]
        BY <1>7, <1>8, <1>10, <2>2, <3>3
      <4>2. failedAt[k] \in Nat /\ failedAt[k] <= now
        BY <1>3, <4>1 DEF TypeOK, TimesOf
      <4>3. failedAt[k] <= now - FailureWindow \/ k \in R
        BY <1>2, <1>3, <1>5a, <2>2, <4>1, <4>2 DEF Remembered
      <4>. QED
        BY <1>3, <1>7, <2>2, <3>1, <4>1, <4>2, <4>3
    <3>. QED
      BY <3>2, <3>3
  <2>. QED
    BY <2>1, <2>2
<1>19. GuessesBounded'
  <2>. SUFFICES ASSUME NEW u \in User
                PROVE  Cardinality(Recent(wrong[u], failedAt, FailureWindow)') + Cardinality(Checking(u)')
                         <= MaxFailures
    BY DEF GuessesBounded
  <2>1. Cardinality(Recent(wrong[u], failedAt, FailureWindow)) + Cardinality(Checking(u)) <= MaxFailures
    BY DEF LimInv, GuessesBounded
  <2>2. CASE u = who[l]
    <3>1. Recent(wrong[u], failedAt, FailureWindow) \in SUBSET Login
      BY <1>10 DEF Recent
    <3>2. Recent(wrong[u], failedAt, FailureWindow)' \in SUBSET (Recent(wrong[u], failedAt, FailureWindow) \cup {l})
      BY <1>1, <1>7, <1>8, <1>10, <2>2 DEF Recent
    <3>3. Recent(wrong[u], failedAt, FailureWindow) \cup {l} \in SUBSET Login
      BY <3>1
    <3>4. /\ Cardinality(Recent(wrong[u], failedAt, FailureWindow)') \in Nat
          /\ Cardinality(Recent(wrong[u], failedAt, FailureWindow)) \in Nat
          /\ Cardinality(Recent(wrong[u], failedAt, FailureWindow) \cup {l}) \in Nat
      BY <3>1, <3>2, <3>3, PartFinite
    <3>5. Cardinality(Recent(wrong[u], failedAt, FailureWindow)')
            <= Cardinality(Recent(wrong[u], failedAt, FailureWindow) \cup {l})
      BY <3>2, <3>3, PartLess
    <3>6. Cardinality(Recent(wrong[u], failedAt, FailureWindow) \cup {l})
            <= Cardinality(Recent(wrong[u], failedAt, FailureWindow)) + 1
      BY <3>1, PartAdd
    <3>. QED
      BY <1>14, <1>15, <2>1, <2>2, <3>4, <3>5, <3>6
  <2>3. CASE u # who[l]
    BY <1>13, <1>14, <2>1, <2>3
  <2>. QED
    BY <2>2, <2>3
<1>. QED
  BY <1>11, <1>12, <1>16, <1>17, <1>18, <1>19 DEF LimInv

-----------------------------------------------------------------------------
(* As time passes things stop counting, and never start to. *)
LEMMA TickKeeps ==
  ASSUME LimInv, Tick
  PROVE  LimInv'
<1>1. /\ now \in Nat /\ now' = now + 1
      /\ UNCHANGED <<ipHits, failures, locked, inFlight, calls, pc, who, from, hitAt, failedAt, wrong>>
  BY DEF Tick, limiter, LimInv, TypeOK
<1>2. TypeOK
  BY DEF LimInv
<1>3. TypeOK' /\ TimesOf'
  BY <1>1, <1>2 DEF LimInv, TypeOK, TimesOf
<1>4. \A u \in User : Checking(u)' = Checking(u) /\ (IsLocked(u)' => IsLocked(u))
  BY <1>1, <1>2 DEF Checking, IsLocked, TypeOK
<1>5. SlotsReturned' /\ LockIdle'
  BY <1>1, <1>4 DEF LimInv, SlotsReturned, LockIdle
<1>6. \A u \in User :
        /\ Recent(failures[u], failedAt, FailureWindow) \in SUBSET Login
        /\ Recent(failures[u], failedAt, FailureWindow)' \in SUBSET Recent(failures[u], failedAt, FailureWindow)
        /\ Recent(wrong[u], failedAt, FailureWindow) \in SUBSET Login
        /\ Recent(wrong[u], failedAt, FailureWindow)' \in SUBSET Recent(wrong[u], failedAt, FailureWindow)
  BY <1>1, <1>2 DEF Recent, TypeOK
<1>7. \A u \in User :
        /\ Cardinality(Recent(failures[u], failedAt, FailureWindow)) \in Nat
        /\ Cardinality(Recent(failures[u], failedAt, FailureWindow)') \in Nat
        /\ Cardinality(Recent(failures[u], failedAt, FailureWindow)')
             <= Cardinality(Recent(failures[u], failedAt, FailureWindow))
        /\ Cardinality(Recent(wrong[u], failedAt, FailureWindow)) \in Nat
        /\ Cardinality(Recent(wrong[u], failedAt, FailureWindow)') \in Nat
        /\ Cardinality(Recent(wrong[u], failedAt, FailureWindow)')
             <= Cardinality(Recent(wrong[u], failedAt, FailureWindow))
  BY <1>6, PartFinite, PartLess
<1>8. Fits' /\ GuessesBounded'
  <2>1. \A u \in User : inFlight'[u] = inFlight[u] /\ inFlight[u] \in Nat /\ Cardinality(Checking(u)) = inFlight[u]
    BY <1>1, <1>2 DEF LimInv, SlotsReturned, TypeOK
  <2>2. Fits'
    BY <1>7, <2>1 DEF LimInv, Fits
  <2>3. GuessesBounded'
    BY <1>4, <1>7, <2>1 DEF LimInv, GuessesBounded
  <2>. QED
    BY <2>2, <2>3
<1>9. Remembered'
  <2>. SUFFICES ASSUME NEW u \in User, NEW k \in wrong[u]
                PROVE  \/ k \in failures[u]
                       \/ failedAt[k] <= now' - FailureWindow
                       \/ IsLocked(u)' /\ failedAt[k] + FailureWindow <= locked[u]
    BY <1>1 DEF Remembered
  <2>1. failedAt[k] \in Nat /\ locked[u] \in Nat \cup {Null}
    BY <1>2 DEF TypeOK
  <2>2. CASE IsLocked(u) /\ failedAt[k] + FailureWindow <= locked[u]
    BY <1>1, <2>1, <2>2 DEF IsLocked
  <2>. QED
    BY <1>1, <2>1, <2>2 DEF LimInv, Remembered
<1>10. HitsKept'
  <2>. SUFFICES ASSUME NEW i \in IP
                PROVE  /\ {k \in Login : from[k] = i /\ hitAt[k] # Null /\ hitAt[k] > now' - IPWindow}
                            \subseteq ipHits[i]
                       /\ Cardinality(Recent(ipHits[i], hitAt, IPWindow)') <= IPMax
    BY <1>1 DEF HitsKept
  <2>1. Recent(ipHits[i], hitAt, IPWindow) \in SUBSET Login
    BY <1>2 DEF Recent, TypeOK
  <2>2. Recent(ipHits[i], hitAt, IPWindow)' \in SUBSET Recent(ipHits[i], hitAt, IPWindow)
    BY <1>1, <1>2 DEF Recent, TypeOK
  <2>3. Cardinality(Recent(ipHits[i], hitAt, IPWindow)') <= IPMax
    BY <2>1, <2>2, PartFinite, PartLess DEF LimInv, HitsKept
  <2>4. \A k \in Login : hitAt[k] # Null /\ hitAt[k] > now' - IPWindow => hitAt[k] > now - IPWindow
    BY <1>1, <1>2 DEF TypeOK
  <2>. QED
    BY <2>3, <2>4 DEF LimInv, HitsKept
<1>. QED
  BY <1>3, <1>5, <1>8, <1>9, <1>10 DEF LimInv

LEMMA LimInvNext == LimInv /\ [Next]_vars => LimInv'
<1>. SUFFICES ASSUME LimInv, [Next]_vars PROVE LimInv'
  OBVIOUS
<1>1. CASE Next
  BY <1>1, AllowIPKeeps, BeginAttemptKeeps, FailureKeeps, SuccessKeeps, ReleaseKeeps, TickKeeps DEF Next
<1>2. CASE UNCHANGED vars
  <2>. USE <1>2 DEF vars, limiter, LimInv
  <2>1. TypeOK' /\ TimesOf'
    BY DEF TypeOK, TimesOf
  <2>2. SlotsReturned' /\ LockIdle' /\ Remembered'
    BY DEF SlotsReturned, LockIdle, Remembered, Checking, IsLocked
  <2>3. Fits' /\ GuessesBounded' /\ HitsKept'
    BY DEF Fits, GuessesBounded, HitsKept, Recent, Checking
  <2>. QED
    BY <2>1, <2>2, <2>3
<1>. QED
  BY <1>1, <1>2

LEMMA LimInvAlways == Spec => []LimInv
<1>. QED
  BY LimInvInit, LimInvNext, PTL DEF Spec

-----------------------------------------------------------------------------
(* inFlight of a username is the number of its logins between beginAttempt *)
(* and the release that ends each of them, however they end.               *)
THEOREM SlotsAlwaysReturned == Spec => []SlotsReturned
<1>1. LimInv => SlotsReturned
  BY DEF LimInv
<1>. QED
  BY <1>1, LimInvAlways, PTL

(* A username's wrong passwords of the last window, with those being       *)
(* checked, stay within maxFailures: beginAttempt counts both, and a lock  *)
(* outlasts the failures that it forgets.                                  *)
THEOREM GuessesStayBounded == Spec => []GuessesBounded
<1>1. LimInv => GuessesBounded
  BY DEF LimInv
<1>. QED
  BY <1>1, LimInvAlways, PTL

(* AllowIP lets at most ipMax requests of an address through in a window.  *)
THEOREM AddressesStayBounded == Spec => []AddressBounded
<1>1. LimInv => AddressBounded
  <2>. SUFFICES ASSUME LimInv, NEW i \in IP
                PROVE  Cardinality({k \in Login : from[k] = i /\ hitAt[k] # Null /\ hitAt[k] > now - IPWindow})
                         <= IPMax
    BY DEF AddressBounded
  <2> DEFINE hits == {k \in Login : from[k] = i /\ hitAt[k] # Null /\ hitAt[k] > now - IPWindow}
  <2>1. Recent(ipHits[i], hitAt, IPWindow) \in SUBSET Login
    BY DEF LimInv, TypeOK, Recent
  <2>2. hits \in SUBSET Recent(ipHits[i], hitAt, IPWindow)
    BY DEF LimInv, HitsKept, Recent
  <2>3. Cardinality(hits) \in Nat /\ Cardinality(Recent(ipHits[i], hitAt, IPWindow)) \in Nat
    BY <2>1, <2>2, PartFinite
  <2>4. Cardinality(hits) <= Cardinality(Recent(ipHits[i], hitAt, IPWindow))
    BY <2>1, <2>2, PartLess
  <2>5. Cardinality(Recent(ipHits[i], hitAt, IPWindow)) <= IPMax
    BY DEF LimInv, HitsKept
  <2>. QED
    BY <2>3, <2>4, <2>5
<1>. QED
  BY <1>1, LimInvAlways, PTL

(* Neither Failure nor Success of a login that was under way, nor a sweep, *)
(* nor beginAttempt moves or lifts a lock that is running.                 *)
THEOREM LocksHold == Spec => LockHolds
<1>1. LimInv /\ [Next]_vars => [\A u \in User : IsLocked(u) => locked'[u] = locked[u]]_vars
  <2>. SUFFICES ASSUME LimInv, Next, NEW u \in User, IsLocked(u)
                PROVE  locked'[u] = locked[u]
    OBVIOUS
  <2>. TypeOK
    BY DEF LimInv
  <2>1. ASSUME NEW l \in Login, NEW v \in User, NEW i \in IP, AllowIP(l, v, i)
        PROVE  locked'[u] = locked[u]
    BY <2>1, SweepDrops DEF AllowIP
  <2>2. ASSUME NEW l \in Login, BeginAttempt(l)
        PROVE  locked'[u] = locked[u]
    <3>1. locked' = [SweptLocks EXCEPT ![who[l]] = IF IsLocked(who[l]) THEN @ ELSE Null]
      BY <2>2 DEF BeginAttempt
    <3>. QED
      BY <3>1, SweepDrops
  <2>3. ASSUME NEW l \in Login, Failure(l)
        PROVE  locked'[u] = locked[u]
    <3>1. GiveBack(l) /\ \A v \in User : v # who[l] => locked'[v] = locked[v]
      BY <2>3 DEF Failure, TypeOK
    <3>. QED
      BY <3>1, GiveBackKeeps
  <2>4. ASSUME NEW l \in Login, Success(l)
        PROVE  locked'[u] = locked[u]
    <3>1. GiveBack(l) /\ \A v \in User : v # who[l] => locked'[v] = locked[v]
      BY <2>4 DEF Success, TypeOK
    <3>. QED
      BY <3>1, GiveBackKeeps
  <2>5. ASSUME NEW l \in Login, Release(l)
        PROVE  locked'[u] = locked[u]
    BY <2>5 DEF Release
  <2>6. CASE Tick
    BY <2>6 DEF Tick, limiter
  <2>. QED
    BY <2>1, <2>2, <2>3, <2>4, <2>5, <2>6 DEF Next
<1>. QED
  BY <1>1, LimInvAlways, PTL DEF Spec, LockHolds
=============================================================================
