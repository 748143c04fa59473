------------------------------ MODULE OtpProofs ------------------------------
(***************************************************************************)
(* The phone login for any number of requests, verifications, phones and   *)
(* addresses, and any limits in the order LimitsInOrder gives them.        *)
(***************************************************************************)
EXTENDS OtpLogin, FiniteSetTheorems, WellFoundedInduction, TLAPS

Limits == {"address", "cooldown", "quota", "verify"}

(* How far a request is and what is known of it.                           *)
Progress ==
  /\ \A x \in Request \cup Try :
       /\ at[x] # Null => at[x] <= now /\ phone[x] \in Phone /\ from[x] \in IP
       /\ pc[x] = "idle" => at[x] = Null /\ retryAt[x] = Null
       /\ retryAt[x] # Null => phone[x] \in Phone /\ from[x] \in IP
  /\ \A c \in Request :
       /\ pc[c] \in {"allowed", "voided", "sending", "voiding"} => at[c] # Null
       /\ retryAt[c] # Null => refusedBy[c] \in Limits \ {"verify"}
       /\ otp[c] # "NONE" => at[c] # Null
       /\ pc[c] \in {"idle", "allowed", "voided"} => otp[c] = "NONE"
  /\ \A v \in Try :
       /\ pc[v] = "checking" => at[v] # Null
       /\ retryAt[v] # Null => refusedBy[v] = "verify"
  /\ asked \subseteq {c \in Request : at[c] # Null}

(* A list of the limiter still has every request its window counts, and    *)
(* never more than its maximum.                                            *)
Kept ==
  \A c \in asked :
    /\ at[c] + PhoneWindow > now => c \in phoneHits[phone[c]]
    /\ at[c] + IPWindow > now => c \in ipHits[from[c]]

ListsBounded ==
  /\ \A p \in Phone : Cardinality(phoneHits[p]) <= PhoneMax
  /\ \A i \in IP : Cardinality(ipHits[i]) <= IPMax /\ Cardinality(verifyHits[i]) <= VerifyMax

(* The codes of a phone that an open transaction's snapshot misses were    *)
(* committed late, or belong to requests a cooldown after its own.         *)
Asking ==
  \A c \in Request :
    /\ pc[c] \in {"allowed", "voided"} => c \in asked
    /\ pc[c] = "voided" => \A d \in Active(phone[c]) \ sees[c] :
                             d \in late \/ at[c] + PhoneCooldown <= at[d]
    /\ \A d \in sees[c] : otp[d] # "NONE"

(* Of two codes of a phone that can still be entered, one was late.        *)
Alone == \A c, d \in Request :
  otp[c] = "ACTIVE" /\ otp[d] = "ACTIVE" /\ phone[c] = phone[d] /\ c # d => c \in late \/ d \in late

(* Comparisons are counted as long as a code is not used up; a session     *)
(* uses it up.                                                             *)
Tries ==
  /\ \A c \in Request :
       /\ Cardinality(compared[c]) <= MaxAttempts
       /\ otp[c] # "CONSUMED" => Cardinality(compared[c]) <= attempts[c]
  /\ \A v \in Try : session[v] # Null => otp[session[v]] = "CONSUMED"
  /\ \A v, w \in Try : session[v] # Null /\ session[v] = session[w] => v = w

(* What a limit counts, for how long, and how many of them make it refuse: *)
(* the cooldown is a limit of one.                                         *)
Hits(limit, p, i) ==
  IF limit = "address" THEN ipHits[i] ELSE IF limit = "verify" THEN verifyHits[i] ELSE phoneHits[p]
Lasts(limit) ==
  IF limit = "address" THEN IPWindow ELSE IF limit = "verify" THEN VerifyWindow
  ELSE IF limit = "cooldown" THEN PhoneCooldown ELSE PhoneWindow
Keeps(limit) == IF limit = "cooldown" THEN PhoneWindow ELSE Lasts(limit)
Most(limit) ==
  IF limit = "address" THEN IPMax ELSE IF limit = "verify" THEN VerifyMax
  ELSE IF limit = "cooldown" THEN 1 ELSE PhoneMax

(* Those of S, with the times a, that count beyond the instant t.          *)
Until(a, S, w, t) == {x \in S : a[x] + w > t}

(* At the instant n, the time r fits what S holds: a second before it the  *)
(* limit still refuses, and at r it does not.                              *)
Fits(n, a, S, w, m, r) ==
  /\ n + Second <= r => Cardinality(Until(a, S, w, r - Second)) >= m
  /\ Cardinality(Until(a, S, w, r)) < m

WaitOf(x) ==
  Fits(now, at, Hits(refusedBy[x], phone[x], from[x]), Lasts(refusedBy[x]), Most(refusedBy[x]),
       retryAt[x])
Waits == \A x \in Request \cup Try : retryAt[x] # Null => WaitOf(x)

OtpInv ==
  /\ TypeOK /\ Progress /\ Kept /\ ListsBounded /\ SendsBounded
  /\ Asking /\ Alone /\ Tries /\ Waits

-----------------------------------------------------------------------------
LEMMA LeastTime ==
  ASSUME NEW T \in SUBSET Nat, T # {}
  PROVE  \E n \in T : \A m \in T : n <= m
<1>1. PICK n \in T : \A m \in T : <<m, n>> \notin OpToRel(<, Nat)
  BY WFMin, NatLessThanWellFounded, Zenon
<1>2. \A m \in T : ~(m < n)
  BY <1>1, Zenon DEF OpToRel
<1>3. QED
  BY <1>2

LEMMA MinTime ==
  ASSUME NEW T \in SUBSET Nat, T # {}
  PROVE  Min(T) \in T /\ \A m \in T : Min(T) <= m
<1>1. PICK n \in T : \A m \in T : n <= m
  BY LeastTime
<1>2. QED
  BY <1>1 DEF Min

LEMMA MaxTime ==
  ASSUME NEW T \in SUBSET Nat, T # {}, NEW n \in Nat, \A m \in T : m <= n
  PROVE  Max(T) \in T /\ \A m \in T : m <= Max(T)
<1> SUFFICES \E h \in T : \A m \in T : h >= m
  BY DEF Max
<1>1. SUFFICES ASSUME NEW D, D = {n - m : m \in T} PROVE \E h \in T : \A m \in T : h >= m
  OBVIOUS
<1>2. D \in SUBSET Nat /\ D # {}
  <2>1. \A m \in T : m \in Nat /\ n - m \in Nat
    OBVIOUS
  <2>2. \A d \in D : d \in Nat
    BY <1>1, <2>1
  <2>3. \A m \in T : n - m \in D
    BY <1>1
  <2>4. QED
    BY <2>2, <2>3
<1>3. PICK d \in D : \A e \in D : d <= e
  BY <1>2, LeastTime
<1>4. PICK h \in T : d = n - h
  BY <1>1, <1>3
<1>5. \A m \in T : n - m \in D
  BY <1>1
<1>6. QED
  BY <1>3, <1>4, <1>5

LEMMA HitsFinite ==
  ASSUME TypeOK
  PROVE  /\ \A p \in Phone : IsFiniteSet(phoneHits[p]) /\ phoneHits[p] \subseteq Request
         /\ \A i \in IP : IsFiniteSet(ipHits[i]) /\ ipHits[i] \subseteq Request
         /\ \A c \in Request : IsFiniteSet(compared[c])
         /\ \A i \in IP : IsFiniteSet(verifyHits[i])
         /\ \A S \in SUBSET Request : IsFiniteSet(S)
         /\ \A S \in SUBSET Try : IsFiniteSet(S)
<1>1. (\A S \in SUBSET Request : IsFiniteSet(S)) /\ (\A S \in SUBSET Try : IsFiniteSet(S))
  BY FS_Subset, OtpLimits
<1>2. /\ \A p \in Phone : phoneHits[p] \in SUBSET Request
      /\ \A i \in IP : ipHits[i] \in SUBSET Request /\ verifyHits[i] \in SUBSET Try
      /\ \A c \in Request : compared[c] \in SUBSET Try
  BY DEF TypeOK
<1>3. QED
  BY <1>1, <1>2

LEMMA Fewer ==
  ASSUME NEW B, IsFiniteSet(B), NEW A \in SUBSET B
  PROVE  IsFiniteSet(A) /\ Cardinality(A) \in Nat /\ Cardinality(B) \in Nat
         /\ Cardinality(A) <= Cardinality(B)
<1>1. IsFiniteSet(A) /\ Cardinality(A) <= Cardinality(B)
  BY FS_Subset
<1>2. Cardinality(A) \in Nat /\ Cardinality(B) \in Nat
  BY <1>1, FS_CardinalityType
<1>3. QED
  BY <1>1, <1>2

(* Seconds are rounded up, by less than one.                               *)
LEMMA RoundedUp ==
  ASSUME NEW d \in Nat, d > 0
  PROVE  CeilSeconds(d) \in Nat /\ d <= CeilSeconds(d) /\ CeilSeconds(d) < d + Second
<1>1. Second \in Nat /\ Second > 0
  BY OtpLimits
<1>2. PICK e \in Nat : e = d + Second - 1
  BY <1>1
<1>3. PICK q \in Nat : q = e \div Second
  BY <1>1, <1>2
<1>4. PICK m \in Nat : m = q * Second
  BY <1>1, <1>3
<1>5. m <= e /\ e < m + Second
  <2>1. e - Second * (e \div Second) = e % Second
    BY <1>1, <1>2
  <2>2. e % Second \in 0 .. (Second - 1)
    BY <1>1, <1>2
  <2>3. Second * (e \div Second) = m
    BY <1>1, <1>3, <1>4
  <2>4. QED
    BY <1>1, <1>2, <2>1, <2>2, <2>3, <1>4
<1>6. CeilSeconds(d) = m
  BY <1>1, <1>2, <1>3, <1>4 DEF CeilSeconds
<1>7. QED
  BY <1>1, <1>2, <1>4, <1>5, <1>6

LEMMA LimitsAre ==
  ASSUME NEW l \in Limits
  PROVE  /\ Lasts(l) \in Nat /\ Keeps(l) \in Nat /\ Lasts(l) <= Keeps(l)
         /\ Most(l) \in Nat \ {0}
BY OtpLimits, LimitsInOrder DEF Limits, Lasts, Keeps, Most

(* Pruning and sweeping drop nothing that counts later than now, so a wait *)
(* goes on fitting.                                                        *)
LEMMA FitsOn ==
  ASSUME NEW n \in Nat, NEW a, NEW b, NEW S, NEW T \in SUBSET S, IsFiniteSet(S),
         \A x \in S : a[x] \in Nat /\ b[x] = a[x],
         NEW w \in Nat, NEW v \in Nat, w <= v, \A x \in S : a[x] > n - v => x \in T,
         NEW m \in Nat, NEW r \in Nat, Fits(n, a, S, w, m, r)
  PROVE  Fits(n, b, T, w, m, r)
<1>1. Second \in Nat
  BY OtpLimits
<1>2. ASSUME n + Second <= r PROVE Cardinality(Until(b, T, w, r - Second)) >= m
  <2>1. \A x \in S : a[x] + w > r - Second => x \in T
    BY <1>1, <1>2
  <2>2. Until(b, T, w, r - Second) = Until(a, S, w, r - Second)
    BY <2>1 DEF Until
  <2>3. QED
    BY <1>2, <2>2 DEF Fits
<1>3. Cardinality(Until(b, T, w, r)) < m
  <2>1. Until(b, T, w, r) \in SUBSET Until(a, S, w, r)
    BY DEF Until
  <2>2. IsFiniteSet(Until(a, S, w, r))
    BY FS_Subset DEF Until
  <2>3. Cardinality(Until(a, S, w, r)) < m
    BY DEF Fits
  <2>4. /\ Cardinality(Until(b, T, w, r)) \in Nat /\ Cardinality(Until(a, S, w, r)) \in Nat
        /\ Cardinality(Until(b, T, w, r)) <= Cardinality(Until(a, S, w, r))
    BY <2>1, <2>2, Fewer
  <2>5. QED
    BY <2>3, <2>4
<1>4. QED
  BY <1>2, <1>3 DEF Fits

(* The wait until the oldest of a full list ends fits, and so does the one *)
(* until the newest of a list with a limit of one does.                    *)
LEMMA OldestFits ==
  ASSUME NEW n \in Nat, NEW a, NEW S, IsFiniteSet(S), NEW R \in SUBSET S,
         \A x \in S : a[x] \in Nat, NEW w \in Nat, \A x \in S : x \in R <=> a[x] + w > n,
         NEW m \in Nat, Cardinality(S) <= m, Cardinality(R) >= m,
         NEW k \in R, \A x \in R : a[k] <= a[x],
         NEW r \in Nat, a[k] + w <= r, r < a[k] + w + Second
  PROVE  Fits(n, a, S, w, m, r)
<1>1. Second \in Nat /\ a[k] \in Nat
  BY OtpLimits
<1>2. R \in SUBSET Until(a, S, w, r - Second) /\ Until(a, S, w, r) \in SUBSET (R \ {k})
  <2>1. \A x \in R : x \in S /\ a[x] \in Nat /\ a[k] <= a[x]
    OBVIOUS
  <2>2. \A x \in R : a[x] + w > r - Second
    BY <1>1, <2>1
  <2>3. a[k] + w > n
    OBVIOUS
  <2>4. \A x \in S : a[x] + w > r => a[x] + w > n /\ x # k
    BY <1>1, <2>3
  <2>5. QED
    BY <2>1, <2>2, <2>4 DEF Until
<1>3. IsFiniteSet(Until(a, S, w, r - Second)) /\ IsFiniteSet(R)
  BY FS_Subset DEF Until
<1>4. /\ Cardinality(R) \in Nat /\ Cardinality(Until(a, S, w, r - Second)) \in Nat
      /\ Cardinality(R) <= Cardinality(Until(a, S, w, r - Second))
  BY <1>2, <1>3, Fewer
<1>5. /\ Cardinality(S) \in Nat /\ Cardinality(R) <= Cardinality(S)
  BY Fewer
<1>6. IsFiniteSet(R \ {k}) /\ Cardinality(R \ {k}) = Cardinality(R) - 1
  <2>1. IsFiniteSet(R \ {k}) /\ Cardinality(R \ {k}) = IF k \in R THEN Cardinality(R) - 1 ELSE Cardinality(R)
    BY <1>3, FS_RemoveElement, Zenon
  <2>2. QED
    BY <2>1
<1>7. Cardinality(Until(a, S, w, r)) \in Nat /\ Cardinality(Until(a, S, w, r)) <= Cardinality(R \ {k})
  BY <1>2, <1>6, Fewer
<1>8. QED
  BY <1>4, <1>5, <1>6, <1>7 DEF Fits

LEMMA NewestFits ==
  ASSUME NEW n \in Nat, NEW a, NEW S, IsFiniteSet(S), \A x \in S : a[x] \in Nat, NEW w \in Nat,
         NEW k \in S, \A x \in S : a[x] + w > n => a[x] <= a[k], a[k] + w > n,
         NEW r \in Nat, a[k] + w <= r, r < a[k] + w + Second
  PROVE  Fits(n, a, S, w, 1, r)
<1>1. Second \in Nat /\ a[k] \in Nat
  BY OtpLimits
<1>2. k \in Until(a, S, w, r - Second)
  BY <1>1 DEF Until
<1>3. Until(a, S, w, r) = {}
  BY <1>1 DEF Until
<1>4. IsFiniteSet(Until(a, S, w, r - Second))
  BY FS_Subset DEF Until
<1>5. Cardinality(Until(a, S, w, r - Second)) \in Nat /\ Cardinality(Until(a, S, w, r - Second)) # 0
  BY <1>2, <1>4, FS_CardinalityType, FS_EmptySet
<1>6. Cardinality(Until(a, S, w, r)) = 0
  BY <1>3, FS_EmptySet
<1>7. QED
  BY <1>5, <1>6 DEF Fits

LEMMA HitsAre ==
  ASSUME TypeOK, Progress, ListsBounded, NEW l \in Limits, NEW p \in Phone, NEW i \in IP
  PROVE  /\ IsFiniteSet(Hits(l, p, i))
         /\ \A x \in Hits(l, p, i) : x \in Request \cup Try /\ at[x] \in Nat /\ at[x] <= now
         /\ l # "cooldown" => Cardinality(Hits(l, p, i)) <= Most(l)
         /\ now \in Nat
<1>1. /\ phoneHits[p] \subseteq {c \in Request : at[c] # Null}
      /\ ipHits[i] \subseteq {c \in Request : at[c] # Null}
      /\ verifyHits[i] \subseteq {v \in Try : at[v] # Null}
      /\ \A x \in Request \cup Try : at[x] # Null => at[x] \in Nat /\ at[x] <= now
      /\ now \in Nat
  BY DEF TypeOK, Progress
<1>2. IsFiniteSet(phoneHits[p]) /\ IsFiniteSet(ipHits[i]) /\ IsFiniteSet(verifyHits[i])
  BY <1>1, HitsFinite
<1>3. /\ Cardinality(phoneHits[p]) <= PhoneMax
      /\ Cardinality(ipHits[i]) <= IPMax /\ Cardinality(verifyHits[i]) <= VerifyMax
  BY DEF ListsBounded
<1>4. l \in {"address", "cooldown", "quota", "verify"}
  BY DEF Limits
<1>5. QED
  BY <1>1, <1>2, <1>3, <1>4 DEF Hits, Most

(* A limit refuses when as many as it allows count beyond the instant.     *)
LEMMA RefusesMeans ==
  ASSUME TypeOK, Progress, ListsBounded, NEW l \in Limits, NEW p \in Phone, NEW i \in IP
  PROVE  Refuses(l, p, i) <=> Cardinality(Until(at, Hits(l, p, i), Lasts(l), now)) >= Most(l)
<1>1. /\ \A x \in Hits(l, p, i) : at[x] \in Nat
      /\ now \in Nat /\ Lasts(l) \in Nat /\ IsFiniteSet(Hits(l, p, i)) /\ Lasts(l) <= Keeps(l)
      /\ Keeps(l) \in Nat
  BY HitsAre, LimitsAre
<1>2. Until(at, Hits(l, p, i), Lasts(l), now) = Recent(Hits(l, p, i), Lasts(l))
  BY <1>1 DEF Until, Recent
<1>3. CASE l = "address"
  BY <1>2, <1>3 DEF Refuses, Hits, Lasts, Most, IPFull
<1>4. CASE l = "quota"
  BY <1>2, <1>4 DEF Refuses, Hits, Lasts, Most, PhoneFull
<1>5. CASE l = "verify"
  <2>1. Refuses(l, p, i) <=> ~(Cardinality(Recent(verifyHits[i], VerifyWindow)) < VerifyMax)
    BY <1>5 DEF Refuses, MayVerify
  <2>2. Recent(verifyHits[i], VerifyWindow) = Until(at, Hits(l, p, i), Lasts(l), now) /\ Most(l) = VerifyMax
    BY <1>2, <1>5 DEF Hits, Lasts, Most
  <2>3. Cardinality(Until(at, Hits(l, p, i), Lasts(l), now)) \in Nat /\ VerifyMax \in Nat
    BY <1>1, Fewer, OtpLimits DEF Until
  <2>4. QED
    BY <2>1, <2>2, <2>3
<1>6. CASE l = "cooldown"
  <2>1. Refuses(l, p, i) <=> \E c \in Recent(phoneHits[p], PhoneWindow) : at[c] + PhoneCooldown > now
    BY <1>6 DEF Refuses, Cooling
  <2>2. /\ Hits(l, p, i) = phoneHits[p] /\ Lasts(l) = PhoneCooldown /\ Keeps(l) = PhoneWindow
        /\ Most(l) = 1
    BY <1>6 DEF Hits, Lasts, Keeps, Most
  <2>3. Refuses(l, p, i) <=> Until(at, Hits(l, p, i), Lasts(l), now) # {}
    BY <1>1, <2>1, <2>2 DEF Until, Recent
  <2>4. IsFiniteSet(Until(at, Hits(l, p, i), Lasts(l), now))
    BY <1>1, Fewer DEF Until
  <2>5. /\ Cardinality(Until(at, Hits(l, p, i), Lasts(l), now)) \in Nat
        /\ Until(at, Hits(l, p, i), Lasts(l), now) = {} <=>
             Cardinality(Until(at, Hits(l, p, i), Lasts(l), now)) = 0
    BY <2>4, FS_CardinalityType, FS_EmptySet
  <2>6. QED
    BY <2>2, <2>3, <2>5
<1>7. QED
  BY <1>3, <1>4, <1>5, <1>6 DEF Limits

(* The wait a refusal names fits what the limiter holds.                   *)
LEMMA RefusalFits ==
  ASSUME TypeOK, Progress, ListsBounded, NEW l \in Limits, NEW p \in Phone, NEW i \in IP,
         Refuses(l, p, i)
  PROVE  /\ now + CeilSeconds(EndOf(l, p, i) - now) \in Nat
         /\ Fits(now, at, Hits(l, p, i), Lasts(l), Most(l), now + CeilSeconds(EndOf(l, p, i) - now))
<1> DEFINE S == Hits(l, p, i)
           w == Lasts(l)
           T == Times(Recent(S, Keeps(l)))
           C == Until(at, S, w, now)
<1>1. /\ IsFiniteSet(S) /\ now \in Nat /\ w \in Nat /\ Keeps(l) \in Nat /\ w <= Keeps(l)
      /\ \A x \in S : at[x] \in Nat /\ at[x] <= now
      /\ Most(l) \in Nat /\ Most(l) # 0
      /\ l # "cooldown" => Cardinality(S) <= Most(l)
  BY HitsAre, LimitsAre
<1>2. Cardinality(C) >= Most(l) /\ C \in SUBSET S /\ \A x \in S : x \in C <=> at[x] + w > now
  BY RefusesMeans DEF Until
<1>3. C # {}
  <2>1. SUFFICES ASSUME C = {} PROVE FALSE
    OBVIOUS
  <2>2. Cardinality(C) = 0
    BY <2>1, FS_EmptySet
  <2>3. QED
    BY <1>1, <1>2, <2>2
<1>4. /\ T \in SUBSET Nat /\ \A t \in T : t <= now
      /\ \A x \in S : at[x] > now - Keeps(l) => at[x] \in T
      /\ \A t \in T : \E x \in S : at[x] = t /\ at[x] > now - Keeps(l)
  BY <1>1 DEF Times, Recent
<1>5. \A x \in C : at[x] \in T
  BY <1>1, <1>2, <1>4
<1>6. T # {}
  BY <1>3, <1>5
<1>7. Second \in Nat /\ Second > 0
  BY OtpLimits
<1>8. CASE l = "cooldown"
  <2>1. Max(T) \in T /\ \A t \in T : t <= Max(T)
    BY <1>1, <1>4, <1>6, MaxTime
  <2>2. PICK k \in S : at[k] = Max(T)
    BY <1>4, <2>1
  <2>3. /\ at[k] + w > now
        /\ \A x \in S : at[x] + w > now => at[x] <= at[k]
    BY <1>1, <1>2, <1>3, <1>4, <1>5, <2>1, <2>2
  <2>4. EndOf(l, p, i) = at[k] + w
    BY <1>8, <2>2 DEF EndOf, Hits, Lasts, Keeps
  <2>5. PICK d \in Nat : d = at[k] + w - now /\ d > 0
    BY <1>1, <2>3
  <2>6. PICK e \in Nat : e = CeilSeconds(d) /\ d <= e /\ e < d + Second
    BY <2>5, RoundedUp
  <2>7. now + CeilSeconds(EndOf(l, p, i) - now) = now + e
    <3>1. EndOf(l, p, i) - now = d
      BY <1>1, <2>4, <2>5
    <3>2. QED
      BY <2>6, <3>1, Zenon
  <2>8. now + e \in Nat /\ at[k] + w <= now + e /\ now + e < at[k] + w + Second
    BY <1>1, <1>7, <2>5, <2>6
  <2>9. Fits(now, at, S, w, 1, now + e)
    <3>1. PICK r \in Nat : r = now + e
      BY <2>8
    <3>2. PICK u : u = w
      OBVIOUS
    <3>3. PICK Z : Z = S
      OBVIOUS
    <3>4. /\ IsFiniteSet(Z) /\ (\A x \in Z : at[x] \in Nat) /\ u \in Nat /\ now \in Nat /\ k \in Z
          /\ (\A x \in Z : at[x] + u > now => at[x] <= at[k]) /\ at[k] + u > now
          /\ at[k] + u <= r /\ r < at[k] + u + Second
      BY <1>1, <2>3, <2>8, <3>1, <3>2, <3>3
    <3>5. Fits(now, at, Z, u, 1, r)
      BY <3>4, NewestFits
    <3>6. QED
      BY <3>1, <3>2, <3>3, <3>5
  <2>10. Most(l) = 1
    BY <1>8 DEF Most
  <2>11. QED
    BY <2>7, <2>8, <2>9, <2>10
<1>9. CASE l # "cooldown"
  <2>0. Keeps(l) = w
    BY <1>9 DEF Keeps
  <2>1. Min(T) \in T /\ \A t \in T : Min(T) <= t
    BY <1>4, <1>6, MinTime
  <2>2. PICK k \in S : at[k] = Min(T) /\ at[k] > now - w
    BY <1>4, <2>0, <2>1
  <2>3. /\ k \in C /\ at[k] + w > now
        /\ \A x \in C : at[k] <= at[x]
    BY <1>1, <1>2, <1>5, <2>1, <2>2
  <2>4. EndOf(l, p, i) = at[k] + w
    <3>1. l \in {"address", "quota", "verify"}
      BY <1>9 DEF Limits
    <3>2. QED
      BY <2>2, <3>1 DEF EndOf, Hits, Lasts, Keeps
  <2>5. PICK d \in Nat : d = at[k] + w - now /\ d > 0
    BY <1>1, <2>3
  <2>6. PICK e \in Nat : e = CeilSeconds(d) /\ d <= e /\ e < d + Second
    BY <2>5, RoundedUp
  <2>7. now + CeilSeconds(EndOf(l, p, i) - now) = now + e
    <3>1. EndOf(l, p, i) - now = d
      BY <1>1, <2>4, <2>5
    <3>2. QED
      BY <2>6, <3>1, Zenon
  <2>8. now + e \in Nat /\ at[k] + w <= now + e /\ now + e < at[k] + w + Second
    BY <1>1, <1>7, <2>5, <2>6
  <2>9. Fits(now, at, S, w, Most(l), now + e)
    <3>1. PICK r \in Nat : r = now + e
      BY <2>8
    <3>2. PICK u : u = w
      OBVIOUS
    <3>3. PICK Z : Z = S
      OBVIOUS
    <3>4. PICK R : R = C
      OBVIOUS
    <3>5. PICK m : m = Most(l)
      OBVIOUS
    <3>6. /\ now \in Nat /\ IsFiniteSet(Z) /\ R \in SUBSET Z /\ (\A x \in Z : at[x] \in Nat)
          /\ u \in Nat /\ (\A x \in Z : x \in R <=> at[x] + u > now)
          /\ m \in Nat /\ Cardinality(Z) <= m /\ Cardinality(R) >= m
          /\ k \in R /\ (\A x \in R : at[k] <= at[x])
          /\ at[k] + u <= r /\ r < at[k] + u + Second
      BY <1>1, <1>2, <1>9, <2>3, <2>8, <3>1, <3>2, <3>3, <3>4, <3>5
    <3>7. Fits(now, at, Z, u, m, r)
      BY <3>6, OldestFits
    <3>8. QED
      BY <3>1, <3>2, <3>3, <3>5, <3>7
  <2>10. QED
    BY <2>7, <2>8, <2>9
<1>10. QED
  BY <1>8, <1>9

(* The limit a request is refused by refuses it.                           *)
LEMMA RefusalRefuses ==
  ASSUME NEW p, NEW i, ~MayAsk(p, i)
  PROVE  Refusal(p, i) \in Limits \ {"verify"} /\ Refuses(Refusal(p, i), p, i)
BY DEF MayAsk, Refusal, Refuses, Limits

-----------------------------------------------------------------------------
LEMMA OtpInitial == Init => OtpInv
<1> SUFFICES ASSUME Init PROVE OtpInv
  OBVIOUS
<1> USE OtpLimits, FS_EmptySet DEF Init
<1>1. TypeOK
  BY DEF TypeOK
<1>2. Progress /\ Kept /\ Asking /\ Alone /\ Waits
  BY DEF Progress, Kept, Asking, Alone, Waits
<1>6. ListsBounded
  BY DEF ListsBounded
<1>3. SendsBounded
  <2>1. \A p \in Phone : Recent({c \in asked : phone[c] = p}, PhoneWindow) = {}
    BY DEF Recent
  <2>2. \A i \in IP : Recent({c \in asked : from[c] = i}, IPWindow) = {}
    BY DEF Recent
  <2>3. Cardinality({}) <= PhoneMax /\ Cardinality({}) <= IPMax
    OBVIOUS
  <2>4. \A p \in Phone : Cardinality(Recent({c \in asked : phone[c] = p}, PhoneWindow)) <= PhoneMax
    BY <2>1, <2>3, Zenon
  <2>5. \A i \in IP : Cardinality(Recent({c \in asked : from[c] = i}, IPWindow)) <= IPMax
    BY <2>2, <2>3, Zenon
  <2>6. QED
    BY <2>4, <2>5 DEF SendsBounded
<1>4. Tries
  BY DEF Tries
<1>5. QED
  BY <1>1, <1>2, <1>3, <1>4, <1>6 DEF OtpInv

(* Sweeping and pruning drop nothing a window counts and add nothing.      *)
LEMMA SweepKeeps ==
  ASSUME TypeOK
  PROVE  /\ SweptPhones \in [Phone -> SUBSET {c \in Request : at[c] # Null}]
         /\ SweptIPs \in [IP -> SUBSET {c \in Request : at[c] # Null}]
         /\ SweptVerify \in [IP -> SUBSET {v \in Try : at[v] # Null}]
         /\ \A p \in Phone : Recent(phoneHits[p], PhoneWindow) \subseteq SweptPhones[p]
         /\ \A i \in IP : Recent(ipHits[i], IPWindow) \subseteq SweptIPs[i]
         /\ \A i \in IP : Recent(verifyHits[i], VerifyWindow) \subseteq SweptVerify[i]
         /\ \A p \in Phone : SweptPhones[p] \subseteq phoneHits[p]
         /\ \A i \in IP : SweptIPs[i] \subseteq ipHits[i] /\ SweptVerify[i] \subseteq verifyHits[i]
         /\ (calls + 1) % SweepEvery \in Nat
<1>1. /\ DOMAIN phoneHits = Phone /\ DOMAIN ipHits = IP /\ DOMAIN verifyHits = IP
      /\ \A S, w : Recent(S, w) \subseteq S
  BY DEF TypeOK, Recent
<1>2. (calls + 1) % SweepEvery \in Nat
  BY OtpLimits DEF TypeOK
<1>3. CASE (calls + 1) % SweepEvery = 0
  <2>1. /\ SweptPhones = [p \in Phone |-> Recent(phoneHits[p], PhoneWindow)]
        /\ SweptIPs = [i \in IP |-> Recent(ipHits[i], IPWindow)]
        /\ SweptVerify = [i \in IP |-> Recent(verifyHits[i], VerifyWindow)]
    BY <1>1, <1>3 DEF SweptPhones, SweptIPs, SweptVerify, Sweep
  <2>2. QED
    BY <1>1, <1>2, <2>1 DEF TypeOK
<1>4. CASE (calls + 1) % SweepEvery # 0
  <2>1. SweptPhones = phoneHits /\ SweptIPs = ipHits /\ SweptVerify = verifyHits
    BY <1>4 DEF SweptPhones, SweptIPs, SweptVerify, Sweep
  <2>2. QED
    BY <1>1, <1>2, <2>1 DEF TypeOK
<1>5. QED
  BY <1>3, <1>4

(* The requests of a phone or an address that count against its quota.     *)
AskedBy(p) == {c \in asked : phone[c] = p}
OfPhone(p) == Recent(AskedBy(p), PhoneWindow)
OfAddress(i) == Recent({c \in asked : from[c] = i}, IPWindow)
Spaced(S) == \A c, d \in S : c # d => at[c] + PhoneCooldown <= at[d] \/ at[d] + PhoneCooldown <= at[c]

LEMMA QuotasMean ==
  /\ SendsBounded <=>
       /\ \A p \in Phone : Cardinality(OfPhone(p)) <= PhoneMax /\ Spaced(AskedBy(p))
       /\ \A i \in IP : Cardinality(OfAddress(i)) <= IPMax
  /\ SendsBounded' <=>
       /\ \A p \in Phone : Cardinality(OfPhone(p)') <= PhoneMax /\ Spaced(AskedBy(p))'
       /\ \A i \in IP : Cardinality(OfAddress(i)') <= IPMax
BY DEF SendsBounded, OfPhone, OfAddress, AskedBy, Spaced

LEMMA RecentIs == \A S, w, x : x \in Recent(S, w) <=> x \in S /\ at[x] > now - w
BY DEF Recent

-----------------------------------------------------------------------------
(* Steps that leave the limiter, the clock and the requests' data alone.   *)
Quiet ==
  /\ UNCHANGED <<now, phoneHits, ipHits, verifyHits, calls, asked, phone, from, at, retryAt, refusedBy>>
  /\ \A x \in Request \cup Try : pc'[x] = "idle" => pc[x] = "idle"

LEMMA QuietKeeps ==
  ASSUME OtpInv, Quiet
  PROVE  Kept' /\ ListsBounded' /\ SendsBounded' /\ Waits'
<1>1. Kept' /\ ListsBounded'
  BY DEF OtpInv, Quiet, Kept, ListsBounded
<1>2. SendsBounded'
  BY DEF OtpInv, Quiet, SendsBounded, Recent
<1>3. Waits'
  <2>1. UNCHANGED <<now, at, retryAt, refusedBy, phone, from, phoneHits, ipHits, verifyHits>> /\ Waits
    BY DEF OtpInv, Quiet
  <2>2. \A x : WaitOf(x)' <=> WaitOf(x)
    BY <2>1 DEF WaitOf, Fits, Until, Hits
  <2>3. QED
    BY <2>1, <2>2 DEF Waits
<1>4. QED
  BY <1>1, <1>2, <1>3

-----------------------------------------------------------------------------
LEMMA VoidOldKeeps ==
  ASSUME OtpInv, NEW c \in Request, VoidOld(c)
  PROVE  OtpInv'
<1>1. /\ pc[c] = "allowed" /\ pc' = [pc EXCEPT ![c] = "voided"]
      /\ sees' = [sees EXCEPT ![c] = Active(phone[c])]
      /\ UNCHANGED <<now, phoneHits, ipHits, verifyHits, calls, asked, phone, from, at, retryAt, refusedBy>>
      /\ UNCHANGED <<otp, late, attempts, compared, session>>
  BY DEF VoidOld, limiter, retry, rows
<1>2. pc'[c] = "voided" /\ \A x \in (Request \cup Try) \ {c} : pc'[x] = pc[x]
  BY <1>1 DEF OtpInv, TypeOK
<1>3. sees'[c] = Active(phone[c]) /\ \A d \in Request \ {c} : sees'[d] = sees[d]
  BY <1>1 DEF OtpInv, TypeOK
<1>4. \A p : Active(p)' = Active(p)
  BY <1>1 DEF Active
<1>5. Quiet
  BY <1>1, <1>2 DEF Quiet
<1>6. TypeOK'
  BY <1>1, <1>2, <1>3 DEF OtpInv, TypeOK, Active
<1>7. Progress'
  BY <1>1, <1>2, OtpLimits DEF OtpInv, Progress
<1>8. Asking'
  BY <1>1, <1>2, <1>3, <1>4 DEF OtpInv, Asking, Active
<1>9. Alone' /\ Tries'
  BY <1>1 DEF OtpInv, Alone, Tries
<1>10. QED
  BY <1>5, <1>6, <1>7, <1>8, <1>9, QuietKeeps DEF OtpInv

(* Of two requests under way for a phone one came a cooldown after the     *)
(* other, which therefore is late.                                         *)
LEMMA OneIsSlow ==
  ASSUME OtpInv, NEW c \in Request, NEW d \in Request, c # d,
         pc[c] \in {"allowed", "voided"}, pc[d] \in {"allowed", "voided"}, phone[c] = phone[d]
  PROVE  at[d] + PhoneCooldown <= at[c] \/ (at[c] + PhoneCooldown <= at[d] /\ at[c] + PhoneCooldown <= now)
<1>1. c \in asked /\ d \in asked
  BY DEF OtpInv, Asking
<1>2. /\ at[c] \in Nat /\ at[d] \in Nat /\ at[d] <= now /\ now \in Nat /\ phone[c] \in Phone
      /\ PhoneCooldown \in Nat
  BY OtpLimits DEF OtpInv, Progress, TypeOK
<1>3. c \in AskedBy(phone[c]) /\ d \in AskedBy(phone[c]) /\ Spaced(AskedBy(phone[c]))
  BY <1>1, <1>2, QuotasMean DEF OtpInv, AskedBy
<1>4. at[c] + PhoneCooldown <= at[d] \/ at[d] + PhoneCooldown <= at[c]
  BY <1>3 DEF Spaced
<1>5. QED
  BY <1>2, <1>4

LEMMA StoreCodeKeeps ==
  ASSUME OtpInv, NEW c \in Request, StoreCode(c)
  PROVE  OtpInv'
<1>1. PICK s \in {"sending", "done"} :
      /\ pc[c] = "voided" /\ pc' = [pc EXCEPT ![c] = s]
      /\ otp' = [d \in Request |-> IF d = c THEN "ACTIVE"
                                   ELSE IF d \in sees[c] THEN "CONSUMED" ELSE otp[d]]
      /\ late' = IF now < at[c] + PhoneCooldown THEN late ELSE late \cup {c}
      /\ sees' = [sees EXCEPT ![c] = {}]
      /\ UNCHANGED <<now, phoneHits, ipHits, verifyHits, calls, asked, phone, from, at, retryAt, refusedBy>>
      /\ UNCHANGED <<attempts, compared, session>>
  BY DEF StoreCode, limiter, retry
<1>2. pc'[c] = s /\ \A x \in (Request \cup Try) \ {c} : pc'[x] = pc[x]
  BY <1>1 DEF OtpInv, TypeOK
<1>3. /\ otp'[c] = "ACTIVE" /\ otp[c] = "NONE"
      /\ \A d \in Request \ {c} : otp'[d] = otp[d] \/ otp'[d] = "CONSUMED"
      /\ \A d \in Request \ {c} : otp[d] = "NONE" => otp'[d] = "NONE"
      /\ \A d \in Request \ {c} : d \in sees[c] => otp'[d] = "CONSUMED"
  BY <1>1 DEF OtpInv, Progress, Asking
<1>4. /\ late \subseteq late' /\ late' \subseteq Request
      /\ at[c] + PhoneCooldown <= now => c \in late'
  <2>1. at[c] \in Nat /\ now \in Nat /\ PhoneCooldown \in Nat /\ late \subseteq Request
    BY <1>1, OtpLimits DEF OtpInv, Progress, TypeOK
  <2>2. QED
    BY <1>1, <2>1
<1>5. Quiet
  BY <1>1, <1>2 DEF Quiet
<1>6. TypeOK'
  BY <1>1, <1>2, <1>4 DEF OtpInv, TypeOK
<1>7. Progress'
  BY <1>1, <1>2, <1>3, OtpLimits DEF OtpInv, Progress
<1>8. Asking'
  <2>1. ASSUME NEW e \in Request, pc'[e] = "voided", NEW d \in Active(phone[e])' \ sees'[e]
        PROVE  d \in late' \/ at[e] + PhoneCooldown <= at[d]
    <3>1. e # c /\ pc[e] = "voided" /\ sees'[e] = sees[e]
      BY <1>1, <1>2, <2>1 DEF OtpInv, TypeOK
    <3>2. d \in Request /\ otp'[d] = "ACTIVE" /\ phone[d] = phone[e] /\ d \notin sees[e]
      BY <1>1, <2>1, <3>1 DEF Active
    <3>3. CASE d = c
      <4>1. at[e] + PhoneCooldown <= at[c] \/ at[c] + PhoneCooldown <= now
        BY <1>1, <3>1, <3>2, <3>3, OneIsSlow
      <4>2. QED
        BY <1>4, <3>3, <4>1
    <3>4. CASE d # c
      <4>1. d \in Active(phone[e]) \ sees[e]
        BY <1>3, <3>2, <3>4 DEF Active
      <4>2. d \in late \/ at[e] + PhoneCooldown <= at[d]
        BY <3>1, <4>1 DEF OtpInv, Asking
      <4>3. QED
        BY <1>4, <4>2
    <3>5. QED
      BY <3>3, <3>4
  <2>2. ASSUME NEW e \in Request PROVE \A d \in sees'[e] : otp'[d] # "NONE"
    <3>1. sees'[e] \subseteq sees[e] /\ sees[e] \subseteq Request
      BY <1>1 DEF OtpInv, TypeOK
    <3>2. QED
      BY <1>3, <3>1 DEF OtpInv, Asking
  <2>3. \A e \in Request : pc'[e] \in {"allowed", "voided"} => e \in asked'
    BY <1>1, <1>2 DEF OtpInv, Asking
  <2>4. QED
    BY <1>1, <2>1, <2>2, <2>3 DEF Asking
<1>9. Alone'
  <2>1. ASSUME NEW d \in Request, d # c, otp'[d] = "ACTIVE", phone[d] = phone[c]
        PROVE  c \in late' \/ d \in late'
    <3>1. d \in Active(phone[c]) \ sees[c]
      BY <1>3, <2>1 DEF Active
    <3>2. d \in late \/ at[c] + PhoneCooldown <= at[d]
      BY <1>1, <3>1 DEF OtpInv, Asking
    <3>3. /\ at[d] \in Nat /\ at[d] <= now /\ at[c] \in Nat /\ now \in Nat /\ PhoneCooldown \in Nat
      BY <1>1, <3>1, OtpLimits DEF OtpInv, Progress, TypeOK, Active
    <3>4. QED
      BY <1>4, <3>2, <3>3
  <2>2. ASSUME NEW d \in Request, NEW e \in Request, otp'[d] = "ACTIVE", otp'[e] = "ACTIVE",
               phone[d] = phone[e], d # e, d # c, e # c
        PROVE  d \in late' \/ e \in late'
    BY <1>3, <1>4, <2>2 DEF OtpInv, Alone
  <2>3. QED
    BY <1>1, <2>1, <2>2 DEF Alone
<1>10. Tries'
  BY <1>1, <1>3 DEF OtpInv, Tries, TypeOK
<1>11. QED
  BY <1>5, <1>6, <1>7, <1>8, <1>9, <1>10, QuietKeeps DEF OtpInv

LEMMA AskFailsKeeps ==
  ASSUME OtpInv, NEW c \in Request, AskFails(c) \/ Send(c)
  PROVE  OtpInv'
<1>1. PICK s \in {"done", "voiding"} :
      /\ pc[c] \in {"allowed", "voided", "sending"} /\ pc' = [pc EXCEPT ![c] = s]
      /\ s = "voiding" => pc[c] = "sending"
      /\ sees' = sees \/ sees' = [sees EXCEPT ![c] = {}]
      /\ UNCHANGED <<now, phoneHits, ipHits, verifyHits, calls, asked, phone, from, at, retryAt, refusedBy>>
      /\ UNCHANGED <<otp, late, attempts, compared, session>>
  BY DEF AskFails, Send, limiter, retry, rows
<1>2. pc'[c] = s /\ \A x \in (Request \cup Try) \ {c} : pc'[x] = pc[x]
  BY <1>1 DEF OtpInv, TypeOK
<1>3. Quiet
  BY <1>1, <1>2 DEF Quiet
<1>4. TypeOK'
  BY <1>1, <1>2 DEF OtpInv, TypeOK
<1>5. Progress'
  BY <1>1, <1>2, OtpLimits DEF OtpInv, Progress
<1>6. Asking'
  <2>1. \A d \in Request : sees'[d] \subseteq sees[d] /\ (d # c => sees'[d] = sees[d])
    BY <1>1 DEF OtpInv, TypeOK
  <2>2. \A p : Active(p)' = Active(p)
    BY <1>1 DEF Active
  <2>3. QED
    BY <1>1, <1>2, <2>1, <2>2 DEF OtpInv, Asking
<1>7. Alone' /\ Tries'
  BY <1>1 DEF OtpInv, Alone, Tries
<1>8. QED
  BY <1>3, <1>4, <1>5, <1>6, <1>7, QuietKeeps DEF OtpInv

LEMMA VoidUnsentKeeps ==
  ASSUME OtpInv, NEW c \in Request, VoidUnsent(c)
  PROVE  OtpInv'
<1>1. /\ pc[c] = "voiding" /\ pc' = [pc EXCEPT ![c] = "done"]
      /\ otp' = otp \/ otp' = [otp EXCEPT ![c] = "CONSUMED"]
      /\ UNCHANGED <<now, phoneHits, ipHits, verifyHits, calls, asked, phone, from, at, retryAt, refusedBy>>
      /\ UNCHANGED <<sees, late, attempts, compared, session>>
  BY DEF VoidUnsent, limiter, retry, OtpInv, TypeOK
<1>2. pc'[c] = "done" /\ \A x \in (Request \cup Try) \ {c} : pc'[x] = pc[x]
  BY <1>1 DEF OtpInv, TypeOK
<1>3. /\ otp'[c] = otp[c] \/ otp'[c] = "CONSUMED"
      /\ \A d \in Request \ {c} : otp'[d] = otp[d]
  BY <1>1 DEF OtpInv, TypeOK
<1>4. Quiet
  BY <1>1, <1>2 DEF Quiet
<1>5. TypeOK'
  BY <1>1, <1>2 DEF OtpInv, TypeOK
<1>6. Progress'
  BY <1>1, <1>2, <1>3, OtpLimits DEF OtpInv, Progress
<1>7. \A p : Active(p)' \subseteq Active(p)
  BY <1>1, <1>3 DEF Active
<1>8. Asking'
  BY <1>1, <1>2, <1>3, <1>7 DEF OtpInv, Asking, TypeOK
<1>9. Alone'
  BY <1>1, <1>3 DEF OtpInv, Alone
<1>10. Tries'
  BY <1>1, <1>3 DEF OtpInv, Tries, TypeOK
<1>11. QED
  BY <1>4, <1>5, <1>6, <1>8, <1>9, <1>10, QuietKeeps DEF OtpInv

(* What a verification changes: one code that is active.                   *)
LEMMA CheckKeeps ==
  ASSUME OtpInv, NEW v \in Try, CheckDone(v),
         TypeOK', Tries', UNCHANGED <<sees, late>>,
         \A d \in Request : otp'[d] = otp[d] \/ (otp[d] = "ACTIVE" /\ otp'[d] = "CONSUMED")
  PROVE  OtpInv'
<1>1. /\ pc[v] = "checking" /\ pc' = [pc EXCEPT ![v] = "done"]
      /\ UNCHANGED <<now, phoneHits, ipHits, verifyHits, calls, asked, phone, from, at, retryAt, refusedBy>>
  BY DEF CheckDone, limiter, retry
<1>2. pc'[v] = "done" /\ \A x \in (Request \cup Try) \ {v} : pc'[x] = pc[x]
  BY <1>1 DEF OtpInv, TypeOK
<1>3. Quiet
  BY <1>1, <1>2 DEF Quiet
<1>4. \A c \in Request : c # v /\ pc'[c] = pc[c]
  BY <1>2, OtpLimits
<1>5. Progress'
  BY <1>1, <1>2, <1>4 DEF OtpInv, Progress
<1>6. \A p : Active(p)' \subseteq Active(p)
  BY <1>1 DEF Active
<1>7. Asking'
  BY <1>1, <1>4, <1>6 DEF OtpInv, Asking, TypeOK
<1>8. Alone'
  BY <1>1 DEF OtpInv, Alone
<1>9. QED
  BY <1>3, <1>5, <1>7, <1>8, QuietKeeps DEF OtpInv

LEMMA OneMore ==
  ASSUME TypeOK, NEW c \in Request, NEW v \in Try
  PROVE  /\ IsFiniteSet(compared[c] \cup {v})
         /\ Cardinality(compared[c] \cup {v}) \in Nat
         /\ Cardinality(compared[c]) \in Nat
         /\ Cardinality(compared[c] \cup {v}) <= Cardinality(compared[c]) + 1
<1>1. IsFiniteSet(compared[c])
  BY HitsFinite
<1>2. /\ IsFiniteSet(compared[c] \cup {v})
      /\ Cardinality(compared[c] \cup {v}) =
           IF v \in compared[c] THEN Cardinality(compared[c]) ELSE Cardinality(compared[c]) + 1
  BY <1>1, FS_AddElement, Zenon
<1>3. Cardinality(compared[c]) \in Nat /\ Cardinality(compared[c] \cup {v}) \in Nat
  BY <1>1, <1>2, FS_CardinalityType
<1>4. QED
  BY <1>2, <1>3

LEMMA ChecksKeep ==
  ASSUME OtpInv, NEW v \in Try, NEW c \in Request,
         CheckExhausted(v, c) \/ CheckWrong(v, c) \/ CheckRight(v, c)
  PROVE  OtpInv'
<1>1. /\ CheckDone(v) /\ UNCHANGED <<sees, late>>
      /\ pc' = [pc EXCEPT ![v] = "done"]
      /\ UNCHANGED <<now, phoneHits, ipHits, verifyHits, calls, asked, phone, from, at, retryAt, refusedBy>>
  BY DEF CheckExhausted, CheckWrong, CheckRight, CheckDone, limiter, retry
<1>3. CASE CheckExhausted(v, c)
  <2>1. /\ otp[c] = "ACTIVE" /\ otp' = [otp EXCEPT ![c] = "CONSUMED"]
        /\ UNCHANGED <<attempts, compared, session>>
    BY <1>3 DEF CheckExhausted, Usable, Newest, Active
  <2>2. otp'[c] = "CONSUMED" /\ \A d \in Request \ {c} : otp'[d] = otp[d]
    BY <2>1 DEF OtpInv, TypeOK
  <2>3. TypeOK'
    BY <1>1, <2>1 DEF OtpInv, TypeOK
  <2>4. Tries'
    BY <1>1, <2>1, <2>2 DEF OtpInv, TypeOK, Tries
  <2>5. QED
    BY <1>1, <2>1, <2>2, <2>3, <2>4, CheckKeeps
<1>4. CASE CheckWrong(v, c)
  <2>1. /\ attempts[c] < MaxAttempts
        /\ attempts' = [attempts EXCEPT ![c] = @ + 1]
        /\ compared' = [compared EXCEPT ![c] = @ \cup {v}]
        /\ UNCHANGED <<otp, session>> /\ otp[c] = "ACTIVE"
        /\ attempts[c] \in Nat /\ MaxAttempts \in Nat
    BY <1>4, OtpLimits DEF CheckWrong, Exhausted, Usable, Newest, Active, OtpInv, TypeOK
  <2>2. /\ attempts'[c] = attempts[c] + 1 /\ compared'[c] = compared[c] \cup {v}
        /\ \A d \in Request \ {c} : attempts'[d] = attempts[d] /\ compared'[d] = compared[d]
    BY <2>1 DEF OtpInv, TypeOK
  <2>3. TypeOK'
    BY <1>1, <2>1, <2>2 DEF OtpInv, TypeOK
  <2>4. Tries'
    <3>1. Cardinality(compared'[c]) <= attempts'[c] /\ Cardinality(compared'[c]) <= MaxAttempts
      <4>1. Cardinality(compared[c]) <= attempts[c]
        BY <2>1 DEF OtpInv, Tries
      <4>2. QED
        BY <2>1, <2>2, <4>1, OneMore DEF OtpInv
    <3>2. QED
      BY <2>1, <2>2, <3>1 DEF OtpInv, Tries
  <2>5. QED
    BY <1>1, <2>1, <2>3, <2>4, CheckKeeps
<1>5. CASE CheckRight(v, c)
  <2>1. /\ attempts[c] < MaxAttempts /\ attempts[c] \in Nat /\ MaxAttempts \in Nat
        /\ compared' = [compared EXCEPT ![c] = @ \cup {v}]
        /\ otp[c] = "ACTIVE" /\ otp' = [otp EXCEPT ![c] = "CONSUMED"]
        /\ session' = session \/ session' = [session EXCEPT ![v] = c]
        /\ UNCHANGED attempts
    <3>1. attempts[c] < MaxAttempts /\ attempts[c] \in Nat /\ MaxAttempts \in Nat
      BY <1>5, OtpLimits DEF CheckRight, Exhausted, OtpInv, TypeOK
    <3>2. otp[c] = "ACTIVE"
      BY <1>5 DEF CheckRight, Usable, Newest, Active
    <3>3. session' = session \/ session' = [session EXCEPT ![v] = c]
      <4>1. PICK active \in BOOLEAN : session' = [session EXCEPT ![v] = IF active THEN c ELSE @]
        BY <1>5 DEF CheckRight
      <4>2. CASE active
        BY <4>1, <4>2
      <4>3. CASE ~active
        BY <4>1, <4>3 DEF OtpInv, TypeOK
      <4>4. QED
        BY <4>2, <4>3
    <3>4. QED
      BY <1>5, <3>1, <3>2, <3>3 DEF CheckRight
  <2>2. /\ otp'[c] = "CONSUMED" /\ compared'[c] = compared[c] \cup {v}
        /\ \A d \in Request \ {c} : otp'[d] = otp[d] /\ compared'[d] = compared[d]
    BY <2>1 DEF OtpInv, TypeOK
  <2>3. /\ session'[v] = session[v] \/ session'[v] = c
        /\ \A w \in Try \ {v} : session'[w] = session[w]
    BY <2>1 DEF OtpInv, TypeOK
  <2>4. TypeOK'
    <3>1. session' \in [Try -> Request \cup {Null}]
      BY <2>1 DEF OtpInv, TypeOK
    <3>2. /\ otp' \in [Request -> {"NONE", "ACTIVE", "CONSUMED"}]
          /\ compared' \in [Request -> SUBSET Try]
      BY <2>1 DEF OtpInv, TypeOK
    <3>3. QED
      BY <1>1, <2>1, <3>1, <3>2 DEF OtpInv, TypeOK
  <2>5. Tries'
    <3>1. Cardinality(compared'[c]) <= MaxAttempts
      <4>1. Cardinality(compared[c]) <= attempts[c]
        BY <2>1 DEF OtpInv, Tries
      <4>2. /\ Cardinality(compared[c] \cup {v}) \in Nat /\ Cardinality(compared[c]) \in Nat
            /\ Cardinality(compared[c] \cup {v}) <= Cardinality(compared[c]) + 1
        BY OneMore DEF OtpInv
      <4>3. Cardinality(compared[c] \cup {v}) <= MaxAttempts
        BY <2>1, <4>1, <4>2
      <4>4. QED
        BY <2>2, <4>3
    <3>2. \A w \in Try : session[w] # Null => session[w] \in Request /\ session[w] # c
      BY <2>1 DEF OtpInv, Tries, TypeOK
    <3>3. \A w \in Try : session'[w] # Null => otp'[session'[w]] = "CONSUMED"
      BY <2>2, <2>3, <3>2 DEF OtpInv, Tries
    <3>4. \A w, x \in Try : session'[w] # Null /\ session'[w] = session'[x] => w = x
      BY <2>3, <3>2 DEF OtpInv, Tries
    <3>5. QED
      BY <2>1, <2>2, <3>1, <3>3, <3>4 DEF OtpInv, Tries
  <2>6. QED
    BY <1>1, <2>1, <2>2, <2>4, <2>5, CheckKeeps
<1>6. QED
  BY <1>3, <1>4, <1>5

-----------------------------------------------------------------------------
LEMMA RestartKeeps ==
  ASSUME OtpInv, Restart
  PROVE  OtpInv'
<1>1. /\ pc' = [x \in Request \cup Try |-> IF pc[x] = "idle" THEN "idle" ELSE "done"]
      /\ phoneHits' = [p \in Phone |-> {}]
      /\ ipHits' = [i \in IP |-> {}] /\ verifyHits' = [i \in IP |-> {}]
      /\ calls' = 0 /\ asked' = {} /\ sees' = [c \in Request |-> {}]
      /\ retryAt' = [x \in Request \cup Try |-> Null]
      /\ refusedBy' = [x \in Request \cup Try |-> "none"]
      /\ UNCHANGED <<now, phone, from, at, otp, late, attempts, compared, session>>
  BY DEF Restart, rows, Forget
<1>2. /\ \A x \in Request \cup Try : pc'[x] \in {"idle", "done"} /\ (pc'[x] = "idle" <=> pc[x] = "idle")
      /\ \A x \in Request \cup Try : retryAt'[x] = Null
      /\ \A c \in Request : sees'[c] = {}
  BY <1>1
<1>3. TypeOK'
  BY <1>1 DEF OtpInv, TypeOK
<1>4. Progress'
  BY <1>1, <1>2 DEF OtpInv, Progress
<1>5. Kept' /\ Waits' /\ ListsBounded'
  <2>1. Kept' /\ Waits'
    BY <1>1, <1>2 DEF Kept, Waits
  <2>2. Cardinality({}) <= PhoneMax /\ Cardinality({}) <= IPMax /\ Cardinality({}) <= VerifyMax
    BY FS_EmptySet, OtpLimits
  <2>3. QED
    BY <1>1, <2>1, <2>2 DEF ListsBounded
<1>6. SendsBounded'
  <2>1. /\ Cardinality({}) <= PhoneMax /\ Cardinality({}) <= IPMax
    BY FS_EmptySet, OtpLimits
  <2>2. \A p : Recent({c \in asked : phone[c] = p}, PhoneWindow)' = {}
    BY <1>1 DEF Recent
  <2>3. \A i : Recent({c \in asked : from[c] = i}, IPWindow)' = {}
    BY <1>1 DEF Recent
  <2>4. \A p \in Phone : Cardinality(Recent({c \in asked : phone[c] = p}, PhoneWindow)') <= PhoneMax
    BY <2>1, <2>2, Zenon
  <2>5. \A i \in IP : Cardinality(Recent({c \in asked : from[c] = i}, IPWindow)') <= IPMax
    BY <2>1, <2>3, Zenon
  <2>6. QED
    BY <1>1, <2>4, <2>5 DEF SendsBounded
<1>7. Asking'
  BY <1>1, <1>2 DEF OtpInv, Asking
<1>8. Alone' /\ Tries'
  BY <1>1 DEF OtpInv, Alone, Tries
<1>9. QED
  BY <1>3, <1>4, <1>5, <1>6, <1>7, <1>8 DEF OtpInv

-----------------------------------------------------------------------------
(* What a call of the limiter leaves of a list that does not grow.         *)
PhoneShrinks(q) ==
  phoneHits'[q] \subseteq phoneHits[q] /\ Recent(phoneHits[q], PhoneWindow) \subseteq phoneHits'[q]
AddressShrinks(j) ==
  ipHits'[j] \subseteq ipHits[j] /\ Recent(ipHits[j], IPWindow) \subseteq ipHits'[j]
VerifyShrinks(j) ==
  verifyHits'[j] \subseteq verifyHits[j] /\ Recent(verifyHits[j], VerifyWindow) \subseteq verifyHits'[j]

LEMMA SweptShrink ==
  ASSUME TypeOK
  PROVE  /\ \A q \in Phone : phoneHits'[q] = SweptPhones[q] => PhoneShrinks(q)
         /\ \A q \in Phone : phoneHits'[q] = Recent(SweptPhones[q], PhoneWindow) => PhoneShrinks(q)
         /\ \A j \in IP : ipHits'[j] = SweptIPs[j] => AddressShrinks(j)
         /\ \A j \in IP : ipHits'[j] = Recent(SweptIPs[j], IPWindow) => AddressShrinks(j)
         /\ \A j \in IP : verifyHits'[j] = SweptVerify[j] => VerifyShrinks(j)
         /\ \A j \in IP : verifyHits'[j] = Recent(SweptVerify[j], VerifyWindow) => VerifyShrinks(j)
<1>1. \A S, T, w : Recent(S, w) \subseteq T => Recent(S, w) \subseteq Recent(T, w)
  BY RecentIs
<1>2. \A S, w : Recent(S, w) \subseteq S
  BY RecentIs
<1>3. \A q \in Phone : /\ SweptPhones[q] \subseteq phoneHits[q]
                       /\ Recent(phoneHits[q], PhoneWindow) \subseteq SweptPhones[q]
  BY SweepKeeps
<1>4. \A j \in IP : /\ SweptIPs[j] \subseteq ipHits[j] /\ SweptVerify[j] \subseteq verifyHits[j]
                    /\ Recent(ipHits[j], IPWindow) \subseteq SweptIPs[j]
                    /\ Recent(verifyHits[j], VerifyWindow) \subseteq SweptVerify[j]
  BY SweepKeeps
<1>5. ASSUME NEW q \in Phone
      PROVE  /\ phoneHits'[q] = SweptPhones[q] => PhoneShrinks(q)
             /\ phoneHits'[q] = Recent(SweptPhones[q], PhoneWindow) => PhoneShrinks(q)
  <2>1. /\ Recent(phoneHits[q], PhoneWindow) \subseteq Recent(SweptPhones[q], PhoneWindow)
        /\ Recent(SweptPhones[q], PhoneWindow) \subseteq SweptPhones[q]
    BY <1>1, <1>2, <1>3
  <2>2. QED
    BY <1>3, <2>1 DEF PhoneShrinks
<1>6. ASSUME NEW j \in IP
      PROVE  /\ ipHits'[j] = SweptIPs[j] => AddressShrinks(j)
             /\ ipHits'[j] = Recent(SweptIPs[j], IPWindow) => AddressShrinks(j)
  <2>1. /\ Recent(ipHits[j], IPWindow) \subseteq Recent(SweptIPs[j], IPWindow)
        /\ Recent(SweptIPs[j], IPWindow) \subseteq SweptIPs[j]
    BY <1>1, <1>2, <1>4
  <2>2. QED
    BY <1>4, <2>1 DEF AddressShrinks
<1>7. ASSUME NEW j \in IP
      PROVE  /\ verifyHits'[j] = SweptVerify[j] => VerifyShrinks(j)
             /\ verifyHits'[j] = Recent(SweptVerify[j], VerifyWindow) => VerifyShrinks(j)
  <2>1. /\ Recent(verifyHits[j], VerifyWindow) \subseteq Recent(SweptVerify[j], VerifyWindow)
        /\ Recent(SweptVerify[j], VerifyWindow) \subseteq SweptVerify[j]
    BY <1>1, <1>2, <1>4
  <2>2. QED
    BY <1>4, <2>1 DEF VerifyShrinks
<1>8. QED
  BY <1>5, <1>6, <1>7

LEMMA Grown ==
  ASSUME NEW c, NEW B, IsFiniteSet(B), NEW M \in Nat, ~(Cardinality(B) >= M), NEW A \in SUBSET (B \cup {c})
  PROVE  Cardinality(A) <= M
<1>1. /\ IsFiniteSet(B \cup {c})
      /\ Cardinality(B \cup {c}) = IF c \in B THEN Cardinality(B) ELSE Cardinality(B) + 1
  BY FS_AddElement, Zenon
<1>2. /\ Cardinality(A) \in Nat /\ Cardinality(B) \in Nat /\ Cardinality(A) <= Cardinality(B \cup {c})
  BY <1>1, Fewer
<1>3. QED
  BY <1>1, <1>2

(* A list stays bounded when it shrinks, and when a caller is added to one *)
(* that was not full.                                                      *)
LEMMA BoundedOn ==
  ASSUME TypeOK, ListsBounded, NEW x,
         \A q \in Phone : PhoneShrinks(q) \/ /\ ~PhoneFull(q)
                                             /\ phoneHits'[q] \subseteq Recent(phoneHits[q], PhoneWindow) \cup {x},
         \A j \in IP : AddressShrinks(j) \/ /\ ~IPFull(j)
                                            /\ ipHits'[j] \subseteq Recent(ipHits[j], IPWindow) \cup {x},
         \A j \in IP : VerifyShrinks(j) \/ /\ MayVerify(j)
                                           /\ verifyHits'[j] \subseteq Recent(verifyHits[j], VerifyWindow) \cup {x}
  PROVE  ListsBounded'
<1>1. PhoneMax \in Nat /\ IPMax \in Nat /\ VerifyMax \in Nat
  BY OtpLimits
<1>2. /\ \A q \in Phone : IsFiniteSet(phoneHits[q]) /\ IsFiniteSet(Recent(phoneHits[q], PhoneWindow))
      /\ \A j \in IP : /\ IsFiniteSet(ipHits[j]) /\ IsFiniteSet(Recent(ipHits[j], IPWindow))
                       /\ IsFiniteSet(verifyHits[j]) /\ IsFiniteSet(Recent(verifyHits[j], VerifyWindow))
  <2>1. \A S, w : Recent(S, w) \in SUBSET S
    BY RecentIs
  <2>2. \A q \in Phone : IsFiniteSet(phoneHits[q])
    BY HitsFinite
  <2>3. \A j \in IP : IsFiniteSet(ipHits[j]) /\ IsFiniteSet(verifyHits[j])
    BY HitsFinite
  <2>4. \A q \in Phone : IsFiniteSet(Recent(phoneHits[q], PhoneWindow))
    BY <2>1, <2>2, FS_Subset
  <2>5. \A j \in IP : IsFiniteSet(Recent(ipHits[j], IPWindow)) /\ IsFiniteSet(Recent(verifyHits[j], VerifyWindow))
    BY <2>1, <2>3, FS_Subset
  <2>6. QED
    BY <2>2, <2>3, <2>4, <2>5
<1>3. ASSUME NEW B, IsFiniteSet(B), NEW M \in Nat, Cardinality(B) <= M, NEW A \in SUBSET B
      PROVE  Cardinality(A) <= M
  BY <1>3, Fewer
<1>4. ASSUME NEW q \in Phone PROVE Cardinality(phoneHits'[q]) <= PhoneMax
  <2>1. CASE PhoneShrinks(q)
    BY <1>1, <1>2, <1>3, <2>1 DEF PhoneShrinks, ListsBounded
  <2>2. CASE ~PhoneFull(q) /\ phoneHits'[q] \subseteq Recent(phoneHits[q], PhoneWindow) \cup {x}
    BY <1>1, <1>2, <2>2, Grown DEF PhoneFull
  <2>3. QED
    BY <2>1, <2>2
<1>5. ASSUME NEW j \in IP PROVE Cardinality(ipHits'[j]) <= IPMax
  <2>1. CASE AddressShrinks(j)
    BY <1>1, <1>2, <1>3, <2>1 DEF AddressShrinks, ListsBounded
  <2>2. CASE ~IPFull(j) /\ ipHits'[j] \subseteq Recent(ipHits[j], IPWindow) \cup {x}
    BY <1>1, <1>2, <2>2, Grown DEF IPFull
  <2>3. QED
    BY <2>1, <2>2
<1>6. ASSUME NEW j \in IP PROVE Cardinality(verifyHits'[j]) <= VerifyMax
  <2>1. CASE VerifyShrinks(j)
    BY <1>1, <1>2, <1>3, <2>1 DEF VerifyShrinks, ListsBounded
  <2>2. CASE MayVerify(j) /\ verifyHits'[j] \subseteq Recent(verifyHits[j], VerifyWindow) \cup {x}
    <3>1. Cardinality(Recent(verifyHits[j], VerifyWindow)) \in Nat
      BY <1>2, FS_CardinalityType
    <3>2. ~(Cardinality(Recent(verifyHits[j], VerifyWindow)) >= VerifyMax)
      BY <1>1, <2>2, <3>1 DEF MayVerify
    <3>3. QED
      BY <1>1, <1>2, <2>2, <3>2, Grown
  <2>3. QED
    BY <2>1, <2>2
<1>7. QED
  BY <1>4, <1>5, <1>6 DEF ListsBounded

(* A wait goes on fitting when the list of its limit shrinks.              *)
LEMMA FitsShrunk ==
  ASSUME TypeOK, Progress, ListsBounded, NEW l \in Limits, NEW p \in Phone, NEW i \in IP,
         \A y \in Request \cup Try : at[y] # Null => at'[y] = at[y],
         l = "address" => AddressShrinks(i), l = "verify" => VerifyShrinks(i),
         l \in {"cooldown", "quota"} => PhoneShrinks(p),
         NEW r \in Nat, Fits(now, at, Hits(l, p, i), Lasts(l), Most(l), r)
  PROVE  Fits(now, at', Hits(l, p, i)', Lasts(l), Most(l), r)
<1>1. PICK S : S = Hits(l, p, i)
  OBVIOUS
<1>2. PICK T : T = Hits(l, p, i)'
  OBVIOUS
<1>3. /\ IsFiniteSet(S) /\ now \in Nat
      /\ \A x \in S : x \in Request \cup Try /\ at[x] \in Nat
  BY <1>1, HitsAre
<1>4. \A x \in S : at[x] \in Nat /\ at'[x] = at[x]
  BY <1>3, OtpLimits
<1>5. PICK w \in Nat : w = Lasts(l)
  BY LimitsAre
<1>6. PICK v \in Nat : v = Keeps(l) /\ w <= v
  BY <1>5, LimitsAre
<1>7. PICK m \in Nat : m = Most(l)
  BY LimitsAre
<1>8. T \in SUBSET S /\ Recent(S, v) \subseteq T
  <2>1. CASE l = "address"
    BY <1>1, <1>2, <1>6, <2>1 DEF AddressShrinks, Hits, Keeps, Lasts
  <2>2. CASE l = "verify"
    BY <1>1, <1>2, <1>6, <2>2 DEF VerifyShrinks, Hits, Keeps, Lasts
  <2>3. CASE l \in {"cooldown", "quota"}
    BY <1>1, <1>2, <1>6, <2>3 DEF PhoneShrinks, Hits, Keeps, Lasts
  <2>4. QED
    BY <2>1, <2>2, <2>3 DEF Limits
<1>9. \A x \in S : at[x] > now - v => x \in T
  BY <1>8, RecentIs
<1>10. Fits(now, at, S, w, m, r)
  BY <1>1, <1>5, <1>7
<1>11. Fits(now, at', T, w, m, r)
  BY <1>3, <1>4, <1>6, <1>8, <1>9, <1>10, FitsOn
<1>12. QED
  BY <1>2, <1>5, <1>7, <1>11

LEMMA WaitGoesOn ==
  ASSUME TypeOK, Progress, ListsBounded, NEW x \in Request \cup Try, retryAt[x] # Null, WaitOf(x),
         retryAt'[x] = retryAt[x], refusedBy'[x] = refusedBy[x],
         phone'[x] = phone[x], from'[x] = from[x], now' = now,
         \A y \in Request \cup Try : at[y] # Null => at'[y] = at[y],
         refusedBy[x] = "address" => AddressShrinks(from[x]),
         refusedBy[x] = "verify" => VerifyShrinks(from[x]),
         refusedBy[x] \in {"cooldown", "quota"} => PhoneShrinks(phone[x])
  PROVE  WaitOf(x)'
<1>1. PICK l \in Limits : l = refusedBy[x]
  BY DEF Progress, Limits
<1>2. PICK p \in Phone : p = phone[x]
  BY DEF Progress
<1>3. PICK i \in IP : i = from[x]
  BY DEF Progress
<1>4. PICK r \in Nat : r = retryAt[x]
  BY DEF TypeOK
<1>5. Fits(now, at, Hits(l, p, i), Lasts(l), Most(l), r)
  BY <1>1, <1>2, <1>3, <1>4 DEF WaitOf
<1>6. Fits(now, at', Hits(l, p, i)', Lasts(l), Most(l), r)
  BY <1>1, <1>2, <1>3, <1>4, <1>5, FitsShrunk
<1>7. /\ now' = now /\ refusedBy'[x] = l /\ phone'[x] = p /\ from'[x] = i /\ retryAt'[x] = r
  BY <1>1, <1>2, <1>3, <1>4
<1>8. QED
  BY <1>6, <1>7 DEF WaitOf, Hits

(* A refusal: the lists shrink, and the caller is told a wait that fits.   *)
LEMMA RefusedKeeps ==
  ASSUME OtpInv, NEW x \in Request \cup Try, NEW l \in Limits, NEW p \in Phone, NEW i \in IP,
         Refuses(l, p, i), x \in Request => l # "verify", x \in Try => l = "verify",
         pc[x] = "idle", pc' = [pc EXCEPT ![x] = "done"],
         phone' = [phone EXCEPT ![x] = p], from' = [from EXCEPT ![x] = i],
         Refuse(x, l, p, i),
         phoneHits' = [q \in Phone |-> phoneHits'[q]], ipHits' = [j \in IP |-> ipHits'[j]],
         verifyHits' = [j \in IP |-> verifyHits'[j]],
         \A q \in Phone : PhoneShrinks(q),
         \A j \in IP : AddressShrinks(j) /\ VerifyShrinks(j),
         calls' \in Nat,
         UNCHANGED <<now, at, sees, otp, late, attempts, compared, session, asked>>
  PROVE  OtpInv'
<1>t. TypeOK /\ Progress /\ ListsBounded
  BY DEF OtpInv
<1>1. PICK r \in Nat : /\ r = now + CeilSeconds(EndOf(l, p, i) - now)
                       /\ Fits(now, at, Hits(l, p, i), Lasts(l), Most(l), r)
  BY <1>t, RefusalFits
<1>2. retryAt' = [retryAt EXCEPT ![x] = r] /\ refusedBy' = [refusedBy EXCEPT ![x] = l]
  BY <1>1 DEF Refuse
<1>3. /\ pc'[x] = "done" /\ phone'[x] = p /\ from'[x] = i /\ retryAt'[x] = r /\ refusedBy'[x] = l
      /\ \A y \in (Request \cup Try) \ {x} :
           /\ pc'[y] = pc[y] /\ phone'[y] = phone[y] /\ from'[y] = from[y]
           /\ retryAt'[y] = retryAt[y] /\ refusedBy'[y] = refusedBy[y]
  BY <1>2, <1>t DEF TypeOK
<1>4. /\ at[x] = Null /\ x \notin asked
      /\ x \in Request => otp[x] = "NONE" /\ \A d \in Request : x \notin sees[d]
  BY DEF OtpInv, Progress, Asking
<1>5. TypeOK'
  <2>1. /\ phoneHits' \in [Phone -> SUBSET {c \in Request : at[c] # Null}]
        /\ ipHits' \in [IP -> SUBSET {c \in Request : at[c] # Null}]
        /\ verifyHits' \in [IP -> SUBSET {v \in Try : at[v] # Null}]
    <3>1. /\ \A q \in Phone : phoneHits'[q] \in SUBSET {c \in Request : at[c] # Null}
          /\ \A j \in IP : /\ ipHits'[j] \in SUBSET {c \in Request : at[c] # Null}
                           /\ verifyHits'[j] \in SUBSET {v \in Try : at[v] # Null}
      BY <1>t DEF TypeOK, PhoneShrinks, AddressShrinks, VerifyShrinks
    <3>2. QED
      BY <3>1
  <2>2. pc' \in [Request \cup Try -> {"idle", "allowed", "voided", "sending", "voiding", "checking", "done"}]
    BY <1>t DEF TypeOK
  <2>3. /\ phone' \in [Request \cup Try -> Phone \cup {Null}]
        /\ from' \in [Request \cup Try -> IP \cup {Null}]
        /\ retryAt' \in [Request \cup Try -> Nat \cup {Null}]
    BY <1>2, <1>t DEF TypeOK
  <2>4. refusedBy' \in [Request \cup Try -> {"none", "address", "cooldown", "quota", "verify"}]
    BY <1>2, <1>t DEF TypeOK, Limits
  <2>5. QED
    BY <1>t, <2>1, <2>2, <2>3, <2>4 DEF TypeOK
<1>6. Progress'
  <2>0. r # Null /\ Request \cap Try = {}
    BY OtpLimits
  <2>1. \A y \in Request \cup Try :
          /\ at'[y] # Null => at'[y] <= now' /\ phone'[y] \in Phone /\ from'[y] \in IP
          /\ pc'[y] = "idle" => at'[y] = Null /\ retryAt'[y] = Null
          /\ retryAt'[y] # Null => phone'[y] \in Phone /\ from'[y] \in IP
    BY <1>3, <1>4, <1>t DEF Progress
  <2>2. \A c \in Request :
          /\ pc'[c] \in {"allowed", "voided", "sending", "voiding"} => at'[c] # Null
          /\ retryAt'[c] # Null => refusedBy'[c] \in Limits \ {"verify"}
          /\ otp'[c] # "NONE" => at'[c] # Null
          /\ pc'[c] \in {"idle", "allowed", "voided"} => otp'[c] = "NONE"
    BY <1>3, <1>t DEF Progress
  <2>3. \A v \in Try :
          /\ pc'[v] = "checking" => at'[v] # Null
          /\ retryAt'[v] # Null => refusedBy'[v] = "verify"
    BY <1>3, <1>t DEF Progress
  <2>4. asked' \subseteq {c \in Request : at'[c] # Null}
    BY <1>t DEF Progress
  <2>5. QED
    BY <2>1, <2>2, <2>3, <2>4 DEF Progress
<1>7. Kept'
  <2>1. ASSUME NEW d \in asked PROVE /\ d \in Request \ {x} /\ phone[d] \in Phone /\ from[d] \in IP
                                    /\ at[d] \in Nat /\ now \in Nat
    BY <1>4, <1>t DEF Progress, TypeOK
  <2>2. QED
    BY <1>3, <2>1, RecentIs, OtpLimits DEF OtpInv, Kept, PhoneShrinks, AddressShrinks
<1>8. ListsBounded'
  BY <1>t, BoundedOn
<1>9. SendsBounded'
  <2>1. \A d \in asked : phone'[d] = phone[d] /\ from'[d] = from[d]
    BY <1>3, <1>4, <1>t DEF Progress
  <2>2. /\ \A q \in Phone : OfPhone(q)' = OfPhone(q) /\ AskedBy(q)' = AskedBy(q)
        /\ \A j \in IP : OfAddress(j)' = OfAddress(j)
    BY <2>1 DEF OfPhone, OfAddress, AskedBy, Recent
  <2>3. QED
    BY <2>2, QuotasMean DEF OtpInv, Spaced
<1>10. \A d \in Request : otp[d] # "NONE" \/ pc[d] = "voided" => phone'[d] = phone[d] /\ pc'[d] = pc[d]
  BY <1>3, <1>4
<1>11. Asking'
  <2>1. ASSUME NEW d \in Request, pc'[d] = "voided",
               NEW e \in Request, otp[e] = "ACTIVE", phone'[e] = phone'[d], e \notin sees[d]
        PROVE  e \in late \/ at[d] + PhoneCooldown <= at[e]
    <3>1. d # x /\ pc[d] = "voided" /\ phone'[d] = phone[d]
      BY <1>3, <2>1
    <3>2. phone'[e] = phone[e]
      BY <1>10, <2>1
    <3>3. e \in Active(phone[d]) \ sees[d]
      BY <2>1, <3>1, <3>2 DEF Active
    <3>4. QED
      BY <3>1, <3>3 DEF OtpInv, Asking
  <2>2. \A d \in Request : pc'[d] \in {"allowed", "voided"} => d \in asked
    BY <1>3 DEF OtpInv, Asking
  <2>3. \A d \in Request : \A e \in sees[d] : otp[e] # "NONE"
    BY DEF OtpInv, Asking
  <2>4. QED
    BY <2>1, <2>2, <2>3 DEF Asking, Active
<1>12. Alone' /\ Tries'
  BY <1>10 DEF OtpInv, Alone, Tries
<1>13. Waits'
  <2>1. ASSUME NEW y \in (Request \cup Try) \ {x}, retryAt'[y] # Null PROVE WaitOf(y)'
    <3>1. /\ retryAt[y] # Null /\ retryAt'[y] = retryAt[y] /\ refusedBy'[y] = refusedBy[y]
          /\ phone'[y] = phone[y] /\ from'[y] = from[y] /\ phone[y] \in Phone /\ from[y] \in IP
      BY <1>3, <1>t, <2>1 DEF Progress
    <3>2. WaitOf(y)
      BY <3>1 DEF OtpInv, Waits
    <3>3. QED
      BY <1>t, <3>1, <3>2, WaitGoesOn
  <2>2. WaitOf(x)'
    <3>1. Fits(now, at', Hits(l, p, i)', Lasts(l), Most(l), r)
      BY <1>1, <1>t, FitsShrunk
    <3>2. QED
      BY <1>3, <3>1 DEF WaitOf, Hits
  <2>3. QED
    BY <2>1, <2>2 DEF Waits
<1>14. QED
  BY <1>5, <1>6, <1>7, <1>8, <1>9, <1>11, <1>12, <1>13 DEF OtpInv

LEMMA AskRefusedKeeps ==
  ASSUME OtpInv, NEW c \in Request, NEW p \in Phone, NEW i \in IP, AskRefused(c, p, i)
  PROVE  OtpInv'
<1>t. TypeOK
  BY DEF OtpInv
<1>1. /\ pc[c] = "idle" /\ ~MayAsk(p, i) /\ pc' = [pc EXCEPT ![c] = "done"]
      /\ phone' = [phone EXCEPT ![c] = p] /\ from' = [from EXCEPT ![c] = i]
      /\ Refuse(c, Refusal(p, i), p, i)
      /\ ipHits' = [SweptIPs EXCEPT ![i] = IF IPFull(i) THEN Recent(@, IPWindow) ELSE @]
      /\ phoneHits' = [SweptPhones EXCEPT ![p] = IF IPFull(i) THEN @ ELSE Recent(@, PhoneWindow)]
      /\ verifyHits' = SweptVerify /\ calls' = (calls + 1) % SweepEvery
      /\ UNCHANGED <<now, at, sees, otp, late, attempts, compared, session, asked>>
  BY DEF AskRefused, Count, rows
<1>2. PICK l \in Limits : l = Refusal(p, i) /\ l # "verify" /\ Refuses(l, p, i)
  BY <1>1, RefusalRefuses
<1>3. /\ phoneHits' = [q \in Phone |-> phoneHits'[q]] /\ ipHits' = [j \in IP |-> ipHits'[j]]
      /\ verifyHits' = [j \in IP |-> verifyHits'[j]] /\ calls' \in Nat
  BY <1>1, <1>t, SweepKeeps
<1>4. \A q \in Phone : phoneHits'[q] = SweptPhones[q] \/ phoneHits'[q] = Recent(SweptPhones[q], PhoneWindow)
  BY <1>1, <1>t, SweepKeeps
<1>5. \A j \in IP : /\ ipHits'[j] = SweptIPs[j] \/ ipHits'[j] = Recent(SweptIPs[j], IPWindow)
                    /\ verifyHits'[j] = SweptVerify[j]
  BY <1>1, <1>t, SweepKeeps
<1>6. (\A q \in Phone : PhoneShrinks(q)) /\ (\A j \in IP : AddressShrinks(j) /\ VerifyShrinks(j))
  BY <1>4, <1>5, <1>t, SweptShrink
<1>7. Refuse(c, l, p, i) /\ c \notin Try
  BY <1>1, <1>2, OtpLimits
<1>8. QED
  BY <1>1, <1>2, <1>3, <1>6, <1>7, RefusedKeeps

LEMMA VerifyRefusedKeeps ==
  ASSUME OtpInv, NEW v \in Try, NEW p \in Phone, NEW i \in IP, VerifyRefused(v, p, i)
  PROVE  OtpInv'
<1>t. TypeOK
  BY DEF OtpInv
<1>1. /\ pc[v] = "idle" /\ ~MayVerify(i) /\ pc' = [pc EXCEPT ![v] = "done"]
      /\ phone' = [phone EXCEPT ![v] = p] /\ from' = [from EXCEPT ![v] = i]
      /\ Refuse(v, "verify", p, i)
      /\ verifyHits' = [SweptVerify EXCEPT ![i] = Recent(@, VerifyWindow)]
      /\ ipHits' = SweptIPs /\ phoneHits' = SweptPhones /\ calls' = (calls + 1) % SweepEvery
      /\ UNCHANGED <<now, at, sees, otp, late, attempts, compared, session, asked>>
  BY DEF VerifyRefused, Count, rows
<1>2. PICK l \in Limits : l = "verify" /\ Refuses(l, p, i)
  BY <1>1 DEF Limits, Refuses
<1>3. /\ phoneHits' = [q \in Phone |-> phoneHits'[q]] /\ ipHits' = [j \in IP |-> ipHits'[j]]
      /\ verifyHits' = [j \in IP |-> verifyHits'[j]] /\ calls' \in Nat
  BY <1>1, <1>t, SweepKeeps
<1>4. \A q \in Phone : phoneHits'[q] = SweptPhones[q]
  BY <1>1
<1>5. \A j \in IP : /\ verifyHits'[j] = SweptVerify[j] \/ verifyHits'[j] = Recent(SweptVerify[j], VerifyWindow)
                    /\ ipHits'[j] = SweptIPs[j]
  BY <1>1, <1>t, SweepKeeps
<1>6. (\A q \in Phone : PhoneShrinks(q)) /\ (\A j \in IP : AddressShrinks(j) /\ VerifyShrinks(j))
  BY <1>4, <1>5, <1>t, SweptShrink
<1>7. Refuse(v, l, p, i) /\ v \notin Request
  BY <1>1, <1>2, OtpLimits
<1>8. QED
  BY <1>1, <1>2, <1>3, <1>6, <1>7, RefusedKeeps

LEMMA AskAllowedKeeps ==
  ASSUME OtpInv, NEW c \in Request, NEW p \in Phone, NEW i \in IP, AskAllowed(c, p, i)
  PROVE  OtpInv'
<1>t. TypeOK /\ Progress /\ ListsBounded
  BY DEF OtpInv
<1>0. PICK F \in SUBSET Request :
        /\ F = {d \in Request : IF refusedBy[d] = "address" THEN from[d] = i ELSE phone[d] = p}
        /\ retryAt' = [x \in Request \cup Try |-> IF x \in F THEN Null ELSE retryAt[x]]
        /\ refusedBy' = [x \in Request \cup Try |-> IF x \in F THEN "none" ELSE refusedBy[x]]
  BY DEF AskAllowed, Forget
<1>1. /\ pc[c] = "idle" /\ MayAsk(p, i) /\ pc' = [pc EXCEPT ![c] = "allowed"]
      /\ phone' = [phone EXCEPT ![c] = p] /\ from' = [from EXCEPT ![c] = i]
      /\ at' = [at EXCEPT ![c] = now]
      /\ ipHits' = [SweptIPs EXCEPT ![i] = Recent(@, IPWindow) \cup {c}]
      /\ phoneHits' = [SweptPhones EXCEPT ![p] = Recent(@, PhoneWindow) \cup {c}]
      /\ verifyHits' = SweptVerify /\ calls' = (calls + 1) % SweepEvery
      /\ asked' = asked \cup {c}
      /\ UNCHANGED <<now, sees, otp, late, attempts, compared, session>>
  BY DEF AskAllowed, Count, rows
<1>2. /\ pc'[c] = "allowed" /\ phone'[c] = p /\ from'[c] = i /\ at'[c] = now /\ now \in Nat
      /\ \A x \in (Request \cup Try) \ {c} : /\ pc'[x] = pc[x] /\ phone'[x] = phone[x]
                                          /\ from'[x] = from[x] /\ at'[x] = at[x]
      /\ \A x \in Request \cup Try : \/ retryAt'[x] = Null
                                     \/ retryAt'[x] = retryAt[x] /\ refusedBy'[x] = refusedBy[x]
  BY <1>0, <1>1, <1>t DEF TypeOK
<1>3. /\ at[c] = Null /\ otp[c] = "NONE" /\ c \notin asked /\ retryAt[c] = Null
      /\ \A d \in Request : c \notin sees[d]
      /\ now # Null /\ retryAt'[c] = Null
  BY <1>0, <1>1, <1>2, OtpLimits DEF OtpInv, Progress, Asking
<1>4. \A x \in Request \cup Try : at[x] # Null => at'[x] = at[x] /\ x # c
  BY <1>2, <1>3
<1>5. /\ \A q \in Phone \ {p} : PhoneShrinks(q)
      /\ \A j \in IP \ {i} : AddressShrinks(j)
      /\ \A j \in IP : VerifyShrinks(j)
      /\ phoneHits'[p] = Recent(SweptPhones[p], PhoneWindow) \cup {c}
      /\ ipHits'[i] = Recent(SweptIPs[i], IPWindow) \cup {c}
      /\ phoneHits' = [q \in Phone |-> phoneHits'[q]] /\ ipHits' = [j \in IP |-> ipHits'[j]]
      /\ verifyHits' = [j \in IP |-> verifyHits'[j]] /\ calls' \in Nat
  <2>1. /\ phoneHits' = [q \in Phone |-> phoneHits'[q]] /\ ipHits' = [j \in IP |-> ipHits'[j]]
        /\ verifyHits' = [j \in IP |-> verifyHits'[j]] /\ calls' \in Nat
    BY <1>1, <1>t, SweepKeeps
  <2>2. /\ \A q \in Phone \ {p} : phoneHits'[q] = SweptPhones[q]
        /\ phoneHits'[p] = Recent(SweptPhones[p], PhoneWindow) \cup {c}
    BY <1>1, <1>t, SweepKeeps
  <2>3. /\ \A j \in IP \ {i} : ipHits'[j] = SweptIPs[j]
        /\ ipHits'[i] = Recent(SweptIPs[i], IPWindow) \cup {c}
        /\ \A j \in IP : verifyHits'[j] = SweptVerify[j]
    BY <1>1, <1>t, SweepKeeps
  <2>4. QED
    BY <1>t, <2>1, <2>2, <2>3, SweptShrink
<1>6. /\ \A q \in Phone : Recent(phoneHits[q], PhoneWindow) \subseteq phoneHits'[q]
      /\ \A j \in IP : Recent(ipHits[j], IPWindow) \subseteq ipHits'[j]
      /\ c \in phoneHits'[p] /\ c \in ipHits'[i]
      /\ phoneHits'[p] \subseteq Recent(phoneHits[p], PhoneWindow) \cup {c}
      /\ ipHits'[i] \subseteq Recent(ipHits[i], IPWindow) \cup {c}
  <2>1. /\ SweptPhones[p] \subseteq phoneHits[p] /\ Recent(phoneHits[p], PhoneWindow) \subseteq SweptPhones[p]
        /\ SweptIPs[i] \subseteq ipHits[i] /\ Recent(ipHits[i], IPWindow) \subseteq SweptIPs[i]
    BY <1>t, SweepKeeps
  <2>2. /\ Recent(SweptPhones[p], PhoneWindow) = Recent(phoneHits[p], PhoneWindow)
        /\ Recent(SweptIPs[i], IPWindow) = Recent(ipHits[i], IPWindow)
    <3>1. ASSUME NEW S, NEW T, NEW w, T \subseteq S, Recent(S, w) \subseteq T
          PROVE  Recent(T, w) = Recent(S, w)
      <4>1. \A d : d \in Recent(T, w) <=> d \in Recent(S, w)
        BY <3>1, RecentIs, Zenon
      <4>. QED  BY <4>1
    <3>2. QED
      BY <2>1, <3>1
  <2>3. QED
    BY <1>5, <2>2 DEF PhoneShrinks, AddressShrinks
<1>7. TypeOK'
  <2>1. /\ {d \in Request : at[d] # Null} \cup {c} \subseteq {d \in Request : at'[d] # Null}
        /\ {v \in Try : at[v] # Null} \subseteq {v \in Try : at'[v] # Null}
        /\ \A S, w : Recent(S, w) \subseteq S
    BY <1>2, <1>3, <1>4, RecentIs
  <2>2. /\ \A q \in Phone : phoneHits'[q] \subseteq phoneHits[q] \cup {c}
        /\ \A j \in IP : ipHits'[j] \subseteq ipHits[j] \cup {c} /\ verifyHits'[j] \subseteq verifyHits[j]
    BY <1>5, <1>6, <2>1 DEF PhoneShrinks, AddressShrinks, VerifyShrinks
  <2>3. /\ \A q \in Phone : phoneHits'[q] \in SUBSET {d \in Request : at'[d] # Null}
        /\ \A j \in IP : /\ ipHits'[j] \in SUBSET {d \in Request : at'[d] # Null}
                         /\ verifyHits'[j] \in SUBSET {v \in Try : at'[v] # Null}
    <3>1. /\ \A q \in Phone : phoneHits[q] \subseteq {d \in Request : at[d] # Null}
          /\ \A j \in IP : /\ ipHits[j] \subseteq {d \in Request : at[d] # Null}
                           /\ verifyHits[j] \subseteq {v \in Try : at[v] # Null}
      BY <1>t DEF TypeOK
    <3>2. QED
      BY <2>1, <2>2, <3>1
  <2>4. /\ phoneHits' \in [Phone -> SUBSET {d \in Request : at'[d] # Null}]
        /\ ipHits' \in [IP -> SUBSET {d \in Request : at'[d] # Null}]
        /\ verifyHits' \in [IP -> SUBSET {v \in Try : at'[v] # Null}]
    BY <1>5, <2>3
  <2>5. /\ retryAt' \in [Request \cup Try -> Nat \cup {Null}]
        /\ refusedBy' \in [Request \cup Try -> {"none", "address", "cooldown", "quota", "verify"}]
    BY <1>0, <1>t DEF TypeOK
  <2>6. /\ pc' \in [Request \cup Try -> {"idle", "allowed", "voided", "sending", "voiding", "checking", "done"}]
        /\ phone' \in [Request \cup Try -> Phone \cup {Null}]
        /\ from' \in [Request \cup Try -> IP \cup {Null}]
        /\ at' \in [Request \cup Try -> Nat \cup {Null}]
    BY <1>1, <1>t DEF TypeOK
  <2>7. QED
    BY <1>1, <1>5, <1>t, <2>4, <2>5, <2>6 DEF TypeOK
<1>8. Progress'
  <2>0. c \notin Try
    BY OtpLimits
  <2>1. \A y \in Request \cup Try :
          /\ at'[y] # Null => at'[y] <= now' /\ phone'[y] \in Phone /\ from'[y] \in IP
          /\ pc'[y] = "idle" => at'[y] = Null /\ retryAt'[y] = Null
          /\ retryAt'[y] # Null => phone'[y] \in Phone /\ from'[y] \in IP
    BY <1>1, <1>2, <1>3, <1>t DEF Progress
  <2>2. \A d \in Request :
          /\ pc'[d] \in {"allowed", "voided", "sending", "voiding"} => at'[d] # Null
          /\ retryAt'[d] # Null => refusedBy'[d] \in Limits \ {"verify"}
          /\ otp'[d] # "NONE" => at'[d] # Null
          /\ pc'[d] \in {"idle", "allowed", "voided"} => otp'[d] = "NONE"
    BY <1>1, <1>2, <1>3, <1>t DEF Progress
  <2>3. \A v \in Try :
          /\ pc'[v] = "checking" => at'[v] # Null
          /\ retryAt'[v] # Null => refusedBy'[v] = "verify"
    BY <1>2, <1>t, <2>0 DEF Progress
  <2>4. asked' \subseteq {d \in Request : at'[d] # Null}
    BY <1>1, <1>2, <1>3, <1>4, <1>t DEF Progress
  <2>5. QED
    BY <2>1, <2>2, <2>3, <2>4 DEF Progress
<1>9. /\ \A d \in asked : /\ d \in Request \ {c} /\ phone[d] \in Phone /\ from[d] \in IP
                         /\ phone'[d] = phone[d] /\ from'[d] = from[d]
                         /\ at[d] \in Nat /\ at'[d] = at[d] /\ at[d] <= now
      /\ PhoneWindow \in Nat /\ IPWindow \in Nat /\ PhoneCooldown \in Nat /\ PhoneCooldown <= PhoneWindow
      /\ PhoneMax \in Nat /\ IPMax \in Nat
  BY <1>2, <1>3, <1>t, OtpLimits, LimitsInOrder DEF Progress, TypeOK
<1>10. Kept'
  BY <1>1, <1>2, <1>6, <1>9, RecentIs DEF OtpInv, Kept
<1>11. ListsBounded'
  <2>1. ~PhoneFull(p) /\ ~IPFull(i)
    BY <1>1 DEF MayAsk
  <2>2. QED
    BY <1>5, <1>6, <1>t, <2>1, BoundedOn
<1>12. /\ OfPhone(p) \subseteq Recent(phoneHits[p], PhoneWindow)
       /\ OfAddress(i) \subseteq Recent(ipHits[i], IPWindow)
  BY <1>2, <1>9 DEF OtpInv, Kept, OfPhone, OfAddress, AskedBy, Recent
<1>13. /\ OfPhone(p)' \subseteq OfPhone(p) \cup {c} /\ OfAddress(i)' \subseteq OfAddress(i) \cup {c}
       /\ AskedBy(p)' = AskedBy(p) \cup {c}
       /\ \A q \in Phone \ {p} : OfPhone(q)' = OfPhone(q) /\ AskedBy(q)' = AskedBy(q)
       /\ \A j \in IP \ {i} : OfAddress(j)' = OfAddress(j)
       /\ \A q : AskedBy(q) \subseteq asked
  BY <1>1, <1>2, <1>9 DEF OfPhone, OfAddress, AskedBy, Recent
<1>14. SendsBounded'
  <2>1. Cardinality(OfPhone(p)') <= PhoneMax
    <3>1. ~(Cardinality(Recent(phoneHits[p], PhoneWindow)) >= PhoneMax)
      BY <1>1 DEF MayAsk, PhoneFull
    <3>2. IsFiniteSet(Recent(phoneHits[p], PhoneWindow))
      BY <1>t, HitsFinite, FS_Subset DEF Recent
    <3>3. OfPhone(p)' \in SUBSET (Recent(phoneHits[p], PhoneWindow) \cup {c})
      BY <1>12, <1>13
    <3>4. QED
      BY <1>9, <3>1, <3>2, <3>3, Grown
  <2>2. Cardinality(OfAddress(i)') <= IPMax
    <3>1. ~(Cardinality(Recent(ipHits[i], IPWindow)) >= IPMax)
      BY <1>1 DEF MayAsk, IPFull
    <3>2. IsFiniteSet(Recent(ipHits[i], IPWindow))
      BY <1>t, HitsFinite, FS_Subset DEF Recent
    <3>3. OfAddress(i)' \in SUBSET (Recent(ipHits[i], IPWindow) \cup {c})
      BY <1>12, <1>13
    <3>4. QED
      BY <1>9, <3>1, <3>2, <3>3, Grown
  <2>3. ASSUME NEW d \in AskedBy(p) PROVE at[d] + PhoneCooldown <= now /\ d # c /\ at'[d] = at[d]
    <3>1. d \in asked /\ phone[d] = p /\ at[d] \in Nat /\ d # c /\ at'[d] = at[d]
      BY <1>9, <2>3 DEF AskedBy
    <3>2. CASE at[d] + PhoneWindow <= now
      BY <1>2, <1>9, <3>1, <3>2
    <3>3. CASE ~(at[d] + PhoneWindow <= now)
      <4>1. at[d] + PhoneWindow > now /\ at[d] > now - PhoneWindow
        BY <1>2, <1>9, <3>1, <3>3
      <4>2. d \in Recent(phoneHits[p], PhoneWindow)
        BY <3>1, <4>1, RecentIs DEF OtpInv, Kept
      <4>3. ~(at[d] + PhoneCooldown > now)
        BY <1>1, <4>2 DEF MayAsk, Cooling
      <4>4. QED
        BY <1>2, <1>9, <3>1, <4>3
    <3>4. QED
      BY <3>2, <3>3
  <2>4. Spaced(AskedBy(p))'
    <3>1. SUFFICES ASSUME NEW d \in AskedBy(p) \cup {c}, NEW e \in AskedBy(p) \cup {c}, d # e
                   PROVE  at'[d] + PhoneCooldown <= at'[e] \/ at'[e] + PhoneCooldown <= at'[d]
      BY <1>13 DEF Spaced
    <3>2. CASE d = c
      BY <1>2, <2>3, <3>1, <3>2
    <3>3. CASE e = c
      BY <1>2, <2>3, <3>1, <3>3
    <3>4. CASE d # c /\ e # c
      BY <2>3, <3>1, <3>4, QuotasMean DEF OtpInv, Spaced
    <3>5. QED
      BY <3>2, <3>3, <3>4
  <2>5. \A q \in Phone \ {p} : Cardinality(OfPhone(q)') <= PhoneMax /\ Spaced(AskedBy(q))'
    BY <1>9, <1>13, QuotasMean DEF OtpInv, Spaced
  <2>6. \A j \in IP \ {i} : Cardinality(OfAddress(j)') <= IPMax
    BY <1>13, QuotasMean DEF OtpInv
  <2>7. QED
    BY <2>1, <2>2, <2>4, <2>5, <2>6, QuotasMean
<1>15. \A q : Active(q)' = Active(q)
  BY <1>1, <1>2, <1>3 DEF Active
<1>16. Asking'
  <2>1. ASSUME NEW d \in Request, pc'[d] = "voided",
               NEW e \in Request, otp[e] = "ACTIVE", phone'[e] = phone'[d], e \notin sees[d]
        PROVE  e \in late \/ at'[d] + PhoneCooldown <= at'[e]
    <3>1. d # c /\ e # c
      BY <1>2, <1>3, <2>1
    <3>2. e \in Active(phone[d]) \ sees[d] /\ pc[d] = "voided"
      BY <1>2, <2>1, <3>1 DEF Active
    <3>3. QED
      BY <1>2, <3>1, <3>2 DEF OtpInv, Asking
  <2>2. \A d \in Request : pc'[d] \in {"allowed", "voided"} => d \in asked'
    BY <1>1, <1>2 DEF OtpInv, Asking
  <2>3. \A d \in Request : \A e \in sees[d] : otp[e] # "NONE"
    BY DEF OtpInv, Asking
  <2>4. QED
    BY <1>1, <2>1, <2>2, <2>3 DEF Asking, Active
<1>17. Alone' /\ Tries'
  BY <1>1, <1>2, <1>3 DEF OtpInv, Alone, Tries
<1>18. Waits'
  <2>1. ASSUME NEW x \in Request \cup Try, retryAt'[x] # Null PROVE WaitOf(x)'
    <3>1. /\ x # c /\ x \notin F /\ retryAt[x] # Null /\ retryAt'[x] = retryAt[x]
          /\ refusedBy'[x] = refusedBy[x] /\ phone'[x] = phone[x] /\ from'[x] = from[x]
          /\ phone[x] \in Phone /\ from[x] \in IP
      BY <1>0, <1>2, <1>3, <1>t, <2>1 DEF Progress
    <3>2. WaitOf(x)
      BY <3>1 DEF OtpInv, Waits
    <3>3. /\ refusedBy[x] = "address" => x \in Request
          /\ refusedBy[x] \in {"cooldown", "quota"} => x \in Request
      BY <1>t, <3>1 DEF Progress
    <3>4. /\ refusedBy[x] = "address" => AddressShrinks(from[x])
          /\ refusedBy[x] = "verify" => VerifyShrinks(from[x])
          /\ refusedBy[x] \in {"cooldown", "quota"} => PhoneShrinks(phone[x])
      BY <1>0, <1>5, <3>1, <3>3
    <3>5. QED
      BY <1>1, <1>4, <1>t, <3>1, <3>2, <3>4, WaitGoesOn
  <2>2. QED
    BY <2>1 DEF Waits
<1>19. QED
  BY <1>7, <1>8, <1>10, <1>11, <1>14, <1>16, <1>17, <1>18 DEF OtpInv

LEMMA VerifyAllowedKeeps ==
  ASSUME OtpInv, NEW v \in Try, NEW p \in Phone, NEW i \in IP, VerifyAllowed(v, p, i)
  PROVE  OtpInv'
<1>t. TypeOK /\ Progress /\ ListsBounded
  BY DEF OtpInv
<1>0. PICK F \in SUBSET Try :
        /\ F = {w \in Try : from[w] = i}
        /\ retryAt' = [x \in Request \cup Try |-> IF x \in F THEN Null ELSE retryAt[x]]
        /\ refusedBy' = [x \in Request \cup Try |-> IF x \in F THEN "none" ELSE refusedBy[x]]
  BY DEF VerifyAllowed, Forget
<1>1. /\ pc[v] = "idle" /\ MayVerify(i) /\ pc' = [pc EXCEPT ![v] = "checking"]
      /\ phone' = [phone EXCEPT ![v] = p] /\ from' = [from EXCEPT ![v] = i]
      /\ at' = [at EXCEPT ![v] = now]
      /\ verifyHits' = [SweptVerify EXCEPT ![i] = Recent(@, VerifyWindow) \cup {v}]
      /\ ipHits' = SweptIPs /\ phoneHits' = SweptPhones /\ calls' = (calls + 1) % SweepEvery
      /\ UNCHANGED <<now, sees, otp, late, attempts, compared, session, asked>>
  BY DEF VerifyAllowed, Count, rows
<1>2. /\ pc'[v] = "checking" /\ phone'[v] = p /\ from'[v] = i /\ at'[v] = now /\ now \in Nat
      /\ \A x \in (Request \cup Try) \ {v} : /\ pc'[x] = pc[x] /\ phone'[x] = phone[x]
                                          /\ from'[x] = from[x] /\ at'[x] = at[x]
      /\ \A x \in Request \cup Try : \/ retryAt'[x] = Null
                                     \/ retryAt'[x] = retryAt[x] /\ refusedBy'[x] = refusedBy[x]
  BY <1>0, <1>1, <1>t DEF TypeOK
<1>3. /\ at[v] = Null /\ retryAt[v] = Null /\ now # Null /\ retryAt'[v] = Null
      /\ \A c \in Request : c # v
  BY <1>0, <1>1, <1>2, OtpLimits DEF OtpInv, Progress
<1>4. /\ \A x \in Request \cup Try : at[x] # Null => at'[x] = at[x] /\ x # v
      /\ \A c \in Request : /\ pc'[c] = pc[c] /\ phone'[c] = phone[c]
                            /\ from'[c] = from[c] /\ at'[c] = at[c]
  BY <1>2, <1>3
<1>5. /\ \A q \in Phone : PhoneShrinks(q)
      /\ \A j \in IP : AddressShrinks(j)
      /\ \A j \in IP \ {i} : VerifyShrinks(j)
      /\ verifyHits'[i] = Recent(SweptVerify[i], VerifyWindow) \cup {v}
      /\ phoneHits' = [q \in Phone |-> phoneHits'[q]] /\ ipHits' = [j \in IP |-> ipHits'[j]]
      /\ verifyHits' = [j \in IP |-> verifyHits'[j]] /\ calls' \in Nat
  <2>1. /\ phoneHits' = [q \in Phone |-> phoneHits'[q]] /\ ipHits' = [j \in IP |-> ipHits'[j]]
        /\ verifyHits' = [j \in IP |-> verifyHits'[j]] /\ calls' \in Nat
    BY <1>1, <1>t, SweepKeeps
  <2>2. \A q \in Phone : phoneHits'[q] = SweptPhones[q]
    BY <1>1
  <2>3. /\ \A j \in IP \ {i} : verifyHits'[j] = SweptVerify[j]
        /\ verifyHits'[i] = Recent(SweptVerify[i], VerifyWindow) \cup {v}
        /\ \A j \in IP : ipHits'[j] = SweptIPs[j]
    BY <1>1, <1>t, SweepKeeps
  <2>4. QED
    BY <1>t, <2>1, <2>2, <2>3, SweptShrink
<1>6. verifyHits'[i] \subseteq Recent(verifyHits[i], VerifyWindow) \cup {v}
  <2>1. /\ SweptVerify[i] \subseteq verifyHits[i]
        /\ Recent(SweptVerify[i], VerifyWindow) \subseteq Recent(verifyHits[i], VerifyWindow)
    <3>1. SweptVerify[i] \subseteq verifyHits[i]
      BY <1>t, SweepKeeps
    <3>2. \A S, T, w : T \subseteq S => Recent(T, w) \subseteq Recent(S, w)
      BY RecentIs
    <3>3. QED
      BY <3>1, <3>2
  <2>2. QED
    BY <1>5, <2>1
<1>7. TypeOK'
  <2>1. /\ {d \in Request : at[d] # Null} = {d \in Request : at'[d] # Null}
        /\ {w \in Try : at[w] # Null} \cup {v} \subseteq {w \in Try : at'[w] # Null}
        /\ \A S, w : Recent(S, w) \subseteq S
    BY <1>2, <1>3, <1>4, RecentIs
  <2>2. /\ \A q \in Phone : phoneHits'[q] \subseteq phoneHits[q]
        /\ \A j \in IP : ipHits'[j] \subseteq ipHits[j] /\ verifyHits'[j] \subseteq verifyHits[j] \cup {v}
    BY <1>5, <1>6, <2>1 DEF PhoneShrinks, AddressShrinks, VerifyShrinks
  <2>3. /\ \A q \in Phone : phoneHits'[q] \in SUBSET {d \in Request : at'[d] # Null}
        /\ \A j \in IP : /\ ipHits'[j] \in SUBSET {d \in Request : at'[d] # Null}
                         /\ verifyHits'[j] \in SUBSET {w \in Try : at'[w] # Null}
    <3>1. /\ \A q \in Phone : phoneHits[q] \subseteq {d \in Request : at[d] # Null}
          /\ \A j \in IP : /\ ipHits[j] \subseteq {d \in Request : at[d] # Null}
                           /\ verifyHits[j] \subseteq {w \in Try : at[w] # Null}
      BY <1>t DEF TypeOK
    <3>2. QED
      BY <2>1, <2>2, <3>1
  <2>4. /\ phoneHits' \in [Phone -> SUBSET {d \in Request : at'[d] # Null}]
        /\ ipHits' \in [IP -> SUBSET {d \in Request : at'[d] # Null}]
        /\ verifyHits' \in [IP -> SUBSET {w \in Try : at'[w] # Null}]
    BY <1>5, <2>3
  <2>5. /\ retryAt' \in [Request \cup Try -> Nat \cup {Null}]
        /\ refusedBy' \in [Request \cup Try -> {"none", "address", "cooldown", "quota", "verify"}]
    BY <1>0, <1>t DEF TypeOK
  <2>6. /\ pc' \in [Request \cup Try -> {"idle", "allowed", "voided", "sending", "voiding", "checking", "done"}]
        /\ phone' \in [Request \cup Try -> Phone \cup {Null}]
        /\ from' \in [Request \cup Try -> IP \cup {Null}]
        /\ at' \in [Request \cup Try -> Nat \cup {Null}]
    BY <1>1, <1>t DEF TypeOK
  <2>7. QED
    BY <1>1, <1>5, <1>t, <2>4, <2>5, <2>6 DEF TypeOK
<1>8. Progress'
  <2>1. \A y \in Request \cup Try :
          /\ at'[y] # Null => at'[y] <= now' /\ phone'[y] \in Phone /\ from'[y] \in IP
          /\ pc'[y] = "idle" => at'[y] = Null /\ retryAt'[y] = Null
          /\ retryAt'[y] # Null => phone'[y] \in Phone /\ from'[y] \in IP
    BY <1>1, <1>2, <1>3, <1>t DEF Progress
  <2>2. \A d \in Request :
          /\ pc'[d] \in {"allowed", "voided", "sending", "voiding"} => at'[d] # Null
          /\ retryAt'[d] # Null => refusedBy'[d] \in Limits \ {"verify"}
          /\ otp'[d] # "NONE" => at'[d] # Null
          /\ pc'[d] \in {"idle", "allowed", "voided"} => otp'[d] = "NONE"
    BY <1>1, <1>2, <1>4, <1>t DEF Progress
  <2>3. \A w \in Try :
          /\ pc'[w] = "checking" => at'[w] # Null
          /\ retryAt'[w] # Null => refusedBy'[w] = "verify"
    BY <1>2, <1>3, <1>t DEF Progress
  <2>4. asked' \subseteq {d \in Request : at'[d] # Null}
    BY <1>1, <1>4, <1>t DEF Progress
  <2>5. QED
    BY <2>1, <2>2, <2>3, <2>4 DEF Progress
<1>9. Kept'
  <2>1. ASSUME NEW d \in asked PROVE /\ d \in Request /\ phone[d] \in Phone /\ from[d] \in IP
                                    /\ at[d] \in Nat /\ now \in Nat
    BY <1>t DEF Progress, TypeOK
  <2>2. QED
    BY <1>1, <1>4, <1>5, <2>1, RecentIs, OtpLimits DEF OtpInv, Kept, PhoneShrinks, AddressShrinks
<1>10. ListsBounded'
  BY <1>1, <1>5, <1>6, <1>t, BoundedOn
<1>11. SendsBounded'
  <2>1. asked \subseteq Request
    BY <1>t DEF Progress
  <2>2. /\ \A q \in Phone : OfPhone(q)' = OfPhone(q) /\ AskedBy(q)' = AskedBy(q) /\ AskedBy(q) \subseteq Request
        /\ \A j \in IP : OfAddress(j)' = OfAddress(j)
    BY <1>1, <1>4, <2>1 DEF OfPhone, OfAddress, AskedBy, Recent
  <2>3. QED
    BY <1>4, <2>2, QuotasMean DEF OtpInv, Spaced
<1>12. \A q : Active(q)' = Active(q) /\ Active(q) \subseteq Request
  BY <1>1, <1>4 DEF Active
<1>13. Asking'
  BY <1>1, <1>4, <1>12 DEF OtpInv, Asking
<1>14. Alone' /\ Tries'
  BY <1>1, <1>4 DEF OtpInv, Alone, Tries
<1>15. Waits'
  <2>1. ASSUME NEW x \in Request \cup Try, retryAt'[x] # Null PROVE WaitOf(x)'
    <3>1. /\ x # v /\ x \notin F /\ retryAt[x] # Null /\ retryAt'[x] = retryAt[x]
          /\ refusedBy'[x] = refusedBy[x] /\ phone'[x] = phone[x] /\ from'[x] = from[x]
          /\ phone[x] \in Phone /\ from[x] \in IP
      BY <1>0, <1>2, <1>3, <1>t, <2>1 DEF Progress
    <3>2. WaitOf(x)
      BY <3>1 DEF OtpInv, Waits
    <3>3. refusedBy[x] = "verify" => x \in Try
      BY <1>t, <3>1 DEF Progress
    <3>4. /\ refusedBy[x] = "address" => AddressShrinks(from[x])
          /\ refusedBy[x] = "verify" => VerifyShrinks(from[x])
          /\ refusedBy[x] \in {"cooldown", "quota"} => PhoneShrinks(phone[x])
      BY <1>0, <1>5, <3>1, <3>3
    <3>5. QED
      BY <1>1, <1>4, <1>t, <3>1, <3>2, <3>4, WaitGoesOn
  <2>2. QED
    BY <2>1 DEF Waits
<1>16. QED
  BY <1>7, <1>8, <1>9, <1>10, <1>11, <1>13, <1>14, <1>15 DEF OtpInv

LEMMA OtpTickKeeps ==
  ASSUME OtpInv, Tick
  PROVE  OtpInv'
<1>t. TypeOK /\ Progress
  BY DEF OtpInv
<1>1. /\ now' = now + 1 /\ now \in Nat
      /\ UNCHANGED <<phoneHits, ipHits, verifyHits, calls, asked, pc, phone, from, at, retryAt, refusedBy>>
      /\ UNCHANGED <<sees, otp, late, attempts, compared, session>>
  BY <1>t DEF Tick, limiter, retry, rows, TypeOK
<1>2. /\ \A x \in Request \cup Try : at[x] \in Nat \cup {Null}
      /\ \A x \in Request \cup Try : retryAt[x] \in Nat \cup {Null}
      /\ \A c \in asked : c \in Request /\ at[c] \in Nat
      /\ {PhoneWindow, IPWindow, PhoneCooldown} \subseteq Nat
  BY <1>t, OtpLimits DEF Progress, TypeOK
<1>3. TypeOK'
  BY <1>1, <1>t DEF TypeOK
<1>4. Progress'
  BY <1>1, <1>2, <1>t DEF Progress
<1>5. Kept' /\ ListsBounded'
  BY <1>1, <1>2 DEF OtpInv, Kept, ListsBounded
<1>6. SendsBounded'
  <2>1. /\ \A q \in Phone : /\ OfPhone(q)' \subseteq OfPhone(q) /\ OfPhone(q) \subseteq asked
                            /\ AskedBy(q)' = AskedBy(q) /\ AskedBy(q) \subseteq asked
        /\ \A j \in IP : OfAddress(j)' \subseteq OfAddress(j) /\ OfAddress(j) \subseteq asked
    BY <1>1, <1>2 DEF OfPhone, OfAddress, AskedBy, Recent
  <2>2. ASSUME NEW A, NEW B, NEW M \in Nat, A \subseteq B, B \subseteq asked, Cardinality(B) <= M
        PROVE  Cardinality(A) <= M
    <3>1. IsFiniteSet(B)
      BY <1>2, <1>t, <2>2, HitsFinite
    <3>2. IsFiniteSet(A) /\ Cardinality(A) <= Cardinality(B)
      BY <2>2, <3>1, FS_Subset
    <3>3. Cardinality(A) \in Nat /\ Cardinality(B) \in Nat
      BY <3>1, <3>2, FS_CardinalityType
    <3>4. QED
      BY <2>2, <3>2, <3>3
  <2>3. PhoneMax \in Nat /\ IPMax \in Nat
    BY OtpLimits
  <2>4. \A q \in Phone : Cardinality(OfPhone(q)') <= PhoneMax
    BY <2>1, <2>2, <2>3, QuotasMean DEF OtpInv
  <2>5. \A j \in IP : Cardinality(OfAddress(j)') <= IPMax
    BY <2>1, <2>2, <2>3, QuotasMean DEF OtpInv
  <2>6. \A q \in Phone : Spaced(AskedBy(q))'
    BY <1>1, <2>1, QuotasMean DEF OtpInv, Spaced
  <2>7. QED
    BY <2>4, <2>5, <2>6, QuotasMean
<1>7. Asking'
  <2>1. \A p : Active(p)' = Active(p)
    BY <1>1 DEF Active
  <2>2. QED
    BY <1>1, <2>1 DEF OtpInv, Asking
<1>8. Alone' /\ Tries'
  BY <1>1 DEF OtpInv, Alone, Tries
<1>9. Waits'
  <2>1. ASSUME NEW x \in Request \cup Try, retryAt[x] # Null PROVE WaitOf(x)'
    <3>1. retryAt[x] \in Nat /\ WaitOf(x) /\ Second \in Nat
      BY <1>2, <2>1, OtpLimits DEF OtpInv, Waits
    <3>2. now' + Second <= retryAt[x] => now + Second <= retryAt[x]
      BY <1>1, <3>1
    <3>3. QED
      BY <1>1, <3>1, <3>2 DEF WaitOf, Fits, Until, Hits
  <2>2. QED
    BY <1>1, <2>1 DEF Waits
<1>10. QED
  BY <1>3, <1>4, <1>5, <1>6, <1>7, <1>8, <1>9 DEF OtpInv

LEMMA OtpStep == OtpInv /\ [Next]_vars => OtpInv'
<1> SUFFICES ASSUME OtpInv, [Next]_vars PROVE OtpInv'
  OBVIOUS
<1>1. ASSUME NEW c \in Request, NEW p \in Phone, NEW i \in IP, AskRefused(c, p, i) \/ AskAllowed(c, p, i)
      PROVE  OtpInv'
  BY <1>1, AskRefusedKeeps, AskAllowedKeeps
<1>2. ASSUME NEW c \in Request, VoidOld(c) \/ StoreCode(c) PROVE OtpInv'
  BY <1>2, VoidOldKeeps, StoreCodeKeeps
<1>3. ASSUME NEW c \in Request, AskFails(c) \/ Send(c) \/ VoidUnsent(c) PROVE OtpInv'
  BY <1>3, AskFailsKeeps, VoidUnsentKeeps
<1>4. ASSUME NEW v \in Try, NEW p \in Phone, NEW i \in IP, VerifyRefused(v, p, i) \/ VerifyAllowed(v, p, i)
      PROVE  OtpInv'
  BY <1>4, VerifyRefusedKeeps, VerifyAllowedKeeps
<1>5. ASSUME NEW v \in Try, NEW c \in Request,
             CheckExhausted(v, c) \/ CheckWrong(v, c) \/ CheckRight(v, c)
      PROVE  OtpInv'
  BY <1>5, ChecksKeep
<1>6. ASSUME NEW v \in Try, CheckNothing(v) PROVE OtpInv'
  <2>1. CheckDone(v) /\ UNCHANGED <<sees, late>> /\ UNCHANGED <<otp, attempts, compared, session>>
    BY <1>6 DEF CheckNothing, CheckDone, rows
  <2>2. pc' = [pc EXCEPT ![v] = "done"]
        /\ UNCHANGED <<now, phoneHits, ipHits, verifyHits, calls, asked, phone, from, at, retryAt, refusedBy>>
    BY <2>1 DEF CheckDone, limiter, retry
  <2>3. TypeOK' /\ Tries'
    BY <2>1, <2>2 DEF OtpInv, TypeOK, Tries
  <2>4. QED
    BY <2>1, <2>3, CheckKeeps
<1>7. CASE Restart
  BY <1>7, RestartKeeps
<1>8. CASE Tick
  BY <1>8, OtpTickKeeps
<1>9. CASE UNCHANGED vars
  <2>1. Quiet /\ UNCHANGED <<pc, sees, otp, late, attempts, compared, session>>
    BY <1>9 DEF vars, limiter, retry, rows, Quiet
  <2>2. TypeOK' /\ Progress'
    BY <1>9 DEF vars, limiter, retry, rows, OtpInv, TypeOK, Progress
  <2>3. Asking' /\ Alone' /\ Tries'
    BY <1>9 DEF vars, limiter, retry, rows, OtpInv, Asking, Active, Alone, Tries
  <2>4. QED
    BY <2>1, <2>2, <2>3, QuietKeeps DEF OtpInv
<1>10. QED
  BY <1>1, <1>2, <1>3, <1>4, <1>5, <1>6, <1>7, <1>8, <1>9 DEF Next

LEMMA OtpHolds == Spec => []OtpInv
<1>1. Init => OtpInv
  BY OtpInitial
<1>2. OtpInv /\ [Next]_vars => OtpInv'
  BY OtpStep
<1>3. QED
  BY <1>1, <1>2, PTL DEF Spec

-----------------------------------------------------------------------------
(* The limiter's lists and the rows of codes hold what they may.           *)
THEOREM OtpTables == Spec => []TypeOK
<1>1. OtpInv => TypeOK
  BY DEF OtpInv
<1>2. QED
  BY <1>1, OtpHolds, PTL

(* Of the codes of a phone that can still be entered at most one was       *)
(* committed within a cooldown of its request, although replacing the old  *)
(* code and storing the new one are two steps, nothing bounds how long     *)
(* they take, and no lock keeps two requests apart.                        *)
THEOREM OneCodeInTime == Spec => []OneTimelyCode
<1>1. OtpInv => OneTimelyCode
  <2>1. ASSUME OtpInv, NEW p \in Phone, NEW S, S = Active(p) \ late PROVE Cardinality(S) <= 1
    <3>1. \A c, d \in S : c = d
      BY <2>1 DEF OtpInv, Alone, Active
    <3>2. CASE S = {}
      BY <3>2, FS_EmptySet
    <3>3. CASE S # {}
      <4>1. PICK c \in S : S = {c}
        BY <3>1, <3>3
      <4>2. Cardinality({c}) = 1
        BY FS_Singleton
      <4>3. QED
        BY <4>1, <4>2
    <3>4. QED
      BY <3>2, <3>3
  <2>2. QED
    BY <2>1 DEF OneTimelyCode
<1>2. QED
  BY <1>1, OtpHolds, PTL

(* A code is compared at most MaxAttempts times and opens at most one      *)
(* session, over all verifications and restarts of the process.            *)
THEOREM FewGuesses == Spec => []GuessesPerCode
<1>1. OtpInv => GuessesPerCode
  <2>1. ASSUME OtpInv, NEW c \in Request, NEW S, S = {v \in Try : session[v] = c}
        PROVE  Cardinality(S) <= 1
    <3>1. \A v, w \in S : v = w
      BY <2>1, OtpLimits DEF OtpInv, Tries
    <3>2. CASE S = {}
      BY <3>2, FS_EmptySet
    <3>3. CASE S # {}
      <4>1. PICK v \in S : S = {v}
        BY <3>1, <3>3
      <4>2. Cardinality({v}) = 1
        BY FS_Singleton
      <4>3. QED
        BY <4>1, <4>2
    <3>4. QED
      BY <3>2, <3>3
  <2>2. QED
    BY <2>1 DEF GuessesPerCode, OtpInv, Tries
<1>2. QED
  BY <1>1, OtpHolds, PTL

(* The quotas and the cooldown of phones and addresses hold over all       *)
(* pruning, sweeping and concurrent requests.                              *)
THEOREM QuotasHold == Spec => []SendsBounded
<1>1. OtpInv => SendsBounded
  BY DEF OtpInv
<1>2. QED
  BY <1>1, OtpHolds, PTL

(* As long as no other call that counts against it is let through, the     *)
(* limit that refused still refuses a second before the time it named,     *)
(* rounded up to whole seconds, and does not when that time has come.      *)
THEOREM WaitsAreRight == Spec => []WaitIsRight
<1>1. OtpInv => WaitIsRight
  <2>1. SUFFICES ASSUME OtpInv, NEW x \in Request \cup Try, retryAt[x] # Null
                 PROVE  /\ now + Second <= retryAt[x] => Refuses(refusedBy[x], phone[x], from[x])
                        /\ retryAt[x] <= now => ~Refuses(refusedBy[x], phone[x], from[x])
    BY DEF WaitIsRight
  <2>2. PICK l \in Limits : l = refusedBy[x]
    BY <2>1 DEF OtpInv, Progress, Limits
  <2>3. PICK p \in Phone : p = phone[x]
    BY <2>1 DEF OtpInv, Progress
  <2>4. PICK i \in IP : i = from[x]
    BY <2>1 DEF OtpInv, Progress
  <2>5. PICK r \in Nat : r = retryAt[x]
    BY <2>1 DEF OtpInv, TypeOK
  <2>6. PICK S : S = Hits(l, p, i)
    OBVIOUS
  <2>7. PICK w \in Nat : w = Lasts(l)
    BY LimitsAre
  <2>8. PICK m \in Nat : m = Most(l)
    BY LimitsAre
  <2>9. Fits(now, at, S, w, m, r)
    BY <2>1, <2>2, <2>3, <2>4, <2>5, <2>6, <2>7, <2>8 DEF OtpInv, Waits, WaitOf
  <2>10. Refuses(l, p, i) <=> Cardinality(Until(at, S, w, now)) >= m
    BY <2>1, <2>6, <2>7, <2>8, RefusesMeans DEF OtpInv
  <2>11. /\ IsFiniteSet(S) /\ now \in Nat /\ Second \in Nat
         /\ \A y \in S : at[y] \in Nat
    BY <2>1, <2>6, HitsAre, OtpLimits DEF OtpInv
  <2>12. /\ \A t \in Int : IsFiniteSet(Until(at, S, w, t))
         /\ \A t, u \in Int : t <= u => Until(at, S, w, u) \in SUBSET Until(at, S, w, t)
    <3>1. \A t \in Int : Until(at, S, w, t) \in SUBSET S
      BY DEF Until
    <3>2. \A t \in Int : IsFiniteSet(Until(at, S, w, t))
      BY <2>11, <3>1, FS_Subset
    <3>3. \A t, u \in Int : t <= u => Until(at, S, w, u) \in SUBSET Until(at, S, w, t)
      BY <2>11 DEF Until
    <3>4. QED
      BY <3>2, <3>3
  <2>13. \A t, u \in Int : t <= u => /\ Cardinality(Until(at, S, w, u)) \in Nat
                                     /\ Cardinality(Until(at, S, w, t)) \in Nat
                                     /\ Cardinality(Until(at, S, w, u)) <= Cardinality(Until(at, S, w, t))
    BY <2>12, Fewer
  <2>14. ASSUME now + Second <= r PROVE Refuses(l, p, i)
    <3>1. now \in Int /\ r - Second \in Int /\ now <= r - Second
      BY <2>11, <2>14
    <3>2. Cardinality(Until(at, S, w, r - Second)) >= m
      BY <2>9, <2>14 DEF Fits
    <3>3. /\ Cardinality(Until(at, S, w, r - Second)) \in Nat /\ Cardinality(Until(at, S, w, now)) \in Nat
          /\ Cardinality(Until(at, S, w, r - Second)) <= Cardinality(Until(at, S, w, now))
      BY <2>13, <3>1
    <3>4. QED
      BY <2>8, <2>10, <3>2, <3>3
  <2>15. ASSUME r <= now PROVE ~Refuses(l, p, i)
    <3>1. now \in Int /\ r \in Int /\ r <= now
      BY <2>11, <2>15
    <3>2. Cardinality(Until(at, S, w, r)) < m
      BY <2>9 DEF Fits
    <3>3. /\ Cardinality(Until(at, S, w, r)) \in Nat /\ Cardinality(Until(at, S, w, now)) \in Nat
          /\ Cardinality(Until(at, S, w, now)) <= Cardinality(Until(at, S, w, r))
      BY <2>13, <3>1
    <3>4. QED
      BY <2>8, <2>10, <3>2, <3>3
  <2>16. QED
    BY <2>2, <2>3, <2>4, <2>5, <2>14, <2>15
<1>2. QED
  BY <1>1, OtpHolds, PTL
=============================================================================
