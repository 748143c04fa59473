------------------------------ MODULE OtpLogin ------------------------------
(***************************************************************************)
(* Runner login by phone: asking for a code and entering it.               *)
(*                                                                         *)
(* A request passes the limiter, replaces the phone's codes by a new one   *)
(* in a transaction, and sends it after the commit.  The transaction's     *)
(* update voids the codes its snapshot shows, so it is two steps: VoidOld  *)
(* takes the snapshot, StoreCode inserts and commits.  A verification      *)
(* passes its own limit, and checks the newest code under its row lock in  *)
(* one step.  Limiter methods hold the mutex.                              *)
(*                                                                         *)
(* The limiter's lists of times grow at the end and are pruned from the    *)
(* front, so a list is the set of the requests it stands for; "at" has     *)
(* their times.  Each request makes its own code, so codes are requests.   *)
(***************************************************************************)
EXTENDS Integers, FiniteSetsExt

CONSTANTS
  Request,        \* requests for a code that can come
  Try,            \* verifications that can come
  Phone, IP,
  PhoneCooldown, PhoneWindow, PhoneMax,
  IPWindow, IPMax,
  VerifyWindow, VerifyMax,
  SweepEvery,
  TTL, MaxAttempts,
  Second,         \* ticks of the clock in a second
  Horizon,        \* bound: the last instant of the clock
  Null

ASSUME OtpLimits ==
  /\ IsFiniteSet(Request) /\ IsFiniteSet(Try) /\ Request \cap Try = {}
  /\ {PhoneWindow, PhoneMax, IPWindow, IPMax, VerifyWindow, VerifyMax, SweepEvery, MaxAttempts,
      Second} \subseteq Nat \ {0}
  /\ {PhoneCooldown, TTL, Horizon} \subseteq Nat
  /\ Null \notin Nat \cup Phone \cup IP \cup Request

(* The cooldown is 60 seconds and the window an hour.                      *)
ASSUME LimitsInOrder == PhoneCooldown <= PhoneWindow

VARIABLES
  now,
  phoneHits, ipHits, verifyHits, calls,   \* OTPLimiter
  pc,        \* of a request: idle, allowed, voided, sending, voiding, done;
             \* of a verification: idle, checking, done
  phone, from,
  at,        \* the clock reading of a request or verification let through
  retryAt,   \* when a refused caller may come again, until another is let through
  refusedBy, \* the limit that refused it
  sees,      \* the codes the update of a request's open transaction voids
  otp,       \* auth_otps of a request: NONE, ACTIVE, or CONSUMED
  late,      \* history: requests that took the cooldown or longer to commit their row
  attempts,
  compared,  \* history: verifications whose code was compared with a request's
  session,   \* the code a verification opened a session with
  asked      \* history: requests let through since the process started

limiter == <<phoneHits, ipHits, verifyHits, calls, asked>>
retry   == <<retryAt, refusedBy>>
rows    == <<otp, late, attempts, compared, session>>
vars    == <<now, limiter, pc, phone, from, at, retry, sees, rows>>

Init ==
  /\ now = 0
  /\ phoneHits = [p \in Phone |-> {}]
  /\ ipHits = [i \in IP |-> {}] /\ verifyHits = [i \in IP |-> {}]
  /\ calls = 0
  /\ pc = [x \in Request \cup Try |-> "idle"]
  /\ phone = [x \in Request \cup Try |-> Null]
  /\ from = [x \in Request \cup Try |-> Null]
  /\ at = [x \in Request \cup Try |-> Null]
  /\ retryAt = [x \in Request \cup Try |-> Null]
  /\ refusedBy = [x \in Request \cup Try |-> "none"]
  /\ sees = [c \in Request |-> {}]
  /\ otp = [c \in Request |-> "NONE"]
  /\ late = {}
  /\ attempts = [c \in Request |-> 0]
  /\ compared = [c \in Request |-> {}]
  /\ session = [v \in Try |-> Null]
  /\ asked = {}

-----------------------------------------------------------------------------
(* OTPLimiter *)

(* pruneOTP *)
Recent(S, window) == {x \in S : at[x] > now - window}

Times(S) == {at[x] : x \in S}

(* maybeSweep *)
Sweep(hits, window) ==
  IF (calls + 1) % SweepEvery = 0 THEN [k \in DOMAIN hits |-> Recent(hits[k], window)] ELSE hits
SweptPhones_ByCooldown == Sweep(phoneHits, PhoneCooldown)

SweptPhones == Sweep(phoneHits, PhoneWindow)
SweptIPs    == Sweep(ipHits, IPWindow)
SweptVerify == Sweep(verifyHits, VerifyWindow)
Count       == calls' = (calls + 1) % SweepEvery

IPFull(i)    == Cardinality(Recent(ipHits[i], IPWindow)) >= IPMax
PhoneFull(p) == Cardinality(Recent(phoneHits[p], PhoneWindow)) >= PhoneMax
Cooling(p)   == \E c \in Recent(phoneHits[p], PhoneWindow) : at[c] + PhoneCooldown > now

MayAsk_NoCooldown(p, i) == ~IPFull(i) /\ ~PhoneFull(p)

MayAsk(p, i) == ~IPFull(i) /\ ~Cooling(p) /\ ~PhoneFull(p)

(* The limit that refuses, the first of three.                             *)
Refusal(p, i) == IF IPFull(i) THEN "address" ELSE IF Cooling(p) THEN "cooldown" ELSE "quota"

(* When a limit that refuses lets the next caller through.                 *)
EndOf(limit, p, i) ==
  CASE limit = "address"  -> Min(Times(Recent(ipHits[i], IPWindow))) + IPWindow
    [] limit = "cooldown" -> Max(Times(Recent(phoneHits[p], PhoneWindow))) + PhoneCooldown
    [] limit = "quota"    -> Min(Times(Recent(phoneHits[p], PhoneWindow))) + PhoneWindow
    [] OTHER              -> Min(Times(Recent(verifyHits[i], VerifyWindow))) + VerifyWindow

CeilSeconds_Truncates(d) == IF d <= 0 THEN 0 ELSE (d \div Second) * Second

(* Callers are told whole seconds. *)
CeilSeconds(d) == IF d <= 0 THEN 0 ELSE ((d + Second - 1) \div Second) * Second

Refuse(x, limit, p, i) ==
  /\ retryAt' = [retryAt EXCEPT ![x] = now + CeilSeconds(EndOf(limit, p, i) - now)]
  /\ refusedBy' = [refusedBy EXCEPT ![x] = limit]

(* What a caller was told is void once a call that counts against the same *)
(* limit is let through.                                                   *)
Forget(S) ==
  /\ retryAt' = [x \in Request \cup Try |-> IF x \in S THEN Null ELSE retryAt[x]]
  /\ refusedBy' = [x \in Request \cup Try |-> IF x \in S THEN "none" ELSE refusedBy[x]]

-----------------------------------------------------------------------------
(* RequestPhoneCode *)

AskRefused(c, p, i) ==
  /\ pc[c] = "idle" /\ ~MayAsk(p, i)
  /\ pc' = [pc EXCEPT ![c] = "done"]
  /\ phone' = [phone EXCEPT ![c] = p] /\ from' = [from EXCEPT ![c] = i]
  /\ Refuse(c, Refusal(p, i), p, i)
  /\ ipHits' = [SweptIPs EXCEPT ![i] = IF IPFull(i) THEN Recent(@, IPWindow) ELSE @]
  /\ phoneHits' = [SweptPhones EXCEPT ![p] = IF IPFull(i) THEN @ ELSE Recent(@, PhoneWindow)]
  /\ verifyHits' = SweptVerify /\ Count
  /\ UNCHANGED <<now, at, sees, rows, asked>>

AskAllowed(c, p, i) ==
  /\ pc[c] = "idle" /\ MayAsk(p, i)
  /\ pc' = [pc EXCEPT ![c] = "allowed"]
  /\ phone' = [phone EXCEPT ![c] = p] /\ from' = [from EXCEPT ![c] = i]
  /\ at' = [at EXCEPT ![c] = now]
  /\ Forget({d \in Request : IF refusedBy[d] = "address" THEN from[d] = i ELSE phone[d] = p})
  /\ ipHits' = [SweptIPs EXCEPT ![i] = Recent(@, IPWindow) \cup {c}]
  /\ phoneHits' = [SweptPhones EXCEPT ![p] = Recent(@, PhoneWindow) \cup {c}]
  /\ verifyHits' = SweptVerify /\ Count
  /\ asked' = asked \cup {c}
  /\ UNCHANGED <<now, sees, rows>>

Active(p) == {c \in Request : otp[c] = "ACTIVE" /\ phone[c] = p}

(* ConsumeActiveOTPs: the rows its snapshot shows. *)
VoidOld(c) ==
  /\ pc[c] = "allowed"
  /\ pc' = [pc EXCEPT ![c] = "voided"]
  /\ sees' = [sees EXCEPT ![c] = Active(phone[c])]
  /\ UNCHANGED <<now, limiter, phone, from, at, retry, rows>>

(* InsertOTP and the commit, which may be reported as failed when only its *)
(* answer was lost.                                                        *)
StoreCode(c) ==
  /\ pc[c] = "voided"
  /\ \E answered \in BOOLEAN : pc' = [pc EXCEPT ![c] = IF answered THEN "sending" ELSE "done"]
  /\ otp' = [d \in Request |-> IF d = c THEN "ACTIVE"
                               ELSE IF d \in sees[c] THEN "CONSUMED" ELSE otp[d]]
  /\ late' = IF now < at[c] + PhoneCooldown THEN late ELSE late \cup {c}
  /\ sees' = [sees EXCEPT ![c] = {}]
  /\ UNCHANGED <<now, limiter, phone, from, at, retry, attempts, compared, session>>

(* The transaction fails. *)
AskFails(c) ==
  /\ pc[c] \in {"allowed", "voided"}
  /\ pc' = [pc EXCEPT ![c] = "done"]
  /\ sees' = [sees EXCEPT ![c] = {}]
  /\ UNCHANGED <<now, limiter, phone, from, at, retry, rows>>

Send(c) ==
  /\ pc[c] = "sending"
  /\ \E sent \in BOOLEAN : pc' = [pc EXCEPT ![c] = IF sent THEN "done" ELSE "voiding"]
  /\ UNCHANGED <<now, limiter, phone, from, at, retry, sees, rows>>

(* ConsumeOTP after a failed send, which may fail as well. *)
VoidUnsent(c) ==
  /\ pc[c] = "voiding"
  /\ pc' = [pc EXCEPT ![c] = "done"]
  /\ \E ok \in BOOLEAN : otp' = [otp EXCEPT ![c] = IF ok THEN "CONSUMED" ELSE @]
  /\ UNCHANGED <<now, limiter, phone, from, at, retry, sees, late, attempts, compared, session>>

-----------------------------------------------------------------------------
(* VerifyPhoneCode *)

MayVerify(i) == Cardinality(Recent(verifyHits[i], VerifyWindow)) < VerifyMax

VerifyRefused(v, p, i) ==
  /\ pc[v] = "idle" /\ ~MayVerify(i)
  /\ pc' = [pc EXCEPT ![v] = "done"]
  /\ phone' = [phone EXCEPT ![v] = p] /\ from' = [from EXCEPT ![v] = i]
  /\ Refuse(v, "verify", p, i)
  /\ verifyHits' = [SweptVerify EXCEPT ![i] = Recent(@, VerifyWindow)]
  /\ ipHits' = SweptIPs /\ phoneHits' = SweptPhones /\ Count
  /\ UNCHANGED <<now, at, sees, rows, asked>>

VerifyAllowed(v, p, i) ==
  /\ pc[v] = "idle" /\ MayVerify(i)
  /\ pc' = [pc EXCEPT ![v] = "checking"]
  /\ phone' = [phone EXCEPT ![v] = p] /\ from' = [from EXCEPT ![v] = i]
  /\ at' = [at EXCEPT ![v] = now]
  /\ Forget({w \in Try : from[w] = i})
  /\ verifyHits' = [SweptVerify EXCEPT ![i] = Recent(@, VerifyWindow) \cup {v}]
  /\ ipHits' = SweptIPs /\ phoneHits' = SweptPhones /\ Count
  /\ UNCHANGED <<now, sees, rows, asked>>

(* GetActiveOTPForUpdate: the newest unconsumed row. *)
Newest(p) == {c \in Active(p) : \A d \in Active(p) : at[d] <= at[c]}

CheckDone(v) ==
  /\ pc[v] = "checking"
  /\ pc' = [pc EXCEPT ![v] = "done"]
  /\ UNCHANGED <<now, limiter, phone, from, at, retry, sees>>

(* No code, an expired one, or a transaction that fails: nothing written.  *)
CheckNothing(v) == CheckDone(v) /\ UNCHANGED rows

Usable(v, c) == c \in Newest(phone[v]) /\ at[v] < at[c] + TTL

Exhausted_OneMore(c) == attempts[c] > MaxAttempts

Exhausted(c) == attempts[c] >= MaxAttempts

CheckExhausted(v, c) ==
  /\ CheckDone(v) /\ Usable(v, c) /\ Exhausted(c)
  /\ otp' = [otp EXCEPT ![c] = "CONSUMED"]
  /\ UNCHANGED <<late, attempts, compared, session>>

CheckWrong(v, c) ==
  /\ CheckDone(v) /\ Usable(v, c) /\ ~Exhausted(c)
  /\ attempts' = [attempts EXCEPT ![c] = @ + 1]
  /\ compared' = [compared EXCEPT ![c] = @ \cup {v}]
  /\ UNCHANGED <<otp, late, session>>

CheckRight_KeepsDisabled(v, c) ==
  /\ CheckDone(v) /\ Usable(v, c) /\ ~Exhausted(c)
  /\ compared' = [compared EXCEPT ![c] = @ \cup {v}]
  /\ \E active \in BOOLEAN :
       /\ session' = [session EXCEPT ![v] = IF active THEN c ELSE @]
       /\ otp' = [otp EXCEPT ![c] = IF active THEN "CONSUMED" ELSE @]
  /\ UNCHANGED <<late, attempts>>

(* A disabled runner's code is used up without a session.                  *)
CheckRight(v, c) ==
  /\ CheckDone(v) /\ Usable(v, c) /\ ~Exhausted(c)
  /\ otp' = [otp EXCEPT ![c] = "CONSUMED"]
  /\ compared' = [compared EXCEPT ![c] = @ \cup {v}]
  /\ \E active \in BOOLEAN : session' = [session EXCEPT ![v] = IF active THEN c ELSE @]
  /\ UNCHANGED <<late, attempts>>

-----------------------------------------------------------------------------
(* The process ends and starts again: requests under way are lost with     *)
(* their open transactions, the limiter forgets, the rows stay.            *)
Restart ==
  /\ pc' = [x \in Request \cup Try |-> IF pc[x] = "idle" THEN "idle" ELSE "done"]
  /\ phoneHits' = [p \in Phone |-> {}]
  /\ ipHits' = [i \in IP |-> {}] /\ verifyHits' = [i \in IP |-> {}]
  /\ calls' = 0
  /\ Forget(Request \cup Try)
  /\ asked' = {}
  /\ sees' = [c \in Request |-> {}]
  /\ UNCHANGED <<now, phone, from, at, rows>>

(* Time passes, however long a handler takes: nothing ends it. *)
Tick ==
  /\ now < Horizon
  /\ now' = now + 1
  /\ UNCHANGED <<limiter, pc, phone, from, at, retry, sees, rows>>

Next ==
  \/ \E c \in Request, p \in Phone, i \in IP : AskRefused(c, p, i)
  \/ \E c \in Request, p \in Phone, i \in IP : AskAllowed(c, p, i)
  \/ \E c \in Request : VoidOld(c)
  \/ \E c \in Request : StoreCode(c)
  \/ \E c \in Request : AskFails(c)
  \/ \E c \in Request : Send(c)
  \/ \E c \in Request : VoidUnsent(c)
  \/ \E v \in Try, p \in Phone, i \in IP : VerifyRefused(v, p, i)
  \/ \E v \in Try, p \in Phone, i \in IP : VerifyAllowed(v, p, i)
  \/ \E v \in Try : CheckNothing(v)
  \/ \E v \in Try, c \in Request : CheckExhausted(v, c)
  \/ \E v \in Try, c \in Request : CheckWrong(v, c)
  \/ \E v \in Try, c \in Request : CheckRight(v, c)
  \/ Restart
  \/ Tick

Spec == Init /\ [][Next]_vars

-----------------------------------------------------------------------------
(* Columns and lists hold what they may. *)
TypeOK ==
  /\ now \in Nat /\ calls \in Nat
  /\ phoneHits \in [Phone -> SUBSET {c \in Request : at[c] # Null}]
  /\ ipHits \in [IP -> SUBSET {c \in Request : at[c] # Null}]
  /\ verifyHits \in [IP -> SUBSET {v \in Try : at[v] # Null}]
  /\ pc \in [Request \cup Try -> {"idle", "allowed", "voided", "sending", "voiding",
                                  "checking", "done"}]
  /\ phone \in [Request \cup Try -> Phone \cup {Null}]
  /\ from \in [Request \cup Try -> IP \cup {Null}]
  /\ at \in [Request \cup Try -> Nat \cup {Null}]
  /\ retryAt \in [Request \cup Try -> Nat \cup {Null}]
  /\ refusedBy \in [Request \cup Try -> {"none", "address", "cooldown", "quota", "verify"}]
  /\ sees \in [Request -> SUBSET Request]
  /\ otp \in [Request -> {"NONE", "ACTIVE", "CONSUMED"}]
  /\ late \subseteq Request
  /\ attempts \in [Request -> 0 .. MaxAttempts]
  /\ compared \in [Request -> SUBSET Try]
  /\ session \in [Try -> Request \cup {Null}]

(* Of the codes of a phone that can still be entered at most one was       *)
(* committed within the cooldown after its request was let through: no     *)
(* lock keeps two requests apart, only the cooldown does, so one code too  *)
(* many takes a request that is slower than that.                          *)
OneTimelyCode == \A p \in Phone : Cardinality(Active(p) \ late) <= 1

(* A code is compared with what is entered at most MaxAttempts times, over *)
(* all verifications, and opens at most one session.                       *)
GuessesPerCode ==
  \A c \in Request :
    /\ Cardinality(compared[c]) <= MaxAttempts
    /\ Cardinality({v \in Try : session[v] = c}) <= 1

(* Since the process started, no phone is let ask more often than its      *)
(* maximum within the window or ever sooner than the cooldown, and no      *)
(* address more often than its own maximum, whatever was pruned or swept.  *)
SendsBounded ==
  /\ \A p \in Phone :
       LET S == {c \in asked : phone[c] = p} IN
         /\ Cardinality(Recent(S, PhoneWindow)) <= PhoneMax
         /\ \A c, d \in S : c # d => at[c] + PhoneCooldown <= at[d] \/ at[d] + PhoneCooldown <= at[c]
  /\ \A i \in IP : Cardinality(Recent({c \in asked : from[c] = i}, IPWindow)) <= IPMax

Refuses(limit, p, i) ==
  CASE limit = "address"  -> IPFull(i)
    [] limit = "cooldown" -> Cooling(p)
    [] limit = "quota"    -> PhoneFull(p)
    [] OTHER              -> ~MayVerify(i)

(* The wait a refusal names is neither too long, a second or more before   *)
(* its end the limit still refuses, nor too short, when it has passed that *)
(* limit no longer does, as long as no call sharing it was let through.    *)
WaitIsRight ==
  \A x \in Request \cup Try : retryAt[x] # Null =>
    /\ now + Second <= retryAt[x] => Refuses(refusedBy[x], phone[x], from[x])
    /\ retryAt[x] <= now => ~Refuses(refusedBy[x], phone[x], from[x])
=============================================================================
