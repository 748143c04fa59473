------------------------------ MODULE Sessions ------------------------------
(***************************************************************************)
(* The table "sessions": staff sessions that slide (iam/service.go),       *)
(* runner sessions that do not (runner/service.go), and the daily cleanup  *)
(* (jobs/jobs.go).                                                         *)
(*                                                                         *)
(* A session is named by its token, which is random and never issued       *)
(* twice.  A request reads the row of its token and the clock, decides,    *)
(* and, if it extends the session, writes the row in a second statement.   *)
(***************************************************************************)
EXTENDS Integers

CONSTANTS
  StaffToken, RunnerToken,   \* tokens of staff and of runners
  Request,
  IdleTimeout, TouchInterval, AbsoluteTimeout,
  SessionTTL,         \* a runner's session
  SessionRetention,   \* how long ended sessions are kept
  Slow,               \* how long a request may take: a bound of the model
  Horizon,            \* the last instant: a bound of the model
  Absent, NONE

Token == StaffToken \cup RunnerToken

Row == [created : Nat, expires : Nat, revoked : Nat \cup {NONE}]

(* A request never takes as long as an unused session lives.               *)
ASSUME SessionConstants ==
  /\ StaffToken \cap RunnerToken = {} /\ NONE \notin Token
  /\ IdleTimeout \in Nat \ {0} /\ TouchInterval \in Nat \ {0}
  /\ AbsoluteTimeout \in Nat \ {0} /\ SessionTTL \in Nat \ {0}
  /\ SessionRetention \in Nat /\ Slow \in Nat /\ Horizon \in Nat
  /\ Slow <= IdleTimeout
  /\ Absent \notin Row /\ NONE \notin Nat

VARIABLES
  clock,
  session,   \* the row of each token: created, expires, revoked
  issued,    \* tokens given out so far
  request,   \* what each request knows: stage, token, clock reading, the row's next expiry
  lastUse    \* history: the latest clock reading with which each token was accepted

sessionVars == <<clock, session, issued, request, lastUse>>

(* "idle", "extending", "accepted".                                        *)
NewRequest == [stage |-> "idle", token |-> NONE, now |-> 0, expires |-> 0]

SessionsInit ==
  /\ clock = 0
  /\ session = [s \in Token |-> Absent]
  /\ issued = {}
  /\ request = [r \in Request |-> NewRequest]
  /\ lastUse = [s \in Token |-> 0]

-----------------------------------------------------------------------------
NewSession(s, lifetime) ==
  /\ s \notin issued
  /\ issued' = issued \cup {s}
  /\ session' = [session EXCEPT ![s] =
       [created |-> clock, expires |-> clock + lifetime, revoked |-> NONE]]
  /\ lastUse' = [lastUse EXCEPT ![s] = clock]
  /\ UNCHANGED <<clock, request>>

(* A member of staff, once the limiter and the password let them in.       *)
Login(s) == s \in StaffToken /\ NewSession(s, IdleTimeout)

(* And so VerifyPhoneCode, which OtpLogin models.                          *)
LoginTelegram(s) == s \in RunnerToken /\ NewSession(s, SessionTTL)

Absolute(s) == session[s].created + AbsoluteTimeout

(* What both kinds of session are asked.                                   *)
Live(s) ==
  /\ session[s] # Absent
  /\ session[s].revoked = NONE
  /\ clock < session[s].expires

Valid(s) == Live(s) /\ (s \in StaffToken => clock < Absolute(s))

Target(s) == IF Absolute(s) < clock + IdleTimeout THEN Absolute(s) ELSE clock + IdleTimeout

WorthExtending_Later(s) == Target(s) - session[s].expires > TouchInterval

WorthExtending(s) == Target(s) - session[s].expires >= TouchInterval

Accept(s) == lastUse' = [lastUse EXCEPT ![s] = clock]

(* The clock is read right after the row; that reading is folded into it.  *)
(* A request that is refused changes nothing.                              *)
Authenticate(r, s) ==
  /\ request[r].stage = "idle"
  /\ Valid(s)
  /\ IF s \in StaffToken /\ WorthExtending(s)
       THEN /\ request' = [request EXCEPT ![r] =
                 [stage |-> "extending", token |-> s, now |-> clock, expires |-> Target(s)]]
            /\ UNCHANGED lastUse
       ELSE /\ request' = [request EXCEPT ![r] =
                 [stage |-> "accepted", token |-> s, now |-> clock, expires |-> 0]]
            /\ Accept(s)
  /\ UNCHANGED <<clock, session, issued>>

Extend_AnyRow(r) ==
  LET s == request[r].token IN
    /\ request[r].stage = "extending"
    /\ request' = [request EXCEPT ![r].stage = "accepted"]
    /\ session' = [session EXCEPT ![s] =
         IF @ # Absent THEN [@ EXCEPT !.expires = request[r].expires] ELSE @]
    /\ lastUse' = [lastUse EXCEPT ![s] = IF @ < request[r].now THEN request[r].now ELSE @]
    /\ UNCHANGED <<clock, issued>>

(* The update finds the row by its id if it is not revoked; it does not    *)
(* ask how many rows it found, and the request is let in.                  *)
Extend(r) ==
  LET s == request[r].token IN
    /\ request[r].stage = "extending"
    /\ request' = [request EXCEPT ![r].stage = "accepted"]
    /\ session' = [session EXCEPT ![s] =
         IF @ # Absent /\ @.revoked = NONE THEN [@ EXCEPT !.expires = request[r].expires] ELSE @]
    /\ lastUse' = [lastUse EXCEPT ![s] = IF @ < request[r].now THEN request[r].now ELSE @]
    /\ UNCHANGED <<clock, issued>>

(* The extension, or anything after it, fails.                             *)
Fail(r) ==
  /\ request[r].stage # "idle"
  /\ request' = [request EXCEPT ![r] = NewRequest]
  /\ UNCHANGED <<clock, session, issued, lastUse>>

Logout(s) ==
  /\ session[s] # Absent /\ session[s].revoked = NONE
  /\ session' = [session EXCEPT ![s].revoked = clock]
  /\ UNCHANGED <<clock, issued, request, lastUse>>

Over(s, time) ==
  /\ session[s] # Absent
  /\ \/ session[s].expires < time
     \/ session[s].revoked # NONE /\ session[s].revoked < time

DeleteExpiredSessions ==
  /\ \E s \in Token : Over(s, clock - SessionRetention)
  /\ session' = [s \in Token |-> IF Over(s, clock - SessionRetention) THEN Absent ELSE session[s]]
  /\ UNCHANGED <<clock, issued, request, lastUse>>

(* A request under way does not take longer than Slow.                     *)
Tick ==
  /\ clock < Horizon
  /\ \A r \in Request : request[r].stage # "idle" => clock < request[r].now + Slow
  /\ clock' = clock + 1
  /\ UNCHANGED <<session, issued, request, lastUse>>

-----------------------------------------------------------------------------
(* A staff session lives from its last use for the idle time, short of the *)
(* time that is not worth a write or the slowest request may take, and     *)
(* never past its absolute end; whatever order the extensions of several   *)
(* requests are written in.                                                *)
Slack == IF TouchInterval - 1 > Slow THEN TouchInterval - 1 ELSE Slow

SessionLifetime ==
  \A s \in StaffToken : session[s] # Absent =>
    /\ session[s].expires <= session[s].created
         + (IF IdleTimeout > AbsoluteTimeout THEN IdleTimeout ELSE AbsoluteTimeout)
    /\ session[s].revoked = NONE =>
         \/ session[s].expires + Slack >= lastUse[s] + IdleTimeout
         \/ session[s].expires + Slack >= Absolute(s)

(* A revoked session is final: no request that read it before changes it   *)
(* or brings it back.  And no other session is removed within the time     *)
(* ended ones are kept from its last use.                                  *)
SessionsEndOnce ==
  [][\A s \in Token : session[s] # Absent =>
       /\ session[s].revoked # NONE => session'[s] \in {session[s], Absent}
       /\ session[s].revoked = NONE /\ session'[s] = Absent =>
            lastUse[s] + SessionRetention < clock]_sessionVars
=============================================================================
