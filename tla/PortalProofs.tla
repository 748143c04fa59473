--------------------------- MODULE PortalProofs ---------------------------
(***************************************************************************)
(* Sessions, free signups and profiles, for every value of the constants.  *)
(***************************************************************************)
EXTENDS Portal, FiniteSetTheorems, TLAPS

(* Sessions.  What an extension will write was right when its request read *)
(* the clock, and that is at most Slow ago.                                *)
SessionTypes ==
  /\ clock \in Nat
  /\ session \in [Token -> Row \cup {Absent}]
  /\ issued \subseteq Token
  /\ request \in [Request -> [stage : {"idle", "extending", "accepted"},
                              token : Token \cup {NONE}, now : Nat, expires : Nat]]
  /\ lastUse \in [Token -> Nat]

Fresh(r) ==
  request[r].stage # "idle" => request[r].now <= clock /\ clock <= request[r].now + Slow

Extension(r) ==
  LET s == request[r].token
      e == request[r].expires IN
    request[r].stage = "extending" =>
      /\ s \in StaffToken /\ s \in issued
      /\ session[s] # Absent =>
           /\ request[r].now < Absolute(s) /\ e <= Absolute(s)
           /\ e = Absolute(s) \/ e = request[r].now + IdleTimeout

Used(s) ==
  /\ lastUse[s] <= clock
  /\ session[s] # Absent =>
       /\ s \in issued
       /\ session[s].revoked = NONE => lastUse[s] <= session[s].expires
       /\ s \in StaffToken => lastUse[s] < Absolute(s)

SessionInv ==
  /\ SessionTypes
  /\ \A r \in Request : Fresh(r) /\ Extension(r)
  /\ \A s \in Token : Used(s)
  /\ SessionLifetime

LEMMA SessionInitial == SessionsInit => SessionInv
<1> USE SessionConstants
<1>1. ASSUME SessionsInit PROVE SessionTypes
  BY <1>1 DEF SessionsInit, SessionTypes, NewRequest
<1>2. ASSUME SessionsInit PROVE \A r \in Request : Fresh(r) /\ Extension(r)
  BY <1>2 DEF SessionsInit, Fresh, Extension, NewRequest
<1>3. ASSUME SessionsInit PROVE (\A s \in Token : Used(s)) /\ SessionLifetime
  BY <1>3 DEF SessionsInit, Used, SessionLifetime, Token
<1>4. QED
  BY <1>1, <1>2, <1>3 DEF SessionInv

(* Steps that at most let go of a request. *)
LEMMA ReleasingKeepsSessions ==
  ASSUME SessionInv, UNCHANGED <<clock, session, issued, lastUse>>,
         request' \in [Request -> [stage : {"idle", "extending", "accepted"},
                                   token : Token \cup {NONE}, now : Nat, expires : Nat]],
         \A r \in Request : request'[r] = request[r] \/ request'[r].stage = "idle"
  PROVE  SessionInv'
<1>1. SessionTypes'
  BY DEF SessionInv, SessionTypes
<1>2. \A r \in Request : Fresh(r)' /\ Extension(r)'
  BY DEF SessionInv, Fresh, Extension, Absolute
<1>3. (\A s \in Token : Used(s)') /\ SessionLifetime'
  BY DEF SessionInv, Used, SessionLifetime, Absolute
<1>4. QED
  BY <1>1, <1>2, <1>3 DEF SessionInv

LEMMA NewSessionKeepsSessions ==
  ASSUME SessionInv, NEW s \in Token, NEW lifetime \in Nat, NewSession(s, lifetime),
         s \in StaffToken => lifetime = IdleTimeout
  PROVE  SessionInv'
<1> USE SessionConstants
<1>1. s \notin issued /\ session[s] = Absent
  BY DEF SessionInv, Used, NewSession
<1>2. session'[s] = [created |-> clock, expires |-> clock + lifetime, revoked |-> NONE]
  BY DEF SessionInv, SessionTypes, NewSession
<1>3. \A t \in Token \ {s} : session'[t] = session[t] /\ lastUse'[t] = lastUse[t]
  BY DEF SessionInv, SessionTypes, NewSession
<1>4. lastUse'[s] = clock /\ clock' = clock /\ request' = request /\ issued' = issued \cup {s}
  BY DEF SessionInv, SessionTypes, NewSession
<1>5. session'[s] \in Row
  BY <1>2 DEF Row, SessionInv, SessionTypes
<1>6. SessionTypes'
  BY <1>4, <1>5 DEF SessionInv, SessionTypes, NewSession
<1>7. \A r \in Request : Fresh(r)' /\ Extension(r)'
  BY <1>1, <1>3, <1>4 DEF SessionInv, Fresh, Extension, Absolute, Token
<1>8. \A t \in Token : Used(t)'
  BY <1>1, <1>2, <1>3, <1>4 DEF SessionInv, SessionTypes, Used, Absolute, Row
<1>9. SessionLifetime'
  BY <1>2, <1>3, <1>4 DEF SessionInv, SessionTypes, SessionLifetime, Absolute, Row, Token, Slack
<1>10. QED
  BY <1>6, <1>7, <1>8, <1>9 DEF SessionInv

LEMMA TargetBounds ==
  ASSUME SessionInv, NEW s \in StaffToken, Valid(s)
  PROVE  /\ Target(s) \in Nat /\ clock < Absolute(s) /\ Target(s) <= Absolute(s)
         /\ Target(s) = Absolute(s) \/ Target(s) = clock + IdleTimeout
<1>1. session[s] \in Row /\ clock \in Nat
  BY DEF SessionInv, SessionTypes, Valid, Live, Token
<1>2. Absolute(s) \in Nat
  BY <1>1, SessionConstants DEF Absolute, Row
<1>3. QED
  BY <1>1, <1>2, SessionConstants DEF Valid, Target

LEMMA AuthenticateKeepsSessions ==
  ASSUME SessionInv, NEW r \in Request, NEW s \in Token, Authenticate(r, s)
  PROVE  SessionInv'
<1> USE SessionConstants
<1>1. session[s] \in Row /\ session[s].revoked = NONE /\ clock < session[s].expires /\ clock \in Nat
  BY DEF SessionInv, SessionTypes, Authenticate, Valid, Live
<1>2. CASE s \in StaffToken /\ WorthExtending(s)
  <2>1. request' = [request EXCEPT ![r] =
           [stage |-> "extending", token |-> s, now |-> clock, expires |-> Target(s)]]
    BY <1>2 DEF Authenticate
  <2>2. UNCHANGED <<clock, session, issued, lastUse>>
    BY <1>2 DEF Authenticate
  <2>3. /\ Target(s) \in Nat /\ clock < Absolute(s) /\ Target(s) <= Absolute(s)
        /\ Target(s) = Absolute(s) \/ Target(s) = clock + IdleTimeout
    BY <1>2, TargetBounds DEF Authenticate
  <2>4. SessionTypes'
    BY <1>1, <2>1, <2>2, <2>3 DEF SessionInv, SessionTypes
  <2>5. \A q \in Request : Fresh(q)'
    BY <1>1, <2>1, <2>2 DEF SessionInv, SessionTypes, Fresh
  <2>6. Absolute(s)' = Absolute(s) /\ s \in issued
    BY <1>1, <2>2 DEF Absolute, SessionInv, Used
  <2>7. Extension(r)'
    BY <1>2, <2>1, <2>2, <2>3, <2>6 DEF SessionInv, SessionTypes, Extension
  <2>8. \A q \in Request \ {r} : Extension(q)'
    BY <2>1, <2>2 DEF SessionInv, SessionTypes, Extension, Absolute
  <2>9. (\A t \in Token : Used(t)') /\ SessionLifetime'
    BY <2>2 DEF SessionInv, Used, SessionLifetime, Absolute
  <2>10. QED
    BY <2>4, <2>5, <2>7, <2>8, <2>9 DEF SessionInv
<1>3. CASE ~(s \in StaffToken /\ WorthExtending(s))
  <2>1. request' = [request EXCEPT ![r] =
           [stage |-> "accepted", token |-> s, now |-> clock, expires |-> 0]]
    BY <1>3 DEF Authenticate
  <2>2. UNCHANGED <<clock, session, issued>> /\ lastUse' = [lastUse EXCEPT ![s] = clock]
    BY <1>3 DEF Authenticate, Accept
  <2>3. SessionTypes'
    BY <1>1, <2>1, <2>2 DEF SessionInv, SessionTypes
  <2>4. \A q \in Request : Fresh(q)' /\ Extension(q)'
    BY <1>1, <2>1, <2>2 DEF SessionInv, SessionTypes, Fresh, Extension, Absolute
  <2>a. session[s].expires \in Nat /\ lastUse'[s] = clock /\ Absolute(s)' = Absolute(s)
    BY <1>1, <2>2 DEF SessionInv, SessionTypes, Row, Absolute
  <2>b. s \in issued /\ (s \in StaffToken => clock < Absolute(s))
    BY <1>1 DEF SessionInv, Used, Authenticate, Valid
  <2>c. Used(s)'
    BY <1>1, <2>2, <2>a, <2>b DEF Used
  <2>d. \A t \in Token \ {s} : lastUse'[t] = lastUse[t]
    BY <2>2 DEF SessionInv, SessionTypes
  <2>e. \A t \in Token \ {s} : Used(t)'
    BY <2>2, <2>d DEF SessionInv, Used, Absolute
  <2>5. \A t \in Token : Used(t)'
    BY <2>c, <2>e
  <2>6. CASE s \in StaffToken
    <3>1. /\ Target(s) \in Nat /\ clock < Absolute(s) /\ Target(s) <= Absolute(s)
          /\ Target(s) = Absolute(s) \/ Target(s) = clock + IdleTimeout
      BY <2>6, TargetBounds DEF Authenticate
    <3>2. Absolute(s) \in Nat /\ session[s].expires \in Nat
      BY <1>1 DEF Absolute, Row
    <3>3. session[s].expires + (TouchInterval - 1) >= Target(s)
      BY <1>3, <2>6, <3>1, <3>2 DEF WorthExtending
    <3>4. Slack \in Int /\ Slack >= TouchInterval - 1
      BY DEF Slack
    <3>5. \/ session[s].expires + Slack >= clock + IdleTimeout
          \/ session[s].expires + Slack >= Absolute(s)
      BY <1>1, <3>1, <3>2, <3>3, <3>4
    <3>6. SessionLifetime'
      BY <2>2, <3>5 DEF SessionInv, SessionTypes, SessionLifetime, Absolute, Token
    <3>7. QED
      BY <2>3, <2>4, <2>5, <3>6 DEF SessionInv
  <2>7. CASE s \notin StaffToken
    <3>1. SessionLifetime'
      BY <2>2, <2>7 DEF SessionInv, SessionTypes, SessionLifetime, Absolute, Token
    <3>2. QED
      BY <2>3, <2>4, <2>5, <3>1 DEF SessionInv
  <2>8. QED
    BY <2>6, <2>7
<1>4. QED
  BY <1>2, <1>3

LEMMA ExtendKeepsSessions ==
  ASSUME SessionInv, NEW r \in Request, Extend(r)
  PROVE  SessionInv'
<1> USE SessionConstants
<1> SUFFICES ASSUME NEW s, NEW e, NEW n,
                    s = request[r].token, e = request[r].expires, n = request[r].now
             PROVE  SessionInv'
  OBVIOUS
<1>1. /\ s \in StaffToken /\ s \in Token /\ s \in issued /\ e \in Nat /\ n \in Nat /\ clock \in Nat
      /\ n <= clock /\ clock <= n + Slow /\ lastUse[s] \in Nat /\ lastUse[s] <= clock
      /\ session[s] \in Row \cup {Absent}
  BY DEF SessionInv, SessionTypes, Extension, Fresh, Used, Extend, Token
<1>2. UNCHANGED <<clock, issued>> /\ request' = [request EXCEPT ![r].stage = "accepted"]
  BY DEF Extend
<1>3. /\ \A t \in Token \ {s} : session'[t] = session[t] /\ lastUse'[t] = lastUse[t]
      /\ lastUse' \in [Token -> Nat]
      /\ lastUse'[s] = IF lastUse[s] < n THEN n ELSE lastUse[s]
  BY <1>1 DEF SessionInv, SessionTypes, Extend
<1>4. session'[s] = IF session[s] # Absent /\ session[s].revoked = NONE
                      THEN [session[s] EXCEPT !.expires = e] ELSE session[s]
  BY <1>1 DEF SessionInv, SessionTypes, Extend
<1>5. /\ session'[s] \in Row \cup {Absent}
      /\ session'[s] = Absent <=> session[s] = Absent
      /\ session[s] # Absent => /\ session'[s].created = session[s].created
                                /\ session'[s].revoked = session[s].revoked
                                /\ session'[s].revoked = NONE => session'[s].expires = e
                                /\ session'[s].revoked # NONE => session'[s] = session[s]
                                /\ session[s].created \in Nat
  BY <1>1, <1>4 DEF Row
<1>6. SessionTypes'
  <2>1. session' \in [Token -> Row \cup {Absent}]
    <3>1. session' = [session EXCEPT ![s] = session'[s]]
      BY <1>1 DEF SessionInv, SessionTypes, Extend
    <3>2. QED
      BY <1>5, <3>1 DEF SessionInv, SessionTypes
  <2>2. QED
    BY <1>1, <1>2, <1>3, <2>1 DEF SessionInv, SessionTypes
<1>7. lastUse'[s] \in Nat /\ lastUse'[s] <= clock /\ lastUse'[s] <= n + Slow
  BY <1>1, <1>3
<1>8. session[s] # Absent =>
        /\ Absolute(s) \in Nat /\ Absolute(s)' = Absolute(s) /\ n < Absolute(s) /\ e <= Absolute(s)
        /\ e = Absolute(s) \/ e = n + IdleTimeout
        /\ lastUse[s] < Absolute(s)
  BY <1>1, <1>5 DEF SessionInv, Extension, Used, Absolute, Extend
<1>9. session[s] # Absent => lastUse'[s] < Absolute(s) /\ lastUse'[s] <= e
  BY <1>1, <1>3, <1>7, <1>8
<1>10. \A q \in Request : Fresh(q)' /\ Extension(q)'
  <2>1. \A q \in Request : request'[q].stage = "idle" <=> request[q].stage = "idle"
    BY <1>2 DEF SessionInv, SessionTypes, Extend
  <2>2. \A q \in Request : /\ request'[q].now = request[q].now
                           /\ request'[q].token = request[q].token
                           /\ request'[q].expires = request[q].expires
    BY <1>2 DEF SessionInv, SessionTypes
  <2>3. \A q \in Request : request'[q].stage = "extending" => request[q].stage = "extending"
    BY <1>2 DEF SessionInv, SessionTypes
  <2>4. \A t \in Token : /\ session'[t] = Absent <=> session[t] = Absent
                         /\ session[t] # Absent => Absolute(t)' = Absolute(t)
    BY <1>3, <1>5 DEF Absolute
  <2>5. \A q \in Request : Fresh(q)'
    BY <1>2, <2>1, <2>2 DEF SessionInv, Fresh
  <2>6. ASSUME NEW q \in Request PROVE Extension(q)'
    <3>1. CASE request'[q].stage = "extending"
      BY <1>2, <2>2, <2>3, <2>4, <3>1 DEF SessionInv, Extension, Token
    <3>2. CASE request'[q].stage # "extending"
      BY <3>2 DEF Extension
    <3>3. QED
      BY <3>1, <3>2
  <2>7. QED
    BY <2>5, <2>6
<1>11. Used(s)'
  BY <1>1, <1>2, <1>5, <1>7, <1>8, <1>9 DEF Used
<1>12. \A t \in Token \ {s} : Used(t)'
  BY <1>2, <1>3 DEF SessionInv, Used, Absolute
<1>13. SessionLifetime'
  <2>1. Slack \in Nat /\ Slack >= Slow
    BY DEF Slack
  <2>2. session'[s] # Absent /\ session'[s].revoked = NONE =>
          \/ e + Slack >= lastUse'[s] + IdleTimeout
          \/ e + Slack >= Absolute(s)
    BY <1>1, <1>5, <1>7, <1>8, <2>1
  <2>3. session'[s] # Absent /\ session'[s].revoked = NONE =>
          e <= session[s].created
               + (IF IdleTimeout > AbsoluteTimeout THEN IdleTimeout ELSE AbsoluteTimeout)
    BY <1>1, <1>5, <1>8 DEF Absolute
  <2>4. session'[s] # Absent =>
          session'[s].expires <= session'[s].created
               + (IF IdleTimeout > AbsoluteTimeout THEN IdleTimeout ELSE AbsoluteTimeout)
    BY <1>1, <1>5, <2>3 DEF SessionInv, SessionLifetime
  <2>5. session'[s] # Absent /\ session'[s].revoked = NONE =>
          \/ session'[s].expires + Slack >= lastUse'[s] + IdleTimeout
          \/ session'[s].expires + Slack >= Absolute(s)'
    BY <1>5, <1>8, <2>2
  <2>6. \A t \in StaffToken \ {s} : t \in Token /\ Absolute(t)' = Absolute(t)
    BY <1>3 DEF Absolute, Token
  <2>7. \A t \in StaffToken \ {s} : session'[t] # Absent =>
          /\ session'[t].expires <= session'[t].created
               + (IF IdleTimeout > AbsoluteTimeout THEN IdleTimeout ELSE AbsoluteTimeout)
          /\ session'[t].revoked = NONE =>
               \/ session'[t].expires + Slack >= lastUse'[t] + IdleTimeout
               \/ session'[t].expires + Slack >= Absolute(t)'
    BY <1>3, <2>6 DEF SessionInv, SessionLifetime
  <2>8. QED
    BY <2>4, <2>5, <2>7 DEF SessionLifetime
<1>14. \A t \in Token : Used(t)'
  BY <1>11, <1>12
<1>15. QED
  BY <1>6, <1>10, <1>13, <1>14 DEF SessionInv

LEMMA LogoutKeepsSessions ==
  ASSUME SessionInv, NEW s \in Token, Logout(s)
  PROVE  SessionInv'
<1> USE SessionConstants
<1>1. UNCHANGED <<clock, issued, request, lastUse>>
  BY DEF Logout
<1>2. session[s] \in Row /\ clock \in Nat
  BY DEF SessionInv, SessionTypes, Logout
<1>3. session' = [session EXCEPT ![s] = [session[s] EXCEPT !.revoked = clock]]
  BY DEF Logout
<1>4. /\ session'[s] \in Row /\ session'[s].revoked # NONE
      /\ session'[s].created = session[s].created /\ session'[s].expires = session[s].expires
      /\ \A t \in Token \ {s} : session'[t] = session[t]
  BY <1>2, <1>3 DEF SessionInv, SessionTypes, Row
<1>5. session[s] # Absent /\ session'[s] # Absent
  BY <1>2, <1>4
<1>6. SessionTypes'
  BY <1>1, <1>3, <1>4 DEF SessionInv, SessionTypes
<1>7. \A t \in Token : Absolute(t)' = Absolute(t) /\ (session'[t] = Absent <=> session[t] = Absent)
  BY <1>4, <1>5 DEF Absolute
<1>8. \A r \in Request : Fresh(r)' /\ Extension(r)'
  BY <1>1, <1>7 DEF SessionInv, Fresh, Extension, Token
<1>a. \A t \in Token : session'[t] # Absent =>
         /\ session[t] # Absent
         /\ session'[t].created = session[t].created /\ session'[t].expires = session[t].expires
         /\ session'[t].revoked = NONE => session[t].revoked = NONE
  BY <1>2, <1>4, <1>5
<1>9. \A t \in Token : Used(t)'
  BY <1>1, <1>7, <1>a DEF SessionInv, Used
<1>10. SessionLifetime'
  BY <1>1, <1>7, <1>a DEF SessionInv, SessionLifetime, Token
<1>11. QED
  BY <1>6, <1>8, <1>9, <1>10 DEF SessionInv

LEMMA CleanupKeepsSessions ==
  ASSUME SessionInv, DeleteExpiredSessions
  PROVE  SessionInv'
<1>1. UNCHANGED <<clock, issued, request, lastUse>>
  BY DEF DeleteExpiredSessions
<1>2. session' \in [Token -> Row \cup {Absent}]
  BY DEF SessionInv, SessionTypes, DeleteExpiredSessions
<1>3. \A t \in Token : session'[t] # Absent => session[t] = session'[t] /\ Absolute(t)' = Absolute(t)
  BY DEF DeleteExpiredSessions, Absolute
<1>4. SessionTypes'
  BY <1>1, <1>2 DEF SessionInv, SessionTypes
<1>5. \A r \in Request : Fresh(r)' /\ Extension(r)'
  BY <1>1, <1>3 DEF SessionInv, Fresh, Extension, Token
<1>6. \A t \in Token : Used(t)'
  BY <1>1, <1>3 DEF SessionInv, Used
<1>7. SessionLifetime'
  BY <1>1, <1>3 DEF SessionInv, SessionLifetime, Token
<1>8. QED
  BY <1>4, <1>5, <1>6, <1>7 DEF SessionInv

LEMMA TickKeepsSessions ==
  ASSUME SessionInv, Tick
  PROVE  SessionInv'
<1> USE SessionConstants
<1>1. UNCHANGED <<session, issued, request, lastUse>> /\ clock' = clock + 1 /\ clock \in Nat
  BY DEF Tick, SessionInv, SessionTypes
<1>2. SessionTypes'
  BY <1>1 DEF SessionInv, SessionTypes
<1>3. \A r \in Request : request[r].now \in Nat
  BY DEF SessionInv, SessionTypes
<1>4. \A r \in Request : Fresh(r)'
  BY <1>1, <1>3 DEF SessionInv, Fresh, Tick
<1>5. \A r \in Request : Extension(r)'
  BY <1>1 DEF SessionInv, Extension, Absolute
<1>6. \A t \in Token : lastUse[t] \in Nat
  BY DEF SessionInv, SessionTypes
<1>7. \A t \in Token : Used(t)'
  BY <1>1, <1>6 DEF SessionInv, Used, Absolute
<1>8. SessionLifetime'
  BY <1>1 DEF SessionInv, SessionLifetime, Absolute
<1>9. QED
  BY <1>2, <1>4, <1>5, <1>7, <1>8 DEF SessionInv

(* Steps of the sessions, and steps that only let go of a request. *)
SessionAction ==
  \/ \E s \in Token : Login(s) \/ LoginTelegram(s) \/ Logout(s)
  \/ \E r \in Request, s \in Token : Authenticate(r, s)
  \/ \E r \in Request : Extend(r) \/ Fail(r)
  \/ DeleteExpiredSessions
  \/ Tick

Release ==
  \E r \in Request : /\ request' = [request EXCEPT ![r] = NewRequest]
                     /\ UNCHANGED <<clock, session, issued, lastUse>>

LEMMA ReleaseKeepsSessions == SessionInv /\ Release => SessionInv'
<1> SUFFICES ASSUME SessionInv, NEW r \in Request,
                    request' = [request EXCEPT ![r] = NewRequest],
                    UNCHANGED <<clock, session, issued, lastUse>>
             PROVE  SessionInv'
  BY DEF Release
<1>1. request' \in [Request -> [stage : {"idle", "extending", "accepted"},
                               token : Token \cup {NONE}, now : Nat, expires : Nat]]
  BY DEF SessionInv, SessionTypes, NewRequest
<1>2. \A q \in Request : request'[q] = request[q] \/ request'[q].stage = "idle"
  BY DEF SessionInv, SessionTypes, NewRequest
<1>3. QED
  BY <1>1, <1>2, ReleasingKeepsSessions

LEMMA SessionActionKeeps == SessionInv /\ SessionAction => SessionInv'
<1> SUFFICES ASSUME SessionInv, SessionAction PROVE SessionInv'
  OBVIOUS
<1>1. ASSUME NEW s \in Token, Login(s) PROVE SessionInv'
  BY <1>1, NewSessionKeepsSessions, SessionConstants DEF Login
<1>2. ASSUME NEW s \in Token, LoginTelegram(s) PROVE SessionInv'
  BY <1>2, NewSessionKeepsSessions, SessionConstants DEF LoginTelegram
<1>3. ASSUME NEW r \in Request, Fail(r) PROVE SessionInv'
  BY <1>3, ReleaseKeepsSessions DEF Fail, Release
<1>4. QED
  BY <1>1, <1>2, <1>3, AuthenticateKeepsSessions, ExtendKeepsSessions, LogoutKeepsSessions,
     CleanupKeepsSessions, TickKeepsSessions DEF SessionAction

LEMMA StutterKeepsSessions == SessionInv /\ UNCHANGED sessionVars => SessionInv'
BY DEF SessionInv, SessionTypes, Fresh, Extension, Used, SessionLifetime, Absolute, sessionVars

(* What each step of Portal does to the sessions. *)
LEMMA PortalStepsOnSessions == Next => SessionAction \/ Release \/ UNCHANGED sessionVars
<1> SUFFICES ASSUME Next PROVE SessionAction \/ Release \/ UNCHANGED sessionVars
  OBVIOUS
<1>1. CASE SessionStep
  BY <1>1 DEF SessionStep, SessionAction
<1>2. CASE \E v \in Version : PublishConsent(v)
  BY <1>2 DEF PublishConsent
<1>3. ASSUME NEW r \in Request, Finish(r) PROVE Release
  BY <1>3 DEF Finish, Release
<1>4. ASSUME NEW r \in Request, StaffStep(r) PROVE Release
  BY <1>3, <1>4 DEF StaffStep, CreateEvent, Publish, UpdateRegistration
<1>5. ASSUME NEW r \in Request, SignupStep(r) PROVE Release \/ UNCHANGED sessionVars
  BY <1>3, <1>5 DEF SignupStep, BeginSignup, TakeSeat, Register, Undo
<1>6. ASSUME NEW r \in Request, ProfileStep(r) PROVE Release \/ UNCHANGED sessionVars
  BY <1>3, <1>6 DEF ProfileStep, InsertProfile, UpdateProfile, Save, BeginSelf, DeleteProfile,
                    ClearSelf, WriteSelf
<1>7. QED
  BY <1>1, <1>2, <1>4, <1>5, <1>6 DEF Next

LEMMA SessionsInvariant == Spec => []SessionInv
<1>1. PortalInit => SessionInv
  BY SessionInitial DEF PortalInit
<1>2. SessionInv /\ [Next]_vars => SessionInv'
  BY PortalStepsOnSessions, ReleaseKeepsSessions, SessionActionKeeps, StutterKeepsSessions DEF vars
<1>3. QED
  BY <1>1, <1>2, PTL DEF Spec

(* The expiry of a staff session follows its last use, in whatever order   *)
(* the extensions that several requests computed are written.              *)
THEOREM ExpiryFollowsUse == Spec => []SessionLifetime
<1>1. SessionInv => SessionLifetime
  BY DEF SessionInv
<1>2. QED
  BY <1>1, SessionsInvariant, PTL

Ends ==
  \A s \in Token : session[s] # Absent =>
    /\ session[s].revoked # NONE => session'[s] \in {session[s], Absent}
    /\ session[s].revoked = NONE /\ session'[s] = Absent =>
         lastUse[s] + SessionRetention < clock

LEMMA NewSessionEnds ==
  ASSUME SessionInv, NEW s \in Token, NEW lifetime \in Nat, NewSession(s, lifetime)
  PROVE  Ends
<1>1. session[s] = Absent
  BY DEF SessionInv, Used, NewSession
<1>2. \A t \in Token \ {s} : session'[t] = session[t]
  BY DEF SessionInv, SessionTypes, NewSession
<1>3. QED
  BY <1>1, <1>2 DEF Ends

LEMMA ExtendEnds ==
  ASSUME SessionInv, NEW r \in Request, Extend(r)
  PROVE  Ends
<1> DEFINE s == request[r].token
           e == request[r].expires
<1>1. s \in Token /\ e \in Nat
  BY DEF SessionInv, SessionTypes, Extension, Extend, Token
<1>2. \A t \in Token \ {s} : session'[t] = session[t]
  BY DEF SessionInv, SessionTypes, Extend
<1>3. session'[s] = IF session[s] # Absent /\ session[s].revoked = NONE
                      THEN [session[s] EXCEPT !.expires = e] ELSE session[s]
  BY <1>1 DEF SessionInv, SessionTypes, Extend
<1>4. session[s] # Absent /\ session[s].revoked = NONE => session'[s] # Absent
  <2>1. session[s] # Absent => session[s] \in Row
    BY <1>1 DEF SessionInv, SessionTypes
  <2>2. session[s] \in Row => [session[s] EXCEPT !.expires = e] \in Row
    BY <1>1 DEF Row
  <2>3. QED
    BY <1>3, <2>1, <2>2, SessionConstants
<1>5. QED
  BY <1>2, <1>3, <1>4 DEF Ends

LEMMA LogoutEnds ==
  ASSUME SessionInv, NEW s \in Token, Logout(s)
  PROVE  Ends
<1>1. session[s] \in Row /\ clock \in Nat /\ session[s].revoked = NONE
  BY DEF SessionInv, SessionTypes, Logout
<1>2. session' = [session EXCEPT ![s] = [session[s] EXCEPT !.revoked = clock]]
  BY DEF Logout
<1>3. session'[s] \in Row /\ \A t \in Token \ {s} : session'[t] = session[t]
  BY <1>1, <1>2 DEF SessionInv, SessionTypes, Row
<1>4. session'[s] # Absent
  BY <1>3, SessionConstants
<1>5. QED
  BY <1>1, <1>3, <1>4 DEF Ends

LEMMA CleanupEnds ==
  ASSUME SessionInv, DeleteExpiredSessions
  PROVE  Ends
<1>1. session' = [s \in Token |-> IF Over(s, clock - SessionRetention) THEN Absent ELSE session[s]]
  BY DEF DeleteExpiredSessions
<1>2. \A s \in Token : session'[s] \in {session[s], Absent}
  BY <1>1
<1>3. ASSUME NEW s \in Token, session[s] # Absent, session[s].revoked = NONE, session'[s] = Absent
      PROVE  lastUse[s] + SessionRetention < clock
  <2>1. session[s].expires < clock - SessionRetention
    BY <1>1, <1>3 DEF Over
  <2>2. lastUse[s] <= session[s].expires
    BY <1>3 DEF SessionInv, Used
  <2>3. lastUse[s] \in Nat /\ session[s].expires \in Nat /\ clock \in Nat
    BY <1>3 DEF SessionInv, SessionTypes, Row
  <2>4. QED
    BY <2>1, <2>2, <2>3, SessionConstants
<1>4. QED
  BY <1>2, <1>3 DEF Ends

(* A revoked session is final, and no other is cleaned up too early: the   *)
(* extension that a request writes late finds no row, or moves the expiry  *)
(* of a live one no further back than the session was used.                *)
THEOREM RevocationFinal == Spec => SessionsEndOnce
<1>1. SessionInv /\ UNCHANGED session => Ends
  BY DEF SessionInv, SessionTypes, Ends
<1>2. SessionInv /\ SessionAction => Ends
  <2> SUFFICES ASSUME SessionInv, SessionAction PROVE Ends
    OBVIOUS
  <2>1. ASSUME NEW s \in Token, Login(s) \/ LoginTelegram(s) PROVE Ends
    BY <2>1, NewSessionEnds, SessionConstants DEF Login, LoginTelegram
  <2>2. ASSUME NEW r \in Request, NEW s \in Token, Authenticate(r, s) PROVE Ends
    BY <2>2, <1>1 DEF Authenticate
  <2>3. ASSUME NEW r \in Request, Fail(r) PROVE Ends
    BY <2>3, <1>1 DEF Fail
  <2>4. ASSUME Tick PROVE Ends
    BY <2>4, <1>1 DEF Tick
  <2>5. QED
    BY <2>1, <2>2, <2>3, <2>4, ExtendEnds, LogoutEnds, CleanupEnds DEF SessionAction
<1>3. SessionInv /\ [Next]_vars => [Ends]_sessionVars
  BY <1>1, <1>2, PortalStepsOnSessions DEF vars, sessionVars, Release
<1>4. QED
  BY <1>3, SessionsInvariant, PTL DEF Spec, SessionsEndOnce, Ends

-----------------------------------------------------------------------------
(* Profiles.  One transaction at a time chooses the self profile, and once *)
(* it has cleared, the marked ones are those it cleared and its own.       *)
WorkTypes ==
  /\ work \in [Request -> [kind : {"none", "signup", "seated", "choosing", "cleared"},
                           item : Signup \cup Profile \cup {NONE}, cleared : SUBSET Profile]]
  /\ \A r \in Request :
       /\ work[r].kind \in {"signup", "seated"} => work[r].item \in Signup
       /\ work[r].kind \in {"choosing", "cleared"} => work[r].item \in Profile

Chooses(r) == work[r].kind \in {"choosing", "cleared"}

SelfInv ==
  /\ WorkTypes
  /\ self \in [Profile -> BOOLEAN \cup {Absent}]
  /\ \A r, q \in Request : Chooses(r) /\ Chooses(q) => r = q
  /\ \A r \in Request : work[r].kind = "cleared" =>
       \A p \in Profile : self[p] = TRUE => p = work[r].item \/ p \in work[r].cleared
  /\ OneSelfProfile

LEMMA FinishWork ==
  ASSUME WorkTypes, NEW r \in Request, Finish(r)
  PROVE  /\ WorkTypes' /\ work'[r].kind = "none"
         /\ \A q \in Request \ {r} : work'[q] = work[q]
BY DEF WorkTypes, Finish, NoWork

LEMMA AbsentIsNoMark == Absent # TRUE /\ FALSE # TRUE
<1>1. TRUE \in BOOLEAN
  OBVIOUS
<1>2. Absent # TRUE
  BY <1>1, PortalConstants
<1>3. QED
  BY <1>2

(* A step of a request that neither chooses nor marks a profile. *)
LEMMA NotChoosingKeepsSelf ==
  ASSUME SelfInv, NEW r \in Request, WorkTypes', work'[r].kind \notin {"choosing", "cleared"},
         \A q \in Request \ {r} : work'[q] = work[q],
         self' \in [Profile -> BOOLEAN \cup {Absent}],
         \A p \in Profile : self'[p] = TRUE => self[p] = TRUE
  PROVE  SelfInv'
BY DEF SelfInv, Chooses, OneSelfProfile

LEMMA BeginSelfKeepsSelf ==
  ASSUME SelfInv, NEW r \in Request, NEW p \in Profile, BeginSelf(r, p)
  PROVE  SelfInv'
<1>1. /\ work'[r] = [NoWork EXCEPT !.kind = "choosing", !.item = p]
      /\ \A q \in Request \ {r} : work'[q] = work[q] /\ ~Chooses(q)
      /\ self' = self
  BY DEF SelfInv, WorkTypes, BeginSelf, UserLocked, Chooses
<1>2. work'[r].kind = "choosing" /\ work'[r].item = p
  BY <1>1 DEF NoWork
<1>3. WorkTypes'
  BY <1>1, <1>2 DEF SelfInv, WorkTypes, BeginSelf, NoWork
<1>4. QED
  BY <1>1, <1>2, <1>3 DEF SelfInv, Chooses, OneSelfProfile

LEMMA ClearSelfKeepsSelf ==
  ASSUME SelfInv, NEW r \in Request, ClearSelf(r)
  PROVE  SelfInv'
<1> DEFINE others == {p \in Profile \ {work[r].item} : self[p] = TRUE}
<1>1. work' = [work EXCEPT ![r].kind = "cleared", ![r].cleared = others] /\ self' = self
  BY DEF ClearSelf
<1>2. /\ work'[r].kind = "cleared" /\ work'[r].cleared = others
      /\ work'[r].item = work[r].item /\ work[r].kind = "choosing"
      /\ \A q \in Request \ {r} : work'[q] = work[q]
  BY <1>1 DEF SelfInv, WorkTypes, ClearSelf, Working
<1>3. WorkTypes'
  BY <1>1, <1>2 DEF SelfInv, WorkTypes
<1>4. \A q \in Request : Chooses(q)' <=> Chooses(q)
  BY <1>2 DEF Chooses
<1>5. \A p \in Profile : self[p] = TRUE => p = work'[r].item \/ p \in work'[r].cleared
  BY <1>2
<1>6. \A q \in Request \ {r} : work'[q].kind # "cleared"
  BY <1>2 DEF SelfInv, Chooses
<1>7. QED
  BY <1>1, <1>3, <1>4, <1>5, <1>6 DEF SelfInv, OneSelfProfile

LEMMA WriteSelfKeepsSelf ==
  ASSUME SelfInv, NEW r \in Request, WriteSelf(r)
  PROVE  SelfInv'
<1>1. self' = [p \in Profile |-> IF p = work[r].item THEN TRUE
                                ELSE IF p \in work[r].cleared THEN FALSE ELSE self[p]]
  BY DEF WriteSelf
<1>2. WorkTypes' /\ work'[r].kind = "none" /\ \A q \in Request \ {r} : work'[q] = work[q]
  BY FinishWork DEF SelfInv, WriteSelf, NoWork
<1>3. \A p \in Profile : self[p] = TRUE => p = work[r].item \/ p \in work[r].cleared
  BY DEF SelfInv, WriteSelf, Working
<1>4. \A p \in Profile : self'[p] = TRUE => p = work[r].item
  BY <1>1, <1>3
<1>5. \A q \in Request : ~Chooses(q)'
  BY <1>2 DEF SelfInv, Chooses, WriteSelf, Working
<1>6. self' \in [Profile -> BOOLEAN \cup {Absent}]
  BY <1>1 DEF SelfInv
<1>7. QED
  BY <1>2, <1>4, <1>5, <1>6 DEF SelfInv, Chooses, OneSelfProfile

LEMMA StepKeepsSelf == SelfInv /\ [Next]_vars => SelfInv'
<1> SUFFICES ASSUME SelfInv, [Next]_vars PROVE SelfInv'
  OBVIOUS
<1> USE PortalConstants
<1>1. UNCHANGED <<self, work>> => SelfInv'
  BY DEF SelfInv, WorkTypes, Chooses, OneSelfProfile
<1>2. ASSUME NEW r \in Request, Finish(r), self' = self PROVE SelfInv'
  BY <1>2, FinishWork, NotChoosingKeepsSelf DEF SelfInv
<1>3. ASSUME NEW r \in Request, NEW p \in Profile, NEW mark \in {FALSE, Absent}, Finish(r),
             self' = [self EXCEPT ![p] = mark]
      PROVE  SelfInv'
  <2>1. WorkTypes' /\ work'[r].kind = "none" /\ \A q \in Request \ {r} : work'[q] = work[q]
    BY <1>3, FinishWork DEF SelfInv
  <2>2. self' \in [Profile -> BOOLEAN \cup {Absent}]
    BY <1>3 DEF SelfInv
  <2>3. mark # TRUE
    BY AbsentIsNoMark
  <2>4. \A q \in Profile : self'[q] = TRUE => self[q] = TRUE
    BY <1>3, <2>3 DEF SelfInv
  <2>5. QED
    BY <2>1, <2>2, <2>4, NotChoosingKeepsSelf
<1>4. ASSUME NEW r \in Request, StaffStep(r) PROVE SelfInv'
  BY <1>2, <1>4 DEF StaffStep, CreateEvent, Publish, UpdateRegistration
<1>5. ASSUME NEW r \in Request, NEW s \in Signup, BeginSignup(r, s) PROVE SelfInv'
  <2>1. /\ work'[r].kind = "signup" /\ work'[r].item = s /\ self' = self
        /\ \A q \in Request \ {r} : work'[q] = work[q]
    BY <1>5 DEF SelfInv, WorkTypes, BeginSignup, NoWork
  <2>2. WorkTypes'
    BY <1>5, <2>1 DEF SelfInv, WorkTypes, BeginSignup, NoWork
  <2>3. QED
    BY <2>1, <2>2, NotChoosingKeepsSelf DEF SelfInv
<1>6. ASSUME NEW r \in Request, TakeSeat(r) PROVE SelfInv'
  <2>1. /\ work' = [work EXCEPT ![r].kind = "seated"] /\ self' = self
        /\ work[r].kind = "signup"
    BY <1>6 DEF TakeSeat, Working
  <2>2. work'[r].kind = "seated" /\ \A q \in Request \ {r} : work'[q] = work[q]
    BY <2>1 DEF SelfInv, WorkTypes
  <2>3. WorkTypes'
    BY <2>1, <2>2 DEF SelfInv, WorkTypes
  <2>4. QED
    BY <2>1, <2>2, <2>3, NotChoosingKeepsSelf DEF SelfInv
<1>7. ASSUME NEW r \in Request, Register(r) \/ Undo(r) PROVE SelfInv'
  BY <1>2, <1>7 DEF Register, Undo
<1>8. ASSUME NEW r \in Request, SignupStep(r) PROVE SelfInv'
  BY <1>5, <1>6, <1>7, <1>8 DEF SignupStep
<1>9. ASSUME NEW r \in Request, ProfileStep(r) PROVE SelfInv'
  BY <1>3, <1>9, BeginSelfKeepsSelf, ClearSelfKeepsSelf, WriteSelfKeepsSelf
     DEF ProfileStep, InsertProfile, UpdateProfile, Save, DeleteProfile
<1>10. QED
  BY <1>1, <1>4, <1>8, <1>9 DEF Next, SessionStep, PublishConsent, portalVars, vars

LEMMA SelfInitial == PortalInit => SelfInv
<1> SUFFICES ASSUME PortalInit PROVE SelfInv
  OBVIOUS
<1>1. WorkTypes /\ \A r \in Request : work[r].kind = "none"
  BY DEF PortalInit, WorkTypes, NoWork
<1>2. self \in [Profile -> BOOLEAN \cup {Absent}] /\ \A p \in Profile : self[p] = Absent
  BY DEF PortalInit
<1>3. OneSelfProfile
  BY <1>2, AbsentIsNoMark DEF OneSelfProfile
<1>4. QED
  BY <1>1, <1>2, <1>3 DEF SelfInv, Chooses

(* A runner has at most one profile of their own, because the runner's row *)
(* stays locked from before the others are cleared until the commit.       *)
THEOREM SelfIsUnique == Spec => []OneSelfProfile
<1>1. SelfInv => OneSelfProfile
  BY DEF SelfInv
<1>2. QED
  BY <1>1, SelfInitial, StepKeepsSelf, PTL DEF Spec

-----------------------------------------------------------------------------
(* Free signups.  Whoever has taken a seat of a category keeps its row     *)
(* locked, so that at most one seat of it is not a signup yet.             *)
SignedUp(c) == {s \in signup : s.category = c}

Counted(c) ==
  used[c] = Cardinality(SignedUp(c)) + Cardinality(Seated(c)) /\ used[c] <= Capacity[c]

SignupsValid ==
  /\ \A s, t \in signup : s.category = t.category /\ s.person = t.person => s = t
  /\ \A s \in signup : s.version \in published
  /\ EventLocked => event.open

SeatInv ==
  /\ WorkTypes
  /\ event \in [status : {"none", "DRAFT", "PUBLISHED"}, open : BOOLEAN]
  /\ signup \subseteq Signup /\ IsFiniteSet(signup)
  /\ used \in [Category -> Nat]
  /\ \A r, q \in Request :
       work[r].kind = "seated" /\ work[q].kind = "seated"
       /\ work[r].item.category = work[q].item.category => r = q
  /\ \A c \in Category : Counted(c)
  /\ SignupsValid

LEMMA SignedUpFinite ==
  ASSUME SeatInv, NEW c
  PROVE  IsFiniteSet(SignedUp(c)) /\ Cardinality(SignedUp(c)) \in Nat
<1>1. SignedUp(c) \subseteq signup
  BY DEF SignedUp
<1>2. IsFiniteSet(SignedUp(c))
  BY <1>1, FS_Subset DEF SeatInv
<1>3. QED
  BY <1>2, FS_CardinalityType

LEMMA SeatedAlone ==
  ASSUME SeatInv, NEW r \in Request, work[r].kind = "seated"
  PROVE  Seated(work[r].item.category) = {r} /\ Cardinality(Seated(work[r].item.category)) = 1
<1>1. Seated(work[r].item.category) = {r}
  BY DEF SeatInv, Seated
<1>2. QED
  BY <1>1, FS_Singleton

(* A step that changes no seat. *)
LEMMA SameSeats ==
  ASSUME SeatInv, WorkTypes', UNCHANGED <<used, signup>>, published \subseteq published',
         event' \in [status : {"none", "DRAFT", "PUBLISHED"}, open : BOOLEAN],
         EventLocked' => event'.open,
         \A r \in Request : \/ work'[r] = work[r]
                            \/ work[r].kind # "seated" /\ work'[r].kind # "seated"
  PROVE  SeatInv'
<1>1. \A r \in Request : /\ work'[r].kind = "seated" <=> work[r].kind = "seated"
                         /\ work[r].kind = "seated" => work'[r] = work[r]
  OBVIOUS
<1>2. \A c : Seated(c)' = Seated(c)
  BY <1>1 DEF Seated
<1>3. \A c \in Category : Counted(c)'
  BY <1>2 DEF SeatInv, Counted, SignedUp
<1>4. SignupsValid'
  BY DEF SeatInv, SignupsValid
<1>5. QED
  BY <1>1, <1>3, <1>4 DEF SeatInv

LEMMA TakeSeatKeepsSeats ==
  ASSUME SeatInv, NEW r \in Request, TakeSeat(r)
  PROVE  SeatInv'
<1> USE PortalConstants
<1> SUFFICES ASSUME NEW c, c = work[r].item.category PROVE SeatInv'
  OBVIOUS
<1>1. /\ work[r].kind = "signup" /\ work' = [work EXCEPT ![r].kind = "seated"]
      /\ used' = [used EXCEPT ![c] = @ + 1] /\ used[c] + 1 <= Capacity[c]
      /\ UNCHANGED <<event, signup, published>>
  BY DEF TakeSeat, Working
<1>2. work[r].item \in Signup /\ c \in Category
  BY <1>1 DEF SeatInv, WorkTypes, Signup
<1>3. /\ work'[r].kind = "seated" /\ work'[r].item = work[r].item
      /\ \A q \in Request \ {r} : work'[q] = work[q]
  BY <1>1 DEF SeatInv, WorkTypes
<1>4. WorkTypes'
  BY <1>1, <1>2, <1>3 DEF SeatInv, WorkTypes
<1>5. Seated(c) = {} /\ Seated(c)' = {r}
  BY <1>1, <1>3 DEF TakeSeat, CategoryLocked, Seated
<1>6. \A d : d # c => Seated(d)' = Seated(d)
  BY <1>1, <1>3 DEF Seated
<1>7. Cardinality(Seated(c)) = 0 /\ Cardinality(Seated(c)') = 1
  BY <1>5, FS_EmptySet, FS_Singleton
<1>8. used' \in [Category -> Nat] /\ used'[c] = used[c] + 1 /\ \A d \in Category \ {c} : used'[d] = used[d]
  BY <1>1, <1>2 DEF SeatInv
<1>9. used[c] = Cardinality(SignedUp(c)) + 0 /\ Cardinality(SignedUp(c)) \in Nat
  BY <1>2, <1>7, SignedUpFinite DEF SeatInv, Counted
<1>10. \A d : SignedUp(d)' = SignedUp(d)
  BY <1>1 DEF SignedUp
<1>a. Counted(c)'
  BY <1>1, <1>7, <1>8, <1>9, <1>10 DEF Counted
<1>11. \A d \in Category : Counted(d)'
  BY <1>6, <1>8, <1>10, <1>a DEF SeatInv, Counted
<1>12. EventLocked' => event'.open
  BY <1>1, <1>3 DEF SeatInv, SignupsValid, EventLocked
<1>13. SignupsValid'
  BY <1>1, <1>12 DEF SeatInv, SignupsValid
<1>14. \A q, p \in Request :
         work'[q].kind = "seated" /\ work'[p].kind = "seated"
         /\ work'[q].item.category = work'[p].item.category => q = p
  BY <1>3, <1>5 DEF SeatInv, Seated
<1>15. QED
  BY <1>1, <1>4, <1>8, <1>11, <1>13, <1>14 DEF SeatInv

(* The request that holds a seat of category c gives it up. *)
LEMMA SeatGivenUp ==
  ASSUME SeatInv, NEW r \in Request, work[r].kind = "seated", NEW c, c = work[r].item.category, Finish(r)
  PROVE  /\ WorkTypes' /\ c \in Category
         /\ used[c] = Cardinality(SignedUp(c)) + 1 /\ Cardinality(SignedUp(c)) \in Nat
         /\ Seated(c)' = {} /\ Cardinality(Seated(c)') = 0
         /\ \A d : d # c => Seated(d)' = Seated(d)
         /\ EventLocked' => event.open
         /\ \A q, p \in Request :
              work'[q].kind = "seated" /\ work'[p].kind = "seated"
              /\ work'[q].item.category = work'[p].item.category => q = p
<1>1. WorkTypes' /\ work'[r].kind = "none" /\ \A q \in Request \ {r} : work'[q] = work[q]
  BY FinishWork DEF SeatInv
<1>2. work[r].item \in Signup /\ c \in Category
  BY DEF SeatInv, WorkTypes, Signup
<1>3. Seated(c) = {r} /\ Cardinality(Seated(c)) = 1
  BY SeatedAlone
<1>4. used[c] = Cardinality(SignedUp(c)) + 1 /\ Cardinality(SignedUp(c)) \in Nat
  <2>1. Counted(c)
    BY <1>2 DEF SeatInv
  <2>2. used[c] = Cardinality(SignedUp(c)) + Cardinality(Seated(c))
    BY <2>1 DEF Counted
  <2>3. Cardinality(Seated(c)) = 1
    BY <1>3
  <2>4. QED
    BY <2>2, <2>3, SignedUpFinite
<1>5. Seated(c)' = {} /\ \A d : d # c => Seated(d)' = Seated(d)
  BY <1>1, <1>3 DEF Seated
<1>6. Cardinality(Seated(c)') = 0
  BY <1>5, FS_EmptySet
<1>7. EventLocked' => event.open
  BY <1>1 DEF SeatInv, SignupsValid, EventLocked
<1>8. \A q, p \in Request :
        work'[q].kind = "seated" /\ work'[p].kind = "seated"
        /\ work'[q].item.category = work'[p].item.category => q = p
  BY <1>1 DEF SeatInv
<1>9. QED
  BY <1>1, <1>2, <1>4, <1>5, <1>6, <1>7, <1>8

LEMMA RegisterKeepsSeats ==
  ASSUME SeatInv, NEW r \in Request, Register(r)
  PROVE  SeatInv'
<1> SUFFICES ASSUME NEW s, s = work[r].item, NEW c, c = s.category PROVE SeatInv'
  OBVIOUS
<1>1. /\ work[r].kind = "seated" /\ Finish(r) /\ UNCHANGED <<event, used, published>>
      /\ signup' = signup \cup {s} /\ s.version \in published
      /\ \A t \in signup : ~(t.category = c /\ t.person = s.person)
  BY DEF Register, Working, Duplicate, Known
<1>2. s \in Signup /\ s \notin signup
  BY <1>1 DEF SeatInv, WorkTypes
<1>3. SignedUp(c)' = SignedUp(c) \cup {s} /\ s \notin SignedUp(c)
  BY <1>1, <1>2 DEF SignedUp
<1>4. \A d : d # c => SignedUp(d)' = SignedUp(d)
  BY <1>1 DEF SignedUp
<1>5. IsFiniteSet(signup')
  BY <1>1, FS_AddElement DEF SeatInv
<1>6. Cardinality(SignedUp(c)') = Cardinality(SignedUp(c)) + 1
  BY <1>3, SignedUpFinite, FS_AddElement
<1>7. /\ WorkTypes' /\ c \in Category
      /\ used[c] = Cardinality(SignedUp(c)) + 1 /\ Cardinality(SignedUp(c)) \in Nat
      /\ Cardinality(Seated(c)') = 0
      /\ \A d : d # c => Seated(d)' = Seated(d)
      /\ EventLocked' => event.open
      /\ \A q, p \in Request :
           work'[q].kind = "seated" /\ work'[p].kind = "seated"
           /\ work'[q].item.category = work'[p].item.category => q = p
  BY <1>1, SeatGivenUp
<1>8. Counted(c)'
  BY <1>1, <1>6, <1>7 DEF SeatInv, Counted
<1>9. \A d \in Category : Counted(d)'
  BY <1>1, <1>4, <1>7, <1>8 DEF SeatInv, Counted
<1>10. \A x, y \in signup' : x.category = y.category /\ x.person = y.person => x = y
  BY <1>1 DEF SeatInv, SignupsValid
<1>11. SignupsValid'
  BY <1>1, <1>7, <1>10 DEF SeatInv, SignupsValid
<1>12. QED
  BY <1>1, <1>2, <1>5, <1>7, <1>9, <1>11 DEF SeatInv

LEMMA UndoKeepsSeats ==
  ASSUME SeatInv, NEW r \in Request, Undo(r)
  PROVE  SeatInv'
<1>1. Finish(r) /\ UNCHANGED <<event, signup, published>>
  BY DEF Undo
<1>2. CASE work[r].kind = "seated"
  <2> SUFFICES ASSUME NEW c, c = work[r].item.category PROVE SeatInv'
    OBVIOUS
  <2>1. /\ WorkTypes' /\ c \in Category
        /\ used[c] = Cardinality(SignedUp(c)) + 1 /\ Cardinality(SignedUp(c)) \in Nat
        /\ Cardinality(Seated(c)') = 0
        /\ \A d : d # c => Seated(d)' = Seated(d)
        /\ EventLocked' => event.open
        /\ \A q, p \in Request :
             work'[q].kind = "seated" /\ work'[p].kind = "seated"
             /\ work'[q].item.category = work'[p].item.category => q = p
    BY <1>1, <1>2, SeatGivenUp
  <2>2. used' = [used EXCEPT ![c] = @ - 1]
    BY <1>2 DEF Undo
  <2>3. /\ used' \in [Category -> Nat] /\ used'[c] = used[c] - 1
        /\ \A d \in Category \ {c} : used'[d] = used[d]
    BY <2>1, <2>2 DEF SeatInv
  <2>4. used'[c] = Cardinality(SignedUp(c)) + Cardinality(Seated(c)') /\ used'[c] <= used[c]
    BY <2>1, <2>3
  <2>5. \A d : SignedUp(d)' = SignedUp(d)
    BY <1>1 DEF SignedUp
  <2>6. Counted(c)'
    <3>1. used[c] <= Capacity[c] /\ Capacity[c] \in Nat /\ used[c] \in Nat
      BY <2>1, PortalConstants DEF SeatInv, Counted
    <3>2. used'[c] <= Capacity[c]
      BY <2>3, <3>1
    <3>3. QED
      BY <2>4, <2>5, <3>2 DEF Counted
  <2>7. \A d \in Category : Counted(d)'
    BY <2>1, <2>3, <2>5, <2>6 DEF SeatInv, Counted
  <2>8. SignupsValid'
    BY <1>1, <2>1 DEF SeatInv, SignupsValid
  <2>9. QED
    BY <1>1, <2>1, <2>3, <2>7, <2>8 DEF SeatInv
<1>3. CASE work[r].kind # "seated"
  <2>1. WorkTypes' /\ work'[r].kind = "none" /\ \A q \in Request \ {r} : work'[q] = work[q]
    BY <1>1, FinishWork DEF SeatInv
  <2>2. used' = used
    BY <1>3 DEF Undo
  <2>3. EventLocked' => event'.open
    BY <1>1, <2>1 DEF SeatInv, SignupsValid, EventLocked
  <2>4. QED
    BY <1>1, <1>3, <2>1, <2>2, <2>3, SameSeats DEF SeatInv
<1>4. QED
  BY <1>2, <1>3

(* A request that holds no lock on the event ends. *)
LEMMA FinishKeepsSeats ==
  ASSUME SeatInv, NEW r \in Request, Finish(r), work[r].kind \notin {"signup", "seated"},
         UNCHANGED <<used, signup, published>>,
         event' \in [status : {"none", "DRAFT", "PUBLISHED"}, open : BOOLEAN],
         event'.open = event.open \/ ~EventLocked
  PROVE  SeatInv'
<1>1. WorkTypes' /\ work'[r].kind = "none" /\ \A q \in Request \ {r} : work'[q] = work[q]
  BY FinishWork DEF SeatInv
<1>2. EventLocked' => event'.open
  BY <1>1 DEF SeatInv, SignupsValid, EventLocked
<1>3. QED
  BY <1>1, <1>2, SameSeats

(* A transaction takes a lock that is not a seat. *)
LEMMA LockKeepsSeats ==
  ASSUME SeatInv, NEW r \in Request, WorkTypes', \A q \in Request \ {r} : work'[q] = work[q],
         work[r].kind # "seated", work'[r].kind # "seated",
         work'[r].kind = "signup" => event.open,
         UNCHANGED <<event, used, signup, published>>
  PROVE  SeatInv'
<1>1. EventLocked' => event'.open
  BY DEF SeatInv, SignupsValid, EventLocked
<1>2. QED
  BY <1>1, SameSeats DEF SeatInv

LEMMA StepKeepsSeats == SelfInv /\ SelfInv' /\ SeatInv /\ [Next]_vars => SeatInv'
<1> SUFFICES ASSUME SelfInv, SelfInv', SeatInv, [Next]_vars PROVE SeatInv'
  OBVIOUS
<1>1. ASSUME UNCHANGED <<event, used, signup, work>>, published \subseteq published'
      PROVE  SeatInv'
  <2>1. WorkTypes' /\ (EventLocked' => event'.open)
    BY <1>1 DEF SeatInv, WorkTypes, SignupsValid, EventLocked
  <2>2. QED
    BY <1>1, <2>1, SameSeats DEF SeatInv
<1>2. ASSUME NEW r \in Request, StaffStep(r) PROVE SeatInv'
  <2>1. work[r].kind = "none" /\ Finish(r) /\ UNCHANGED <<used, signup, published>>
    BY <1>2 DEF StaffStep, CreateEvent, Publish, UpdateRegistration, Sitting, NoWork
  <2>2. event' \in [status : {"none", "DRAFT", "PUBLISHED"}, open : BOOLEAN]
    BY <1>2 DEF SeatInv, StaffStep, CreateEvent, Publish, UpdateRegistration
  <2>3. event'.open = event.open \/ ~EventLocked
    BY <1>2 DEF SeatInv, StaffStep, CreateEvent, Publish, UpdateRegistration
  <2>4. QED
    BY <2>1, <2>2, <2>3, FinishKeepsSeats
<1>3. ASSUME NEW r \in Request, NEW s \in Signup, BeginSignup(r, s) PROVE SeatInv'
  <2>1. /\ work' = [work EXCEPT ![r] = [NoWork EXCEPT !.kind = "signup", !.item = s]]
        /\ work[r].kind = "none" /\ event.open /\ UNCHANGED <<event, used, signup, published>>
    BY <1>3 DEF BeginSignup, SignupOpen, Sitting, NoWork
  <2>2. work'[r].kind = "signup" /\ \A q \in Request \ {r} : work'[q] = work[q]
    BY <2>1 DEF SeatInv, WorkTypes, NoWork
  <2>3. QED
    BY <2>1, <2>2, LockKeepsSeats DEF SelfInv
<1>4. ASSUME NEW r \in Request, SignupStep(r) PROVE SeatInv'
  BY <1>3, <1>4, TakeSeatKeepsSeats, RegisterKeepsSeats, UndoKeepsSeats DEF SignupStep
<1>5. ASSUME NEW r \in Request, ProfileStep(r) PROVE SeatInv'
  <2>1. UNCHANGED <<event, used, signup, published>>
    BY <1>5 DEF ProfileStep, InsertProfile, UpdateProfile, Save, BeginSelf, DeleteProfile, ClearSelf, WriteSelf
  <2>2. CASE Finish(r)
    <3>1. work[r] = NoWork \/ Working(r, "choosing") \/ Working(r, "cleared")
      BY <1>5 DEF ProfileStep, InsertProfile, UpdateProfile, Save, BeginSelf, DeleteProfile,
                  ClearSelf, WriteSelf, Sitting
    <3>a. work[r].kind \notin {"signup", "seated"}
      BY <3>1 DEF Working, NoWork
    <3>2. QED
      BY <2>1, <2>2, <3>a, FinishKeepsSeats DEF SeatInv
  <2>3. ASSUME NEW p \in Profile, BeginSelf(r, p) PROVE SeatInv'
    <3>1. /\ work' = [work EXCEPT ![r] = [NoWork EXCEPT !.kind = "choosing", !.item = p]]
          /\ work[r].kind = "none"
      BY <2>3 DEF BeginSelf, Sitting, NoWork
    <3>2. work'[r].kind = "choosing" /\ \A q \in Request \ {r} : work'[q] = work[q]
      BY <3>1 DEF SeatInv, WorkTypes, NoWork
    <3>3. QED
      BY <2>1, <3>1, <3>2, LockKeepsSeats DEF SelfInv
  <2>4. CASE ClearSelf(r)
    <3>1. work[r].kind = "choosing" /\ work'[r].kind = "cleared"
          /\ \A q \in Request \ {r} : work'[q] = work[q]
      BY <2>4 DEF SeatInv, WorkTypes, ClearSelf, Working
    <3>2. QED
      BY <2>1, <3>1, LockKeepsSeats DEF SelfInv
  <2>5. QED
    BY <1>5, <2>2, <2>3, <2>4 DEF ProfileStep, InsertProfile, UpdateProfile, Save, DeleteProfile, WriteSelf
<1>6. QED
  BY <1>1, <1>2, <1>4, <1>5 DEF Next, SessionStep, PublishConsent, portalVars, vars

LEMMA SeatsInitial == PortalInit => SeatInv
<1> SUFFICES ASSUME PortalInit PROVE SeatInv
  OBVIOUS
<1> USE PortalConstants
<1>1. WorkTypes /\ \A r \in Request : work[r].kind = "none"
  BY DEF PortalInit, WorkTypes, NoWork
<1>2. \A c : Seated(c) = {} /\ Cardinality(Seated(c)) = 0
  BY <1>1, FS_EmptySet DEF Seated
<1>3. \A c : SignedUp(c) = {} /\ Cardinality(SignedUp(c)) = 0
  BY FS_EmptySet DEF PortalInit, SignedUp
<1>4. signup = {} /\ IsFiniteSet(signup) /\ Cardinality({}) = 0
  BY FS_EmptySet DEF PortalInit
<1>5. used \in [Category -> Nat] /\ \A c \in Category : used[c] = 0 /\ used[c] <= Capacity[c]
  BY DEF PortalInit
<1>6. ~EventLocked
  BY <1>1 DEF EventLocked
<1>a. \A c \in Category : Counted(c)
  BY <1>2, <1>3, <1>5 DEF Counted
<1>7. SignupsValid
  BY <1>4, <1>6 DEF SignupsValid
<1>8. event \in [status : {"none", "DRAFT", "PUBLISHED"}, open : BOOLEAN]
  BY DEF PortalInit
<1>9. QED
  BY <1>1, <1>4, <1>5, <1>7, <1>8, <1>a DEF SeatInv

(* The places of a free event are its signups and the seats that open      *)
(* transactions hold, whatever fails and whoever races for the last one.   *)
THEOREM SeatsCounted == Spec => []SeatsAreSignups
<1>1. SelfInv /\ SeatInv => SeatsAreSignups
  BY DEF SeatInv, SeatsAreSignups, Counted, SignedUp, SignupsValid
<1>2. QED
  BY <1>1, SelfInitial, SeatsInitial, StepKeepsSelf, StepKeepsSeats, PTL DEF Spec
=============================================================================
