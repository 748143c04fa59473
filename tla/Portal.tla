------------------------------- MODULE Portal -------------------------------
(***************************************************************************)
(* Requests that act for the holder of a session (httpapi/auth.go): staff  *)
(* create and publish a free event and open or close its registration;     *)
(* runners sign up for it (registration/free.go), sign the consent         *)
(* (runner/consents.go) and keep their profiles (runner/profiles.go).      *)
(*                                                                         *)
(* A transaction is cut where another one can come between two of its      *)
(* statements: after the event's row is locked FOR SHARE, after the seat   *)
(* is taken, and between clearing the old self profile and writing the     *)
(* new one.  One runner's profiles are modelled.                           *)
(***************************************************************************)
EXTENDS Sessions, FiniteSets

CONSTANTS
  Category, Capacity,   \* of the free event, and the places in each
  Person,               \* phone and name, as the unique index compares them
  Adult,                \* the persons old enough for the event
  Version,              \* versions of the registration consent
  Profile

ASSUME PortalConstants ==
  /\ Category # {} /\ Capacity \in [Category -> Nat \ {0}]
  /\ Adult \subseteq Person
  /\ Absent \notin BOOLEAN

VARIABLES
  event,       \* its status and its registration_open
  used,        \* used_count of each category, with what open transactions added
  signup,      \* committed signups: category, person, the version signed
  published,   \* consent versions in the table
  self,        \* is_self of each profile; Absent where there is none
  work         \* the open transaction of each request: what it is doing, to which
               \* signup or profile, and the profiles it has cleared

portalVars == <<event, used, signup, published, self, work>>
vars == <<sessionVars, portalVars>>

NoWork == [kind |-> "none", item |-> NONE, cleared |-> {}]

Signup == [category : Category, person : Person, version : Version]

PortalInit ==
  /\ SessionsInit
  /\ event = [status |-> "none", open |-> FALSE]
  /\ used = [c \in Category |-> 0]
  /\ signup = {}
  /\ published = {}
  /\ self = [p \in Profile |-> Absent]
  /\ work = [r \in Request |-> NoWork]

Sitting(r, tokens) ==
  request[r].stage = "accepted" /\ request[r].token \in tokens /\ work[r] = NoWork

Working(r, kind) == request[r].stage = "accepted" /\ work[r].kind = kind

Finish(r) ==
  /\ request' = [request EXCEPT ![r] = NewRequest]
  /\ work' = [work EXCEPT ![r] = NoWork]
  /\ UNCHANGED <<clock, session, issued, lastUse>>

-----------------------------------------------------------------------------
(* Staff. *)

(* The event and its categories, in draft; each has a place at least.      *)
CreateEvent(r) ==
  /\ Sitting(r, StaffToken)
  /\ event.status = "none"
  /\ event' = [event EXCEPT !.status = "DRAFT"]
  /\ Finish(r)
  /\ UNCHANGED <<used, signup, published, self>>

(* FOR UPDATE waits for every signup that holds the row FOR SHARE.         *)
EventLocked == \E r \in Request : work[r].kind \in {"signup", "seated"}

Publish(r) ==
  /\ Sitting(r, StaffToken)
  /\ ~EventLocked
  /\ event.status = "DRAFT"
  /\ event' = [event EXCEPT !.status = "PUBLISHED"]
  /\ Finish(r)
  /\ UNCHANGED <<used, signup, published, self>>

(* Opening asks for a published event; a free one needs nothing else.      *)
UpdateRegistration(r, open) ==
  /\ Sitting(r, StaffToken)
  /\ ~EventLocked
  /\ event.status # "none"
  /\ open => event.status = "PUBLISHED"
  /\ event' = [event EXCEPT !.open = open]
  /\ Finish(r)
  /\ UNCHANGED <<used, signup, published, self>>

(* A command of the operator, without a session; versions never change.    *)
PublishConsent(v) ==
  /\ v \notin published
  /\ published' = published \cup {v}
  /\ UNCHANGED <<sessionVars, event, used, signup, self, work>>

-----------------------------------------------------------------------------
(* CreateFreeSignup. *)

(* Its window of time is part of "open".                                   *)
SignupOpen == event.status = "PUBLISHED" /\ event.open

BeginSignup(r, s) ==
  /\ Sitting(r, RunnerToken)
  /\ SignupOpen
  /\ s.person \in Adult
  /\ work' = [work EXCEPT ![r] = [NoWork EXCEPT !.kind = "signup", !.item = s]]
  /\ UNCHANGED <<sessionVars, event, used, signup, published, self>>

(* The row of the category stays locked by whoever took a seat.            *)
CategoryLocked(c) == \E r \in Request : work[r].kind = "seated" /\ work[r].item.category = c

TakeSeat(r) ==
  LET c == work[r].item.category IN
    /\ Working(r, "signup")
    /\ ~CategoryLocked(c)
    /\ used[c] + 1 <= Capacity[c]
    /\ used' = [used EXCEPT ![c] = @ + 1]
    /\ work' = [work EXCEPT ![r].kind = "seated"]
    /\ UNCHANGED <<sessionVars, event, signup, published, self>>

(* free_signups_one_active.                                                *)
Duplicate(s) == \E t \in signup : t.category = s.category /\ t.person = s.person

(* SignConsent refuses a version that is not in the table.                 *)
Known(v) == v \in published

(* The signup, the signature and its link, and the commit.                 *)
Register(r) ==
  /\ Working(r, "seated")
  /\ ~Duplicate(work[r].item)
  /\ Known(work[r].item.version)
  /\ signup' = signup \cup {work[r].item}
  /\ Finish(r)
  /\ UNCHANGED <<event, used, published, self>>

(* The rollback stops at the savepoint, and the transaction commits.       *)
Undo_SavepointOnly(r) ==
  /\ request[r].stage = "accepted" /\ work[r] # NoWork
  /\ Finish(r)
  /\ UNCHANGED <<event, used, signup, published, self>>

(* A full category, a duplicate, an unknown consent or any error: the      *)
(* transaction rolls back, the seat with it.                               *)
Undo(r) ==
  /\ request[r].stage = "accepted" /\ work[r] # NoWork
  /\ used' = IF work[r].kind = "seated"
               THEN [used EXCEPT ![work[r].item.category] = @ - 1] ELSE used
  /\ Finish(r)
  /\ UNCHANGED <<event, signup, published, self>>

-----------------------------------------------------------------------------
(* CreateProfile and UpdateProfile. *)

UserLocked_Never == FALSE

(* LockUser.  Only changes that make a profile the self one take it.       *)
UserLocked == \E r \in Request : work[r].kind \in {"choosing", "cleared"}

(* The rows a transaction has read FOR UPDATE or cleared.                  *)
ProfileLocked(p) ==
  \E r \in Request : work[r].kind \in {"choosing", "cleared"}
                      /\ (work[r].item = p \/ p \in work[r].cleared)

Save(r, p) ==
  /\ Sitting(r, RunnerToken)
  /\ ~ProfileLocked(p)
  /\ self' = [self EXCEPT ![p] = FALSE]
  /\ Finish(r)
  /\ UNCHANGED <<event, used, signup, published>>

(* It waits for the lock of the runner's row, which the new row refers to. *)
InsertProfile(r, p) == self[p] = Absent /\ ~UserLocked /\ Save(r, p)

UpdateProfile(r, p) == self[p] # Absent /\ Save(r, p)

BeginSelf(r, p) ==
  /\ Sitting(r, RunnerToken)
  /\ ~UserLocked /\ ~ProfileLocked(p)
  /\ work' = [work EXCEPT ![r] = [NoWork EXCEPT !.kind = "choosing", !.item = p]]
  /\ UNCHANGED <<sessionVars, event, used, signup, published, self>>

(* ClearSelfProfiles sees the self profile that is committed by then.      *)
ClearSelf(r) ==
  LET others == {p \in Profile \ {work[r].item} : self[p] = TRUE} IN
    /\ Working(r, "choosing")
    /\ \A p \in others : ~ProfileLocked(p)
    /\ work' = [work EXCEPT ![r].kind = "cleared", ![r].cleared = others]
    /\ UNCHANGED <<sessionVars, event, used, signup, published, self>>

WriteSelf(r) ==
  /\ Working(r, "cleared")
  /\ self' = [p \in Profile |-> IF p = work[r].item THEN TRUE
                               ELSE IF p \in work[r].cleared THEN FALSE ELSE self[p]]
  /\ Finish(r)
  /\ UNCHANGED <<event, used, signup, published>>

DeleteProfile(r, p) ==
  /\ Sitting(r, RunnerToken)
  /\ self[p] # Absent /\ ~ProfileLocked(p)
  /\ self' = [self EXCEPT ![p] = Absent]
  /\ Finish(r)
  /\ UNCHANGED <<event, used, signup, published>>

-----------------------------------------------------------------------------
(* Steps of the sessions; a request with an open transaction ends by Undo. *)
SessionStep ==
  /\ \/ \E s \in Token : Login(s) \/ LoginTelegram(s) \/ Logout(s)
     \/ \E r \in Request, s \in Token : Authenticate(r, s)
     \/ \E r \in Request : Extend(r) \/ (work[r] = NoWork /\ Fail(r))
     \/ DeleteExpiredSessions
     \/ Tick
  /\ UNCHANGED portalVars

StaffStep(r) == CreateEvent(r) \/ Publish(r) \/ \E open \in BOOLEAN : UpdateRegistration(r, open)

SignupStep(r) == (\E s \in Signup : BeginSignup(r, s)) \/ TakeSeat(r) \/ Register(r) \/ Undo(r)

ProfileStep(r) ==
  \/ \E p \in Profile : InsertProfile(r, p) \/ UpdateProfile(r, p) \/ BeginSelf(r, p) \/ DeleteProfile(r, p)
  \/ ClearSelf(r) \/ WriteSelf(r)

Next ==
  \/ SessionStep
  \/ \E r \in Request : StaffStep(r) \/ SignupStep(r) \/ ProfileStep(r)
  \/ \E v \in Version : PublishConsent(v)

Spec == PortalInit /\ [][Next]_vars

-----------------------------------------------------------------------------
Seated(c) == {r \in Request : work[r].kind = "seated" /\ work[r].item.category = c}

(* The places used of a free category are its signups and the seats open   *)
(* transactions hold, never more than there are, however signups fail as   *)
(* duplicates or race for the last place; a person holds one place of a    *)
(* category, signed a published consent, and none is being signed up once  *)
(* staff have closed registration.                                         *)
SeatsAreSignups ==
  /\ \A c \in Category :
       /\ used[c] = Cardinality({s \in signup : s.category = c}) + Cardinality(Seated(c))
       /\ used[c] <= Capacity[c]
  /\ \A s, t \in signup : s.category = t.category /\ s.person = t.person => s = t
  /\ \A s \in signup : s.version \in published
  /\ EventLocked => event.open

(* A runner never has two profiles marked as the runner's own, also when   *)
(* two requests choose different ones at once.                             *)
OneSelfProfile == \A p, q \in Profile : self[p] = TRUE /\ self[q] = TRUE => p = q
=============================================================================
