------------------------------ MODULE Accounts ------------------------------
(***************************************************************************)
(* Accounts: first-run setup, sign-in with its lockout, sessions, the      *)
(* administration of users, and `admin reset-password` beside the daemon.  *)
(* The database runs one statement, or one transaction, at a time; between *)
(* two of them the handlers interleave, their clients hang up, statements  *)
(* fail and the daemon restarts.                                           *)
(*                                                                         *)
(* A request is known by the next thing its handler does to shared state.  *)
(* Its form is looked at when it takes effect; form checks, and the names  *)
(* of users, only decide that a request has no effect.                     *)
(***************************************************************************)
EXTENDS Integers

CONSTANTS
  Browser,             \* clients, each with one session cookie and one request
  MaxId,               \* bound: row ids of users
  Hash,                \* bound: password hashes that are told apart
  Grantable,           \* bound: the roles that requests name
  MAX_FAILED_ATTEMPTS,
  LOCKOUT,             \* LOCKOUT_MINUTES, in ticks
  None

Id == 1..MaxId
Role == {"viewer", "operator", "admin"}

ASSUME BoundAssumption == MaxId \in Nat \ {0}
ASSUME RoleAssumption == Grantable \subseteq Role
ASSUME LockoutAssumption == MAX_FAILED_ATTEMPTS \in Nat \ {0} /\ LOCKOUT \in Nat

VARIABLES
  users,          \* users[i]: the row with id i, or None
  named,          \* ids that audit_log refers to, or settings and then audit_log
  setup_row,      \* settings holds setup_complete
  setup_token,    \* settings holds a setup_token
  setup_complete, \* the flag in the daemon's memory
  session,        \* session[b]: the account and session_auth_hash kept for b
  request,        \* request[b]: what b's handler does next
  auth_lock,      \* who holds Backend::auth_lock, or None
  claims,         \* history: how often a first admin was created
  revoked,        \* history: whose password was replaced after signing in
  missed          \* history: the flag was lost to a hang-up or a failed count

db   == <<users, named, setup_row, setup_token>>
vars == <<users, named, setup_row, setup_token, setup_complete, session,
          request, auth_lock, claims, revoked, missed>>

(* failed_attempts is told apart up to MAX_FAILED_ATTEMPTS, locked is what *)
(* is left of locked_until.                                                *)
User == [role : Role, hash : Hash, must_change_pw : BOOLEAN,
         failed_attempts : 0..MAX_FAILED_ATTEMPTS, locked : 0..LOCKOUT]

ASSUME NoneAssumption ==
  None \notin Id \cup Hash \cup Browser /\ None \notin User \cup [id : Id, hash : Hash]

SigningIn == {"check", "right", "wrong", "login"}
SignedIn  == {"change", "logout", "admin", "why", "audit"}
Op        == {"none", "claim", "flag"} \cup SigningIn \cup SignedIn

Request == [op : Op, id : Id \cup {None}, hash : Hash \cup {None},
            target : Id \cup {None}, role : Role \cup {None}]
Idle == [op |-> "none", id |-> None, hash |-> None, target |-> None, role |-> None]
At(b, op) == request[b].op = op
Then(b, op) == request' = [request EXCEPT ![b].op = op]
Finish(b) == request' = [request EXCEPT ![b] = Idle]

Exists(i) == users[i] # None
Admins == { i \in Id : Exists(i) /\ users[i].role = "admin" }

(* INSERT INTO users: the row id is one more than the largest in use. *)
NextId(i) ==
  /\ \A j \in Id : Exists(j) => j < i
  /\ i > 1 => Exists(i - 1)

(* A salted hash is like no other. *)
InUse(h) ==
  \/ \E i \in Id : Exists(i) /\ users[i].hash = h
  \/ \E b \in Browser : request[b].hash = h \/ (session[b] # None /\ session[b].hash = h)
hash_password(h) == ~InUse(h)

(* History: b is no longer, or anyone signed in as i is now, revoked. *)
Unrevoke(b) == revoked' = revoked \ {b}
Revoke(i) ==
  revoked' = revoked \cup
    { b \in Browser : \/ session[b] # None /\ session[b].id = i
                      \/ request[b].op \in SigningIn /\ request[b].id = i }

-----------------------------------------------------------------------------
(* An empty database and a daemon that is just up, its token stored or not. *)
Init ==
  /\ users = [i \in Id |-> None]
  /\ named = {}
  /\ setup_row = FALSE
  /\ setup_token \in BOOLEAN
  /\ setup_complete = FALSE
  /\ session = [b \in Browser |-> None]
  /\ request = [b \in Browser |-> Idle]
  /\ auth_lock = None
  /\ claims = 0
  /\ revoked = {}
  /\ missed = FALSE

-----------------------------------------------------------------------------
(* Sign-in: Backend::authenticate from taking auth_lock to its answer.     *)
(* The session of an account is tied to the password it was opened with.   *)
mut_session_auth_hash(h) == CHOOSE any \in Hash : TRUE
session_auth_hash(h) == h

get_user(s) == IF s = None \/ ~Exists(s.id) THEN None
               ELSE IF session_auth_hash(users[s.id].hash) = s.hash THEN s.id ELSE None

mut_TakeLock(b) == UNCHANGED auth_lock
TakeLock(b) == auth_lock = None /\ auth_lock' = b
Unlock(b) == auth_lock' = IF auth_lock = b THEN None ELSE auth_lock

(* The login page is for who has no session: it sends others on, and a     *)
(* session that get_user refuses is dropped by then.                       *)
Lookup(b, i) ==
  /\ setup_complete
  /\ At(b, "none") /\ session[b] = None
  /\ Exists(i)
  /\ TakeLock(b)
  /\ request' = [request EXCEPT ![b] = [Idle EXCEPT !.op = "check", !.id = i, !.hash = users[i].hash]]
  /\ Unrevoke(b)
  /\ UNCHANGED <<db, setup_complete, session, claims, missed>>

mut_is_locked(i) == Exists(i) /\ users[i].locked >= 0
is_locked(i) == Exists(i) /\ users[i].locked > 0

CheckLocked(b) ==
  LET locked == is_locked(request[b].id)
  IN  /\ At(b, "check")
      /\ \/ locked /\ Finish(b) /\ Unlock(b)
         \/ ~locked /\ (Then(b, "right") \/ Then(b, "wrong")) /\ UNCHANGED auth_lock
      /\ UNCHANGED <<db, setup_complete, session, claims, revoked, missed>>

cleared(user) == [user EXCEPT !.failed_attempts = 0, !.locked = 0]
failed(user) ==
  IF user.failed_attempts + 1 >= MAX_FAILED_ATTEMPTS
  THEN [user EXCEPT !.failed_attempts = MAX_FAILED_ATTEMPTS, !.locked = LOCKOUT]
  ELSE [user EXCEPT !.failed_attempts = @ + 1]

(* UPDATE users ... WHERE id = i, which may find no row. *)
Update(i, row) == users' = IF Exists(i) THEN [users EXCEPT ![i] = row] ELSE users

RecordSuccess(b) ==
  LET i == request[b].id
  IN  /\ At(b, "right")
      /\ Update(i, cleared(users[i]))
      /\ Then(b, "login")
      /\ Unlock(b)
      /\ UNCHANGED <<named, setup_row, setup_token, setup_complete, session, claims, revoked, missed>>

RecordFailure(b) ==
  LET i == request[b].id
  IN  /\ At(b, "wrong")
      /\ Update(i, failed(users[i]))
      /\ Finish(b)
      /\ Unlock(b)
      /\ UNCHANGED <<named, setup_row, setup_token, setup_complete, session, claims, revoked, missed>>

Login(b) ==
  /\ At(b, "login")
  /\ session' = [session EXCEPT ![b] =
       [id |-> request[b].id, hash |-> session_auth_hash(request[b].hash)]]
  /\ Finish(b)
  /\ UNCHANGED <<db, setup_complete, auth_lock, claims, revoked, missed>>

(* POST /logout, the end of a password change, fourteen idle days, or a    *)
(* request of a session that get_user does not accept (any more).          *)
Logout(b) ==
  /\ \/ At(b, "none") /\ session[b] # None
     \/ At(b, "logout")
  /\ session' = [session EXCEPT ![b] = None]
  /\ Finish(b)
  /\ Unrevoke(b)
  /\ UNCHANGED <<db, setup_complete, auth_lock, claims, missed>>

(* A request that setup_gate and require_login let through.  The handler   *)
(* keeps the user as read here, its role included.                         *)
Begin(b, op) ==
  LET i == get_user(session[b])
  IN  /\ setup_complete
      /\ At(b, "none")
      /\ i # None
      /\ \/ op = "change"
         \/ op = "admin" /\ ~users[i].must_change_pw /\ users[i].role = "admin"
         \/ op = "audit" /\ ~users[i].must_change_pw /\ users[i].role \in {"operator", "admin"}
      /\ request' = [request EXCEPT ![b].op = op, ![b].id = i]
      /\ UNCHANGED <<db, setup_complete, session, auth_lock, claims, revoked, missed>>

ChangePassword(b) ==
  LET i == request[b].id
  IN  /\ At(b, "change")
      /\ \E h \in Hash : /\ hash_password(h)
                         /\ Update(i, [users[i] EXCEPT !.hash = h, !.must_change_pw = FALSE])
      /\ Then(b, "logout")
      /\ Revoke(i)
      /\ UNCHANGED <<named, setup_row, setup_token, setup_complete, session, auth_lock, claims, missed>>

-----------------------------------------------------------------------------
(* The users page.  A write that applied is audited as a step of its own.  *)
UserPage == <<setup_row, setup_token, setup_complete, session, auth_lock, claims, missed>>

create_user(b) ==
  /\ At(b, "admin")
  /\ \E i \in Id, h \in Hash, role \in Grantable :
       /\ NextId(i) /\ hash_password(h)
       /\ users' = [users EXCEPT ![i] =
            [role |-> role, hash |-> h, must_change_pw |-> TRUE, failed_attempts |-> 0, locked |-> 0]]
  /\ Then(b, "audit")
  /\ UNCHANGED <<UserPage, named, revoked>>

(* COUNT(role = 'admin') > 1, asked in the statement that writes. *)
mut_OtherAdmins(i) == TRUE
OtherAdmins(i) == Admins # {i}

(* A row that audit_log or settings refer to is not deleted: the statement *)
(* fails on the foreign key.                                               *)
delete_user(b, i) ==
  /\ At(b, "admin")
  /\ request[b].id # i
  /\ IF Exists(i) /\ OtherAdmins(i) /\ i \notin named
     THEN users' = [users EXCEPT ![i] = None] /\ Then(b, "audit") /\ Revoke(i)
     ELSE UNCHANGED <<users, revoked>> /\ Finish(b)
  /\ UNCHANGED <<UserPage, named>>

update_role(b, i, role) ==
  /\ At(b, "admin")
  /\ IF Exists(i) /\ (role = "admin" \/ OtherAdmins(i))
     THEN users' = [users EXCEPT ![i].role = role] /\ Then(b, "audit")
     ELSE /\ UNCHANGED users
          /\ request' = [request EXCEPT ![b].op = "why", ![b].target = i, ![b].role = role]
  /\ UNCHANGED <<UserPage, named, revoked>>

(* The statement that applied nothing is explained by a second one: by     *)
(* then the account may have the role that was asked for.                  *)
WhyRefused(b) ==
  /\ At(b, "why")
  /\ IF Exists(request[b].target) /\ users[request[b].target].role = request[b].role
     THEN request' = [request EXCEPT ![b] = [Idle EXCEPT !.op = "audit", !.id = request[b].id]]
     ELSE Finish(b)
  /\ UNCHANGED <<UserPage, named, users, revoked>>

(* reset_password of the page and of the command line. *)
Reset(i) ==
  /\ Exists(i)
  /\ \E h \in Hash : /\ hash_password(h)
                     /\ users' = [users EXCEPT ![i] =
                          [cleared(users[i]) EXCEPT !.hash = h, !.must_change_pw = TRUE]]
  /\ Revoke(i)

reset_password(b, i) ==
  /\ At(b, "admin")
  /\ Reset(i)
  /\ Then(b, "audit")
  /\ UNCHANGED <<UserPage, named>>

CliReset(i) ==
  /\ Reset(i)
  /\ UNCHANGED <<UserPage, named, request>>

unlock(b, i) ==
  /\ At(b, "admin")
  /\ Exists(i)
  /\ users' = [users EXCEPT ![i] = cleared(users[i])]
  /\ Then(b, "audit")
  /\ UNCHANGED <<UserPage, named, revoked>>

(* A row that names the actor, in audit_log or as updated_by: no user, no  *)
(* row.                                                                    *)
Audit(b) ==
  /\ At(b, "audit")
  /\ named' = IF Exists(request[b].id) THEN named \cup {request[b].id} ELSE named
  /\ Finish(b)
  /\ UNCHANGED <<UserPage, users, revoked>>

-----------------------------------------------------------------------------
(* First-run setup.  The token of the form is the one on file. *)
token_ok == setup_complete \/ setup_token

SetupSubmit(b) ==
  /\ At(b, "none")
  /\ token_ok
  /\ Then(b, "claim")
  /\ UNCHANGED <<db, setup_complete, session, auth_lock, claims, revoked, missed>>

(* One transaction: the singleton row, the admin, the token, which may be  *)
(* left there by a statement that fails.                                   *)
mut_Unclaimed == ~setup_complete
Unclaimed == ~setup_row

SetupClaim(b) ==
  /\ At(b, "claim")
  /\ \/ /\ Unclaimed
        /\ setup_row' = TRUE
        /\ \E i \in Id, h \in Hash :
             /\ NextId(i) /\ hash_password(h)
             /\ users' = [users EXCEPT ![i] =
                  [role |-> "admin", hash |-> h, must_change_pw |-> FALSE, failed_attempts |-> 0, locked |-> 0]]
        /\ setup_token' \in {FALSE, setup_token}
        /\ claims' = claims + 1
        /\ Then(b, "flag")
        /\ UNCHANGED setup_complete
     \/ /\ ~Unclaimed
        /\ setup_complete' = TRUE
        /\ Finish(b)
        /\ UNCHANGED <<users, setup_row, setup_token, claims>>
  /\ UNCHANGED <<named, session, auth_lock, revoked, missed>>

mut_SetupFlag(b) ==
  /\ At(b, "flag")
  /\ Finish(b)
  /\ UNCHANGED <<db, setup_complete, session, auth_lock, claims, revoked, missed>>

SetupFlag(b) ==
  /\ At(b, "flag")
  /\ setup_complete' = TRUE
  /\ Finish(b)
  /\ UNCHANGED <<db, session, auth_lock, claims, revoked, missed>>

-----------------------------------------------------------------------------
(* A handler ends early at an await: its client hangs up, a statement      *)
(* fails, or the form was refused.  Its lock is dropped with it.           *)
HangUp(b) ==
  /\ ~At(b, "none")
  /\ Finish(b)
  /\ Unlock(b)
  /\ missed' = (missed \/ At(b, "flag"))
  /\ UNCHANGED <<db, setup_complete, session, claims, revoked>>

(* The daemon ends, with its handlers, and build_router runs again; a      *)
(* count of users that fails reads as none.                                *)
Restart ==
  /\ request' = [b \in Browser |-> Idle]
  /\ auth_lock' = None
  /\ \E counted \in BOOLEAN :
       LET some == counted /\ \E i \in Id : Exists(i)
       IN  /\ setup_complete' = some
           /\ setup_token' \in IF some THEN {setup_token} ELSE {setup_token, TRUE}
           /\ missed' = ~counted
  /\ UNCHANGED <<users, named, setup_row, session, claims, revoked>>

Tick ==
  /\ \E i \in Id : is_locked(i)
  /\ users' = [i \in Id |-> IF is_locked(i) THEN [users[i] EXCEPT !.locked = @ - 1] ELSE users[i]]
  /\ UNCHANGED <<UserPage, named, request, revoked>>

SignInStep(b) ==
  \/ \E i \in Id : Lookup(b, i)
  \/ CheckLocked(b) \/ RecordSuccess(b) \/ RecordFailure(b) \/ Login(b) \/ Logout(b)
  \/ \E op \in {"change", "admin", "audit"} : Begin(b, op)
  \/ ChangePassword(b)

PageStep(b) ==
  \/ create_user(b) \/ WhyRefused(b) \/ Audit(b)
  \/ \E i \in Id : delete_user(b, i) \/ reset_password(b, i) \/ unlock(b, i)
  \/ \E i \in Id, role \in Grantable : update_role(b, i, role)

SetupStep(b) == SetupSubmit(b) \/ SetupClaim(b) \/ SetupFlag(b)

Next ==
  \/ \E b \in Browser : SignInStep(b) \/ PageStep(b) \/ SetupStep(b) \/ HangUp(b)
  \/ \E i \in Id : CliReset(i)
  \/ Restart \/ Tick

Spec == Init /\ [][Next]_vars

-----------------------------------------------------------------------------
(* Every variable has its type. *)
UsersOK   == users \in [Id -> User \cup {None}]
SessionOK == session \in [Browser -> [id : Id, hash : Hash] \cup {None}]
RequestOK == request \in [Browser -> Request]
OthersOK  ==
  /\ named \subseteq Id
  /\ auth_lock \in Browser \cup {None}
  /\ claims \in Nat
  /\ revoked \subseteq Browser

FlagsOK   == {setup_row, setup_token, setup_complete, missed} \subseteq BOOLEAN

TypeOK == UsersOK /\ SessionOK /\ RequestOK /\ OthersOK /\ FlagsOK

(* From the moment setup is claimed somebody can administer the device,    *)
(* whoever deletes and demotes whom at the same time; before, there is no  *)
(* account at all.                                                         *)
AdminRemains ==
  IF setup_row THEN Admins # {} ELSE \A i \in Id : ~Exists(i)

(* However many browsers submit the setup form, and however often the      *)
(* daemon restarts between, one of them makes the first admin.             *)
OneFirstAdmin == claims = IF setup_row THEN 1 ELSE 0

(* A password is only ever compared while its account is not locked:       *)
(* attempts in flight together do not slip past the throttle.              *)
ThrottleHolds ==
  \A b \in Browser : request[b].op \in {"right", "wrong"} => ~is_locked(request[b].id)

(* Once setup is claimed the gate stands open, or is about to be opened,   *)
(* unless the claiming client hung up on its commit or a restart could not *)
(* count the users.                                                        *)
GateAccounted ==
  setup_row /\ ~setup_complete /\ ~missed => \E b \in Browser : At(b, "flag")

(* A session whose account was since deleted, or given a password by its   *)
(* owner, an admin or the command line, is not served again: not even one  *)
(* whose sign-in had read the old password and finished after the change,  *)
(* nor by a later account under the same row id.                           *)
RevokedIsRefused ==
  [][\A b \in Browser : request[b].op = "none" /\ request'[b].op \in SignedIn
                        => b \notin revoked]_vars
=============================================================================
