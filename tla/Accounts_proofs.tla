--------------------------- MODULE Accounts_proofs ---------------------------
(***************************************************************************)
(* What holds of the accounts for any number of browsers, accounts and     *)
(* passwords, any throttle, and any interleaving, hang-up and restart.     *)
(***************************************************************************)
EXTENDS Accounts, TLAPS

(* A handler past its first step knows what it works on. *)
RequestFilled ==
  \A b \in Browser :
    /\ request[b].op \in SigningIn \cup SignedIn => request[b].id \in Id
    /\ request[b].op \in SigningIn => request[b].hash \in Hash
    /\ request[b].op = "why" => request[b].target \in Id /\ request[b].role \in Role

(* The initial values are of the variables' types. *)
LEMMA TypeInit == Init => TypeOK /\ RequestFilled
<1>1. Idle \in Request /\ Idle.op = "none"
  BY DEF Idle, Request, Op
<1>2. \A b \in Browser : Init => request[b] = Idle
  BY DEF Init
<1>3. Init => UsersOK /\ SessionOK
  BY DEF Init, UsersOK, SessionOK
<1>4. Init => RequestOK
  BY <1>1 DEF Init, RequestOK
<1>6. Init => OthersOK
  BY DEF Init, OthersOK
<1>7. Init => FlagsOK
  BY DEF Init, FlagsOK
<1>5. Init => RequestFilled
  BY <1>1, <1>2 DEF RequestFilled, SigningIn, SignedIn
<1> QED
  BY <1>3, <1>4, <1>5, <1>6, <1>7 DEF TypeOK

(* The rows that the statements write are rows of users. *)
LEMMA RowsTyped ==
  ASSUME NEW user \in User
  PROVE  cleared(user) \in User /\ failed(user) \in User
<1> USE LockoutAssumption DEF User
<1>1. 0 \in 0..MAX_FAILED_ATTEMPTS /\ 0 \in 0..LOCKOUT /\ LOCKOUT \in 0..LOCKOUT
      /\ MAX_FAILED_ATTEMPTS \in 0..MAX_FAILED_ATTEMPTS
  OBVIOUS
<1>2. cleared(user) \in User
  BY <1>1 DEF cleared
<1>3. CASE user.failed_attempts + 1 >= MAX_FAILED_ATTEMPTS
  BY <1>1, <1>2, <1>3 DEF failed
<1>4. CASE ~(user.failed_attempts + 1 >= MAX_FAILED_ATTEMPTS)
  <2>1. user.failed_attempts + 1 \in 0..MAX_FAILED_ATTEMPTS
    BY <1>4
  <2> QED
    BY <1>2, <1>4, <2>1 DEF failed
<1> QED
  BY <1>3, <1>4

(* A statement writes rows of users, or leaves the table alone. *)
LEMMA UsersStep == UsersOK /\ RequestOK /\ RequestFilled /\ [Next]_vars => UsersOK'
<1> SUFFICES ASSUME UsersOK, RequestOK, RequestFilled, [Next]_vars PROVE UsersOK'
  OBVIOUS
<1>a. \A i \in Id : Exists(i) => users[i] \in User
  BY DEF Exists, UsersOK
<1>b. \A i \in Id, user \in User : [users EXCEPT ![i] = user] \in [Id -> User \cup {None}]
  BY DEF UsersOK
<1>c. 0 \in 0..MAX_FAILED_ATTEMPTS /\ 0 \in 0..LOCKOUT
  BY LockoutAssumption
<1>1. CASE UNCHANGED users
  BY <1>1 DEF UsersOK
<1>2. ASSUME NEW i \in Id, NEW user \in User, Update(i, user) PROVE UsersOK'
  BY <1>2, <1>b DEF Update, UsersOK
<1>3. ASSUME NEW i \in Id, NEW user \in User, users' = [users EXCEPT ![i] = user] PROVE UsersOK'
  BY <1>3, <1>b DEF UsersOK
<1>4. ASSUME NEW b \in Browser, RecordSuccess(b) PROVE UsersOK'
  <2>1. request[b].id \in Id
    BY <1>4 DEF RecordSuccess, At, RequestFilled, SigningIn
  <2> QED
    BY <1>4, <1>1, <1>2, <1>a, <2>1, RowsTyped DEF RecordSuccess, Update
<1>5. ASSUME NEW b \in Browser, RecordFailure(b) PROVE UsersOK'
  <2>1. request[b].id \in Id
    BY <1>5 DEF RecordFailure, At, RequestFilled, SigningIn
  <2> QED
    BY <1>5, <1>1, <1>2, <1>a, <2>1, RowsTyped DEF RecordFailure, Update
<1>6. ASSUME NEW b \in Browser, ChangePassword(b) PROVE UsersOK'
  <2>1. request[b].id \in Id
    BY <1>6 DEF ChangePassword, At, RequestFilled, SignedIn
  <2>2. PICK h \in Hash : Update(request[b].id, [users[request[b].id] EXCEPT !.hash = h, !.must_change_pw = FALSE])
    BY <1>6 DEF ChangePassword
  <2>3. Exists(request[b].id) => [users[request[b].id] EXCEPT !.hash = h, !.must_change_pw = FALSE] \in User
    BY <1>a, <2>1 DEF User
  <2> QED
    BY <1>1, <1>2, <2>1, <2>2, <2>3 DEF Update
<1>7. ASSUME NEW b \in Browser, create_user(b) PROVE UsersOK'
  <2>1. PICK i \in Id, h \in Hash, role \in Grantable :
          users' = [users EXCEPT ![i] =
            [role |-> role, hash |-> h, must_change_pw |-> TRUE, failed_attempts |-> 0, locked |-> 0]]
    BY <1>7 DEF create_user
  <2> QED
    BY <1>3, <1>c, <2>1, RoleAssumption DEF User
<1>8. ASSUME NEW b \in Browser, NEW i \in Id, delete_user(b, i) PROVE UsersOK'
  BY <1>8 DEF delete_user, UsersOK
<1>9. ASSUME NEW b \in Browser, NEW i \in Id, NEW role \in Grantable, update_role(b, i, role) PROVE UsersOK'
  <2>1. CASE Exists(i) /\ users' = [users EXCEPT ![i].role = role]
    <3>1. [users[i] EXCEPT !.role = role] \in User
      BY <1>a, <2>1, RoleAssumption DEF User
    <3> QED
      BY <1>3, <2>1, <3>1
  <2> QED
    BY <1>9, <1>1, <2>1 DEF update_role
<1>10. ASSUME NEW i \in Id, Reset(i) PROVE UsersOK'
  <2>1. PICK h \in Hash : users' = [users EXCEPT ![i] = [cleared(users[i]) EXCEPT !.hash = h, !.must_change_pw = TRUE]]
    BY <1>10 DEF Reset
  <2>2. cleared(users[i]) \in User
    BY <1>10, <1>a, RowsTyped DEF Reset
  <2>3. [cleared(users[i]) EXCEPT !.hash = h, !.must_change_pw = TRUE] \in User
    BY <2>2 DEF User
  <2> QED
    BY <1>3, <2>1, <2>3
<1>11. ASSUME NEW b \in Browser, NEW i \in Id, unlock(b, i) PROVE UsersOK'
  <2>1. cleared(users[i]) \in User /\ users' = [users EXCEPT ![i] = cleared(users[i])]
    BY <1>11, <1>a, RowsTyped DEF unlock
  <2> QED
    BY <1>3, <2>1
<1>12. ASSUME NEW b \in Browser, SetupClaim(b) PROVE UsersOK'
  <2>1. CASE \E i \in Id, h \in Hash :
          users' = [users EXCEPT ![i] =
            [role |-> "admin", hash |-> h, must_change_pw |-> FALSE, failed_attempts |-> 0, locked |-> 0]]
    BY <1>3, <1>c, <2>1 DEF User, Role
  <2> QED
    BY <1>12, <1>1, <2>1 DEF SetupClaim
<1>13. CASE Tick
  <2>1. \A i \in Id : is_locked(i) => [users[i] EXCEPT !.locked = @ - 1] \in User
    <3> SUFFICES ASSUME NEW i \in Id, is_locked(i) PROVE [users[i] EXCEPT !.locked = @ - 1] \in User
      OBVIOUS
    <3>1. users[i] \in User /\ users[i].locked > 0
      BY <1>a DEF is_locked
    <3>2. users[i].locked - 1 \in 0..LOCKOUT
      BY <3>1, LockoutAssumption DEF User
    <3> QED
      BY <3>1, <3>2 DEF User
  <2> QED
    BY <1>13, <2>1 DEF Tick, UsersOK
<1> QED
  BY <1>1, <1>4, <1>5, <1>6, <1>7, <1>8, <1>9, <1>10, <1>11, <1>12, <1>13
     DEF Next, SignInStep, PageStep, SetupStep, vars, db, UserPage, CheckLocked, Login, Logout, Begin, WhyRefused, Audit,
         SetupSubmit, SetupFlag, HangUp, Lookup, reset_password, CliReset, Restart

(* A handler keeps its request filled in as it goes from step to step. *)
LEMMA RequestStep ==
  TypeOK /\ RequestFilled /\ [Next]_vars => RequestOK' /\ RequestFilled'
<1> SUFFICES ASSUME TypeOK, RequestFilled, [Next]_vars PROVE RequestOK' /\ RequestFilled'
  OBVIOUS
<1> DEFINE Filled(r) ==
      /\ r \in Request
      /\ r.op \in SigningIn \cup SignedIn => r.id \in Id
      /\ r.op \in SigningIn => r.hash \in Hash
      /\ r.op = "why" => r.target \in Id /\ r.role \in Role
<1>a. \A b \in Browser : Filled(request[b]) /\ request \in [Browser -> Request]
  BY DEF RequestFilled, TypeOK, RequestOK
<1>b. Filled(Idle)
  BY DEF Idle, Request, Op, SigningIn, SignedIn
<1> HIDE DEF Filled
<1>c. ASSUME NEW b \in Browser, NEW r, Filled(r), request' = [request EXCEPT ![b] = r]
      PROVE  RequestOK' /\ RequestFilled'
  <2>1. r \in Request
    BY <1>c DEF Filled
  <2>2. RequestOK'
    BY <1>a, <1>c, <2>1 DEF RequestOK
  <2>3. \A c \in Browser : Filled(request'[c])
    BY <1>a, <1>c
  <2> QED
    BY <2>2, <2>3 DEF Filled, RequestFilled
<1>d. ASSUME NEW b \in Browser, Finish(b) PROVE RequestOK' /\ RequestFilled'
  BY <1>b, <1>c, <1>d DEF Finish
<1>e. ASSUME NEW b \in Browser, NEW op, Then(b, op), Filled([request[b] EXCEPT !.op = op])
      PROVE  RequestOK' /\ RequestFilled'
  <2>1. request' = [request EXCEPT ![b] = [request[b] EXCEPT !.op = op]]
    BY <1>e DEF Then
  <2> QED
    BY <1>c, <1>e, <2>1
<1>f. ASSUME NEW b \in Browser, NEW op \in Op, op # "why", request[b].op \in SigningIn \/ op \notin SigningIn,
             request[b].op \in SigningIn \cup SignedIn \/ op \notin SigningIn \cup SignedIn, Then(b, op)
      PROVE  RequestOK' /\ RequestFilled'
  <2>1. Filled([request[b] EXCEPT !.op = op])
    BY <1>a, <1>f DEF Filled, Request
  <2> QED
    BY <1>e, <1>f, <2>1
<1>1. CASE UNCHANGED request
  BY <1>1 DEF RequestOK, RequestFilled, TypeOK
<1>2. ASSUME NEW b \in Browser, NEW i \in Id, Lookup(b, i) PROVE RequestOK' /\ RequestFilled'
  <2> DEFINE r == [Idle EXCEPT !.op = "check", !.id = i, !.hash = users[i].hash]
  <2>1. users[i].hash \in Hash
    BY <1>2 DEF Lookup, Exists, TypeOK, UsersOK, User
  <2>2. Filled(r)
    BY <2>1 DEF Filled, Idle, Request, Op, SigningIn, SignedIn
  <2>3. request' = [request EXCEPT ![b] = r]
    BY <1>2 DEF Lookup
  <2> HIDE DEF r
  <2> QED
    BY <1>c, <2>2, <2>3
<1>3. ASSUME NEW b \in Browser, CheckLocked(b) PROVE RequestOK' /\ RequestFilled'
  BY <1>3, <1>d, <1>f DEF CheckLocked, At, Op, SigningIn, SignedIn
<1>4. ASSUME NEW b \in Browser, RecordSuccess(b) PROVE RequestOK' /\ RequestFilled'
  BY <1>4, <1>f DEF RecordSuccess, At, Op, SigningIn, SignedIn
<1>5. ASSUME NEW b \in Browser, NEW op \in {"change", "admin", "audit"}, Begin(b, op)
      PROVE  RequestOK' /\ RequestFilled'
  <2> DEFINE i == get_user(session[b])
             r == [request[b] EXCEPT !.op = op, !.id = i]
  <2>1. i \in Id
    BY <1>5 DEF Begin, get_user, TypeOK, SessionOK
  <2>2. request' = [request EXCEPT ![b] = r]
    BY <1>5 DEF Begin
  <2>3. Filled(r)
    <3> HIDE DEF i
    <3> QED
      BY <1>a, <2>1 DEF Filled, Request, Op, SigningIn, SignedIn
  <2> HIDE DEF r
  <2> QED
    BY <1>c, <2>2, <2>3
<1>6. ASSUME NEW b \in Browser, ChangePassword(b) PROVE RequestOK' /\ RequestFilled'
  BY <1>6, <1>f DEF ChangePassword, At, Op, SigningIn, SignedIn
<1>7. ASSUME NEW b \in Browser, create_user(b) PROVE RequestOK' /\ RequestFilled'
  BY <1>7, <1>f DEF create_user, At, Op, SigningIn, SignedIn
<1>8. ASSUME NEW b \in Browser, NEW i \in Id, delete_user(b, i) PROVE RequestOK' /\ RequestFilled'
  BY <1>8, <1>d, <1>f DEF delete_user, At, Op, SigningIn, SignedIn
<1>9. ASSUME NEW b \in Browser, NEW i \in Id, NEW role \in Grantable, update_role(b, i, role)
      PROVE  RequestOK' /\ RequestFilled'
  <2> DEFINE r == [request[b] EXCEPT !.op = "why", !.target = i, !.role = role]
  <2>1. request[b].op = "admin"
    BY <1>9 DEF update_role, At
  <2>2. Filled(r)
    BY <1>a, <2>1, RoleAssumption DEF Filled, Request, Op, SigningIn, SignedIn
  <2>3. Then(b, "audit") \/ request' = [request EXCEPT ![b] = r]
    BY <1>9 DEF update_role
  <2> HIDE DEF r
  <2>4. CASE Then(b, "audit")
    BY <1>f, <2>1, <2>4 DEF Op, SigningIn, SignedIn
  <2> QED
    BY <1>c, <2>2, <2>3, <2>4
<1>10. ASSUME NEW b \in Browser, WhyRefused(b) PROVE RequestOK' /\ RequestFilled'
  <2> DEFINE r == [Idle EXCEPT !.op = "audit", !.id = request[b].id]
  <2>1. request[b].id \in Id
    BY <1>10 DEF WhyRefused, At, RequestFilled, SignedIn
  <2>2. Filled(r)
    BY <2>1 DEF Filled, Idle, Request, Op, SigningIn, SignedIn
  <2>3. Finish(b) \/ request' = [request EXCEPT ![b] = r]
    BY <1>10 DEF WhyRefused
  <2> HIDE DEF r
  <2> QED
    BY <1>c, <1>d, <2>2, <2>3
<1>11. ASSUME NEW b \in Browser, NEW i \in Id, reset_password(b, i) \/ unlock(b, i)
       PROVE  RequestOK' /\ RequestFilled'
  BY <1>11, <1>f DEF reset_password, unlock, At, Op, SigningIn, SignedIn
<1>12. ASSUME NEW b \in Browser, SetupSubmit(b) PROVE RequestOK' /\ RequestFilled'
  BY <1>12, <1>f DEF SetupSubmit, At, Op, SigningIn, SignedIn
<1>13. ASSUME NEW b \in Browser, SetupClaim(b) PROVE RequestOK' /\ RequestFilled'
  BY <1>13, <1>d, <1>f DEF SetupClaim, At, Op, SigningIn, SignedIn
<1>14. CASE Restart
  <2>1. request' = [b \in Browser |-> Idle] /\ Filled(Idle)
    BY <1>14, <1>b DEF Restart
  <2> QED
    BY <2>1 DEF Filled, RequestOK, RequestFilled
<1> QED
  BY <1>d, <1>1, <1>2, <1>3, <1>4, <1>5, <1>6, <1>7, <1>8, <1>9, <1>10, <1>11, <1>12, <1>13, <1>14
     DEF Next, SignInStep, PageStep, SetupStep, vars, db, UserPage, RecordFailure, Login, Logout, Audit, SetupFlag, HangUp, CliReset, Tick

(* The variables that most steps leave alone. *)
LEMMA OthersStep == TypeOK /\ RequestFilled /\ [Next]_vars => SessionOK' /\ OthersOK' /\ FlagsOK'
<1> SUFFICES ASSUME TypeOK, RequestFilled, [Next]_vars PROVE SessionOK' /\ OthersOK' /\ FlagsOK'
  OBVIOUS
<1> USE DEF TypeOK
<1>1. SessionOK'
  <2>1. CASE UNCHANGED session
    BY <2>1 DEF SessionOK
  <2>2. ASSUME NEW b \in Browser, Login(b) PROVE SessionOK'
    <3>1. request[b].id \in Id /\ request[b].hash \in Hash
      BY <2>2 DEF Login, At, RequestFilled, SigningIn
    <3> QED
      BY <2>2, <3>1 DEF Login, session_auth_hash, SessionOK
  <2>3. ASSUME NEW b \in Browser, Logout(b) PROVE SessionOK'
    BY <2>3 DEF Logout, SessionOK
  <2>4. ASSUME NEW b \in Browser, SignInStep(b) PROVE SessionOK'
    BY <2>1, <2>2, <2>3, <2>4
       DEF SignInStep, Lookup, CheckLocked, RecordSuccess, RecordFailure, Begin, ChangePassword
  <2>5. ASSUME NEW b \in Browser, PageStep(b) \/ SetupStep(b) \/ HangUp(b) PROVE SessionOK'
    BY <2>1, <2>5
       DEF PageStep, SetupStep, create_user, delete_user, update_role, WhyRefused, reset_password, unlock,
           Audit, UserPage, SetupSubmit, SetupClaim, SetupFlag, HangUp
  <2>6. ASSUME (\E i \in Id : CliReset(i)) \/ Restart \/ Tick \/ UNCHANGED vars PROVE SessionOK'
    BY <2>1, <2>6 DEF CliReset, UserPage, Restart, Tick, vars
  <2> QED
    BY <2>4, <2>5, <2>6 DEF Next
<1>2. OthersOK'
  <2>1. CASE UNCHANGED <<named, auth_lock, claims, revoked>>
    BY <2>1 DEF OthersOK
  <2>2. ASSUME NEW b \in Browser, Audit(b) PROVE OthersOK'
    <3>1. request[b].id \in Id
      BY <2>2 DEF Audit, At, RequestFilled, SignedIn
    <3> QED
      BY <2>2, <3>1 DEF Audit, UserPage, OthersOK
  <2>3. ASSUME NEW b \in Browser, SetupClaim(b) PROVE OthersOK'
    <3>1. UNCHANGED <<named, auth_lock, revoked>> /\ (claims' = claims + 1 \/ UNCHANGED claims)
      BY <2>3 DEF SetupClaim
    <3> QED
      BY <3>1 DEF OthersOK
  <2>4. ASSUME NEW b \in Browser, NEW i \in Id, Lookup(b, i) PROVE OthersOK'
    BY <2>4 DEF Lookup, TakeLock, Unrevoke, db, OthersOK
  <2>5. ASSUME NEW b \in Browser, CheckLocked(b) \/ RecordSuccess(b) \/ RecordFailure(b) \/ HangUp(b)
        PROVE  OthersOK'
    <3>1. UNCHANGED <<named, claims, revoked>> /\ (Unlock(b) \/ UNCHANGED auth_lock)
      BY <2>5 DEF CheckLocked, RecordSuccess, RecordFailure, HangUp, db
    <3> QED
      BY <3>1 DEF Unlock, OthersOK
  <2>6. ASSUME NEW b \in Browser, Logout(b) PROVE OthersOK'
    BY <2>6 DEF Logout, Unrevoke, db, OthersOK
  <2>7. ASSUME NEW i \in Id, Revoke(i), UNCHANGED <<named, auth_lock, claims>> PROVE OthersOK'
    BY <2>7 DEF Revoke, OthersOK
  <2>8. CASE Restart
    BY <2>8 DEF Restart, OthersOK
  <2>9. ASSUME NEW b \in Browser, NEW i \in Id, delete_user(b, i) PROVE OthersOK'
    BY <2>1, <2>7, <2>9 DEF delete_user, UserPage
  <2>10. ASSUME NEW b \in Browser, ChangePassword(b) PROVE OthersOK'
    BY <2>10 DEF ChangePassword, Revoke, OthersOK
  <2>11. ASSUME NEW b \in Browser, SignInStep(b) PROVE OthersOK'
    BY <2>1, <2>4, <2>5, <2>6, <2>10, <2>11 DEF SignInStep, Login, Begin, db
  <2>12. ASSUME NEW b \in Browser, PageStep(b) PROVE OthersOK'
    BY <2>1, <2>2, <2>7, <2>9, <2>12
       DEF PageStep, create_user, update_role, WhyRefused, reset_password, Reset, unlock, UserPage
  <2>13. ASSUME NEW b \in Browser, SetupStep(b) \/ HangUp(b) PROVE OthersOK'
    BY <2>1, <2>3, <2>5, <2>13 DEF SetupStep, SetupSubmit, SetupFlag, db
  <2>14. ASSUME (\E i \in Id : CliReset(i)) \/ Tick \/ UNCHANGED vars PROVE OthersOK'
    BY <2>1, <2>7, <2>14 DEF CliReset, Reset, UserPage, Tick, vars, db
  <2> QED
    BY <2>8, <2>11, <2>12, <2>13, <2>14 DEF Next
<1>3. FlagsOK'
  <2>1. CASE UNCHANGED <<setup_row, setup_token, setup_complete, missed>>
    BY <2>1 DEF FlagsOK
  <2>2. ASSUME NEW b \in Browser, SetupClaim(b) PROVE FlagsOK'
    BY <2>2 DEF SetupClaim, FlagsOK
  <2>3. ASSUME NEW b \in Browser, SetupFlag(b) \/ HangUp(b) PROVE FlagsOK'
    BY <2>3 DEF SetupFlag, HangUp, At, db, FlagsOK
  <2>4. CASE Restart
    BY <2>4 DEF Restart, FlagsOK
  <2>5. ASSUME NEW b \in Browser, SignInStep(b) PROVE FlagsOK'
    BY <2>1, <2>5
       DEF SignInStep, Lookup, CheckLocked, RecordSuccess, RecordFailure, Login, Logout, Begin, ChangePassword, db
  <2>6. ASSUME NEW b \in Browser, PageStep(b) PROVE FlagsOK'
    BY <2>1, <2>6
       DEF PageStep, create_user, delete_user, update_role, WhyRefused, reset_password, unlock, Audit, UserPage
  <2>7. ASSUME NEW b \in Browser, SetupStep(b) PROVE FlagsOK'
    BY <2>1, <2>2, <2>3, <2>7 DEF SetupStep, SetupSubmit, db
  <2>8. ASSUME (\E i \in Id : CliReset(i)) \/ Tick \/ UNCHANGED vars PROVE FlagsOK'
    BY <2>1, <2>8 DEF CliReset, UserPage, Tick, vars, db
  <2> QED
    BY <2>3, <2>4, <2>5, <2>6, <2>7, <2>8 DEF Next
<1> QED
  BY <1>1, <1>2, <1>3

(* Every variable keeps its type, and every request is filled in. *)
LEMMA TypeInductive == TypeOK /\ RequestFilled /\ [Next]_vars => TypeOK' /\ RequestFilled'
  BY UsersStep, RequestStep, OthersStep DEF TypeOK

(* Every variable has its type, whatever the handlers, their clients and   *)
(* the daemon's restarts do.                                               *)
THEOREM TypeCorrect == Spec => []TypeOK
<1>1. Init => TypeOK /\ RequestFilled
  BY TypeInit
<1>2. TypeOK /\ RequestFilled /\ [Next]_vars => TypeOK' /\ RequestFilled'
  BY TypeInductive
<1> QED
  BY <1>1, <1>2, PTL DEF Spec

-----------------------------------------------------------------------------
(* Nobody signs in, or is signed in, before there is an account. *)
OnlyAfterSetup ==
  setup_row \/ \A b \in Browser : request[b].op \notin SigningIn \cup SignedIn

(* A step that adds, removes and promotes nobody. *)
SameRoles ==
  /\ UNCHANGED setup_row
  /\ \A i \in Id : /\ Exists(i)' <=> Exists(i)
                   /\ Exists(i) => users'[i].role = users[i].role

LEMMA AdminKept == AdminRemains /\ SameRoles => AdminRemains'
  BY DEF AdminRemains, Admins, SameRoles

LEMMA SameUsers == UNCHANGED <<users, setup_row>> => SameRoles
  BY DEF SameRoles, Exists

(* The statements on one row that do not write its role. *)
LEMMA RowKept ==
  ASSUME TypeOK, NEW i \in Id, Exists(i), NEW row \in User, row.role = users[i].role,
         users' = [users EXCEPT ![i] = row], UNCHANGED setup_row
  PROVE  SameRoles
  BY NoneAssumption DEF TypeOK, UsersOK, SameRoles, Exists

LEMMA SameRolesStep ==
  ASSUME TypeOK, RequestFilled,
         \/ \E b \in Browser :
              \/ SignInStep(b) \/ SetupSubmit(b) \/ SetupFlag(b) \/ HangUp(b) \/ WhyRefused(b) \/ Audit(b)
              \/ \E i \in Id : reset_password(b, i) \/ unlock(b, i)
         \/ \E i \in Id : CliReset(i)
         \/ Restart \/ Tick
  PROVE  SameRoles
<1>t. \A i \in Id : Exists(i) => users[i] \in User
  BY DEF TypeOK, UsersOK, Exists
<1>1. ASSUME NEW b \in Browser, RecordSuccess(b) \/ RecordFailure(b) PROVE SameRoles
  <2> DEFINE i == request[b].id
  <2>1. i \in Id /\ UNCHANGED setup_row
    BY <1>1 DEF RecordSuccess, RecordFailure, At, RequestFilled, SigningIn
  <2>2. Exists(i) => \E row \in {cleared(users[i]), failed(users[i])} : users' = [users EXCEPT ![i] = row]
    BY <1>1 DEF RecordSuccess, RecordFailure, Update
  <2>3. Exists(i) => \A row \in {cleared(users[i]), failed(users[i])} : row \in User /\ row.role = users[i].role
    BY <1>t, <2>1, RowsTyped DEF cleared, failed, User
  <2>4. ~Exists(i) => UNCHANGED users
    BY <1>1 DEF RecordSuccess, RecordFailure, Update
  <2> QED
    BY <2>1, <2>2, <2>3, <2>4, SameUsers, RowKept
<1>2. ASSUME NEW b \in Browser, ChangePassword(b) PROVE SameRoles
  <2> DEFINE i == request[b].id
  <2>1. i \in Id /\ UNCHANGED setup_row
    BY <1>2 DEF ChangePassword, At, RequestFilled, SignedIn
  <2>2. PICK h \in Hash : Update(i, [users[i] EXCEPT !.hash = h, !.must_change_pw = FALSE])
    BY <1>2 DEF ChangePassword
  <2>3. Exists(i) => /\ [users[i] EXCEPT !.hash = h, !.must_change_pw = FALSE] \in User
                     /\ [users[i] EXCEPT !.hash = h, !.must_change_pw = FALSE].role = users[i].role
    BY <1>t, <2>1 DEF User
  <2> QED
    BY <2>1, <2>2, <2>3, SameUsers, RowKept DEF Update
<1>3. ASSUME NEW i \in Id, Reset(i), UNCHANGED setup_row PROVE SameRoles
  <2>1. PICK h \in Hash : users' = [users EXCEPT ![i] = [cleared(users[i]) EXCEPT !.hash = h, !.must_change_pw = TRUE]]
    BY <1>3 DEF Reset
  <2>2. Exists(i) /\ cleared(users[i]) \in User /\ cleared(users[i]).role = users[i].role
    BY <1>3, <1>t, RowsTyped DEF Reset, cleared, User
  <2>3. /\ [cleared(users[i]) EXCEPT !.hash = h, !.must_change_pw = TRUE] \in User
        /\ [cleared(users[i]) EXCEPT !.hash = h, !.must_change_pw = TRUE].role = users[i].role
    BY <2>2 DEF User
  <2> QED
    BY <1>3, <2>1, <2>2, <2>3, RowKept
<1>4. ASSUME NEW b \in Browser, NEW i \in Id, unlock(b, i) PROVE SameRoles
  <2>1. Exists(i) /\ cleared(users[i]) \in User /\ cleared(users[i]).role = users[i].role
    BY <1>4, <1>t, RowsTyped DEF unlock, cleared, User
  <2> QED
    BY <1>4, <2>1, RowKept DEF unlock, UserPage
<1>5. CASE Tick
  <2>1. \A i \in Id : is_locked(i) => [users[i] EXCEPT !.locked = @ - 1] # None
    <3>1. ASSUME NEW i \in Id, is_locked(i) PROVE [users[i] EXCEPT !.locked = @ - 1] # None
      <4>1. users[i] \in User /\ users[i].locked > 0
        BY <3>1, <1>t DEF is_locked
      <4>2. users[i].locked - 1 \in 0..LOCKOUT
        BY <4>1, LockoutAssumption DEF User
      <4> QED
        BY <4>1, <4>2, NoneAssumption DEF User
    <3> QED
      BY <3>1
  <2>2. \A i \in Id : users'[i] = IF is_locked(i) THEN [users[i] EXCEPT !.locked = @ - 1] ELSE users[i]
    BY <1>5 DEF Tick
  <2>3. \A i \in Id : is_locked(i) => Exists(i) /\ [users[i] EXCEPT !.locked = @ - 1].role = users[i].role
    BY <1>t DEF is_locked, User
  <2> QED
    BY <1>5, <2>1, <2>2, <2>3 DEF SameRoles, Tick, UserPage, Exists
<1> QED
  BY <1>1, <1>2, <1>3, <1>4, <1>5, SameUsers
     DEF SignInStep, Lookup, CheckLocked, Login, Logout, Begin, db, UserPage, SetupSubmit, SetupFlag, HangUp,
         WhyRefused, Audit, reset_password, CliReset, Restart

(* The last admin outlives every step. *)
LEMMA AdminStep ==
  TypeOK /\ RequestFilled /\ AdminRemains /\ OnlyAfterSetup /\ [Next]_vars => AdminRemains'
<1> SUFFICES ASSUME TypeOK, RequestFilled, AdminRemains, OnlyAfterSetup, [Next]_vars
             PROVE  AdminRemains'
  OBVIOUS
<1>t. users \in [Id -> User \cup {None}]
  BY DEF TypeOK, UsersOK
<1>1. ASSUME NEW b \in Browser, create_user(b) PROVE AdminRemains'
  <2>1. setup_row /\ setup_row'
    BY <1>1 DEF create_user, UserPage, At, OnlyAfterSetup, SignedIn
  <2>a. PICK i \in Id : NextId(i) /\ \E row : users' = [users EXCEPT ![i] = row]
    BY <1>1 DEF create_user
  <2>2. ~Exists(i) /\ \A j \in Id \ {i} : users'[j] = users[j]
    <3>1. \A j \in Id : Exists(j) => j < i
      BY <2>a DEF NextId
    <3>2. ~(i < i)
      BY BoundAssumption DEF Id
    <3> QED
      BY <1>t, <2>a, <3>1, <3>2
  <2>3. PICK v \in Admins : v # i
    BY <2>1, <2>2 DEF AdminRemains, Admins
  <2>4. v \in Admins'
    BY <2>2, <2>3 DEF Admins, Exists
  <2> QED
    BY <2>1, <2>4 DEF AdminRemains
<1>2. ASSUME NEW b \in Browser, NEW i \in Id, delete_user(b, i) PROVE AdminRemains'
  <2>1. setup_row /\ setup_row'
    BY <1>2 DEF delete_user, UserPage, At, OnlyAfterSetup, SignedIn
  <2>2. CASE UNCHANGED users
    BY <2>1, <2>2, SameUsers, AdminKept
  <2>3. CASE OtherAdmins(i) /\ users' = [users EXCEPT ![i] = None]
    <3>1. PICK v \in Admins : v # i
      BY <2>1, <2>3 DEF AdminRemains, OtherAdmins
    <3>2. v \in Admins'
      BY <1>t, <2>3, <3>1 DEF Admins, Exists
    <3> QED
      BY <2>1, <3>2 DEF AdminRemains
  <2> QED
    BY <1>2, <2>2, <2>3 DEF delete_user
<1>3. ASSUME NEW b \in Browser, NEW i \in Id, NEW role \in Grantable, update_role(b, i, role)
      PROVE  AdminRemains'
  <2>1. setup_row /\ setup_row'
    BY <1>3 DEF update_role, UserPage, At, OnlyAfterSetup, SignedIn
  <2>2. CASE UNCHANGED users
    BY <2>1, <2>2, SameUsers, AdminKept
  <2>3. CASE Exists(i) /\ (role = "admin" \/ OtherAdmins(i)) /\ users' = [users EXCEPT ![i].role = role]
    <3>1. PICK v \in Admins : v # i \/ role = "admin"
      BY <2>1, <2>3 DEF AdminRemains, OtherAdmins
    <3>2. users[v] \in User /\ users[v].role = "admin" /\ v \in Id
      BY <1>t DEF Admins, Exists
    <3>3. users'[v] \in User /\ users'[v].role = "admin"
      <4>1. CASE v # i
        BY <1>t, <2>3, <3>2, <4>1
      <4>2. CASE v = i /\ role = "admin"
        BY <1>t, <2>3, <3>2, <4>2 DEF User
      <4> QED
        BY <3>1, <4>1, <4>2
    <3>4. v \in Admins'
      BY <3>2, <3>3, NoneAssumption DEF Admins, Exists
    <3> QED
      BY <2>1, <3>4 DEF AdminRemains
  <2> QED
    BY <1>3, <2>2, <2>3 DEF update_role
<1>4. ASSUME NEW b \in Browser, SetupClaim(b) PROVE AdminRemains'
  <2>1. CASE UNCHANGED <<users, setup_row>>
    BY <2>1, SameUsers, AdminKept
  <2>2. CASE setup_row' /\ \E i \in Id, h \in Hash :
          users' = [users EXCEPT ![i] =
            [role |-> "admin", hash |-> h, must_change_pw |-> FALSE, failed_attempts |-> 0, locked |-> 0]]
    <3> DEFINE row(h) == [role |-> "admin", hash |-> h, must_change_pw |-> FALSE, failed_attempts |-> 0, locked |-> 0]
    <3>1. \A h \in Hash : row(h) \in User
      BY LockoutAssumption DEF User, Role
    <3>2. PICK i \in Id, h \in Hash : users' = [users EXCEPT ![i] = row(h)]
      BY <2>2
    <3>3. users'[i] = row(h) /\ row(h) # None /\ row(h).role = "admin"
      BY <1>t, <3>1, <3>2, NoneAssumption
    <3>4. i \in Admins'
      BY <3>3 DEF Admins, Exists
    <3> QED
      BY <2>2, <3>4 DEF AdminRemains
  <2> QED
    BY <1>4, <2>1, <2>2 DEF SetupClaim
<1>5. CASE UNCHANGED vars
  BY <1>5, SameUsers, AdminKept DEF vars, db
<1> QED
  BY <1>1, <1>2, <1>3, <1>4, <1>5, SameRolesStep, AdminKept DEF Next, PageStep, SetupStep

(* A handler serves somebody only once there is an account.                *)
LEMMA OnlyAfterSetupStep ==
  TypeOK /\ RequestFilled /\ AdminRemains /\ OnlyAfterSetup /\ [Next]_vars => OnlyAfterSetup'
<1> SUFFICES ASSUME TypeOK, RequestFilled, AdminRemains, OnlyAfterSetup, [Next]_vars PROVE OnlyAfterSetup'
  OBVIOUS
<1>t. request \in [Browser -> Request]
  BY DEF TypeOK, RequestOK
<1>u. \A i \in Id : Exists(i) => setup_row
  BY DEF AdminRemains
<1>k. setup_row => setup_row'
  <2>1. ASSUME NEW b \in Browser, PageStep(b) PROVE UNCHANGED setup_row
    BY <2>1 DEF PageStep, create_user, delete_user, update_role, WhyRefused, reset_password, unlock, Audit, UserPage
  <2>2. ASSUME NEW b \in Browser, SetupClaim(b) PROVE setup_row => setup_row'
    BY <2>2 DEF SetupClaim
  <2> QED
    BY <2>1, <2>2, SameRolesStep DEF SameRoles, Next, SetupStep, vars, db
<1>1. CASE setup_row
  BY <1>1, <1>k DEF OnlyAfterSetup
<1>2. CASE ~setup_row
  <2> DEFINE Out(op) == op \notin SigningIn \cup SignedIn
  <2>1. \A b \in Browser : Out(request[b].op)
    BY <1>2 DEF OnlyAfterSetup
  <2>2. Out("none") /\ Out("claim") /\ Out("flag") /\ Idle.op = "none"
    BY DEF SigningIn, SignedIn, Idle
  <2>3. ASSUME NEW b \in Browser, Finish(b) \/ UNCHANGED request \/ Then(b, "claim") \/ Then(b, "flag")
        PROVE  \A c \in Browser : Out(request'[c].op)
    <3>1. ASSUME NEW c \in Browser PROVE request'[c].op \in {request[c].op, "none", "claim", "flag"}
      BY <1>t, <2>2, <2>3 DEF Finish, Then, Request
    <3> QED
      BY <2>1, <2>2, <3>1
  <2>4. ASSUME NEW b \in Browser, SignInStep(b) PROVE \A c \in Browser : Out(request'[c].op)
    <3>1. \A i \in Id : ~Lookup(b, i)
      BY <1>2, <1>u DEF Lookup
    <3>2. \A op : ~Begin(b, op)
      BY <1>2, <1>u, NoneAssumption DEF Begin, get_user, TypeOK, SessionOK
    <3>3. ~CheckLocked(b) /\ ~RecordSuccess(b) /\ ~RecordFailure(b) /\ ~Login(b) /\ ~ChangePassword(b)
      BY <2>1 DEF CheckLocked, RecordSuccess, RecordFailure, Login, ChangePassword, At, SigningIn, SignedIn
    <3> QED
      BY <2>3, <2>4, <3>1, <3>2, <3>3 DEF SignInStep, Logout
  <2>5. ASSUME NEW b \in Browser PROVE ~PageStep(b)
    BY <2>1 DEF PageStep, create_user, delete_user, update_role, WhyRefused, reset_password, unlock, Audit, At, SignedIn
  <2>6. ASSUME NEW b \in Browser, SetupStep(b) \/ HangUp(b) PROVE \A c \in Browser : Out(request'[c].op)
    BY <2>3, <2>6 DEF SetupStep, SetupSubmit, SetupClaim, SetupFlag, HangUp
  <2>7. CASE (\E i \in Id : CliReset(i)) \/ Tick \/ UNCHANGED vars
    BY <2>1, <2>7 DEF CliReset, Tick, vars, OnlyAfterSetup
  <2>8. CASE Restart
    BY <2>2, <2>8 DEF Restart, OnlyAfterSetup
  <2> QED
    BY <2>4, <2>5, <2>6, <2>7, <2>8 DEF Next, OnlyAfterSetup
<1> QED
  BY <1>1, <1>2

(* One first admin is made, once. *)
LEMMA FirstStep == TypeOK /\ RequestFilled /\ OneFirstAdmin /\ [Next]_vars => OneFirstAdmin'
<1> SUFFICES ASSUME TypeOK, RequestFilled, OneFirstAdmin, [Next]_vars PROVE OneFirstAdmin'
  OBVIOUS
<1>1. CASE UNCHANGED <<claims, setup_row>>
  BY <1>1 DEF OneFirstAdmin
<1>2. ASSUME NEW b \in Browser, SetupClaim(b) PROVE OneFirstAdmin'
  <2>1. \/ UNCHANGED <<claims, setup_row>>
        \/ ~setup_row /\ setup_row' /\ claims' = claims + 1
    BY <1>2 DEF SetupClaim, Unclaimed
  <2> QED
    BY <1>1, <2>1 DEF OneFirstAdmin
<1>3. ASSUME NEW b \in Browser, SignInStep(b) PROVE OneFirstAdmin'
  BY <1>1, <1>3
     DEF SignInStep, Lookup, CheckLocked, RecordSuccess, RecordFailure, Login, Logout, Begin, ChangePassword, db
<1>4. ASSUME NEW b \in Browser, PageStep(b) PROVE OneFirstAdmin'
  BY <1>1, <1>4
     DEF PageStep, create_user, delete_user, update_role, WhyRefused, reset_password, unlock, Audit, UserPage
<1>5. ASSUME NEW b \in Browser, SetupSubmit(b) \/ SetupFlag(b) \/ HangUp(b) PROVE OneFirstAdmin'
  BY <1>1, <1>5 DEF SetupSubmit, SetupFlag, HangUp, db
<1>6. CASE (\E i \in Id : CliReset(i)) \/ Restart \/ Tick \/ UNCHANGED vars
  BY <1>1, <1>6 DEF CliReset, Restart, Tick, UserPage, vars, db
<1> QED
  BY <1>2, <1>3, <1>4, <1>5, <1>6 DEF Next, SetupStep

(* The claim of the gate: it is open, about to be, or excused. *)
LEMMA GateStep ==
  TypeOK /\ RequestFilled /\ AdminRemains /\ GateAccounted /\ [Next]_vars => GateAccounted'
<1> SUFFICES ASSUME TypeOK, RequestFilled, AdminRemains, GateAccounted, [Next]_vars PROVE GateAccounted'
  OBVIOUS
<1> USE DEF GateAccounted
<1>t. request \in [Browser -> Request]
  BY DEF TypeOK, RequestOK
<1>1. ASSUME UNCHANGED <<setup_row, setup_complete, missed>>,
             \A c \in Browser : At(c, "flag") => At(c, "flag")'
      PROVE  GateAccounted'
  BY <1>1
<1>2. ASSUME NEW b \in Browser, ~At(b, "flag"), \A c \in Browser \ {b} : request'[c] = request[c],
             UNCHANGED <<setup_row, setup_complete, missed>>
      PROVE  GateAccounted'
  BY <1>1, <1>2 DEF At
<1>3. ASSUME NEW b \in Browser, SignInStep(b) PROVE GateAccounted'
  <2>1. \/ request' = request
        \/ ~At(b, "flag") /\ \E r : request' = [request EXCEPT ![b] = r]
    BY <1>3 DEF SignInStep, Lookup, CheckLocked, RecordSuccess, RecordFailure, Login, Logout, Begin,
                ChangePassword, At, Then, Finish
  <2>2. UNCHANGED <<setup_row, setup_complete, missed>>
    BY <1>3 DEF SignInStep, Lookup, CheckLocked, RecordSuccess, RecordFailure, Login, Logout, Begin,
                ChangePassword, db
  <2> QED
    BY <1>t, <1>1, <1>2, <2>1, <2>2 DEF At
<1>4. ASSUME NEW b \in Browser, PageStep(b) PROVE GateAccounted'
  <2>1. ~At(b, "flag") /\ \E r : request' = [request EXCEPT ![b] = r]
    BY <1>4 DEF PageStep, create_user, delete_user, update_role, WhyRefused, reset_password, unlock, Audit,
                At, Then, Finish
  <2>2. UNCHANGED <<setup_row, setup_complete, missed>>
    BY <1>4 DEF PageStep, create_user, delete_user, update_role, WhyRefused, reset_password, unlock, Audit,
                UserPage
  <2> QED
    BY <1>t, <1>2, <2>1, <2>2
<1>5. ASSUME NEW b \in Browser, SetupSubmit(b) PROVE GateAccounted'
  BY <1>t, <1>2, <1>5 DEF SetupSubmit, At, Then, db
<1>6. ASSUME NEW b \in Browser, SetupClaim(b) PROVE GateAccounted'
  <2>1. setup_complete' \/ request' = [request EXCEPT ![b].op = "flag"]
    BY <1>6 DEF SetupClaim, Then
  <2> QED
    BY <1>t, <2>1 DEF At, Request
<1>7. ASSUME NEW b \in Browser, SetupFlag(b) PROVE GateAccounted'
  BY <1>7 DEF SetupFlag
<1>8. ASSUME NEW b \in Browser, HangUp(b) PROVE GateAccounted'
  <2>1. CASE At(b, "flag")
    BY <1>8, <2>1 DEF HangUp
  <2>2. CASE ~At(b, "flag")
    <3>1. UNCHANGED <<setup_row, setup_complete>> /\ request' = [request EXCEPT ![b] = Idle] /\ missed' = missed
      BY <1>8, <2>2 DEF HangUp, Finish, db, TypeOK, FlagsOK
    <3> QED
      BY <1>t, <1>2, <2>2, <3>1
  <2> QED
    BY <2>1, <2>2
<1>9. CASE Restart
  <2>1. PICK counted \in BOOLEAN :
          /\ setup_complete' = (counted /\ \E i \in Id : Exists(i))
          /\ missed' = ~counted
    BY <1>9 DEF Restart
  <2>2. setup_row' => \E i \in Id : Exists(i)
    BY <1>9 DEF Restart, AdminRemains, Admins
  <2> QED
    BY <2>1, <2>2
<1>10. CASE (\E i \in Id : CliReset(i)) \/ Tick \/ UNCHANGED vars
  BY <1>1, <1>10 DEF CliReset, Tick, UserPage, vars, db, At
<1> QED
  BY <1>3, <1>4, <1>5, <1>6, <1>7, <1>8, <1>9, <1>10 DEF Next, SetupStep

-----------------------------------------------------------------------------
(* Who is between reading the row and recording the outcome has the lock.  *)
LockHeld ==
  \A b \in Browser : request[b].op \in {"check", "right", "wrong"} => auth_lock = b

LEMMA LockStep == TypeOK /\ LockHeld /\ [Next]_vars => LockHeld'
<1> SUFFICES ASSUME TypeOK, LockHeld, [Next]_vars PROVE LockHeld'
  OBVIOUS
<1> DEFINE Checking(op) == op \in {"check", "right", "wrong"}
<1>t. request \in [Browser -> Request]
  BY DEF TypeOK, RequestOK
<1>h. \A b \in Browser : Checking(request[b].op) => auth_lock = b
  BY DEF LockHeld
<1>1. ASSUME NEW b \in Browser, NEW r, ~Checking(r.op), request' = [request EXCEPT ![b] = r],
             Unlock(b) \/ UNCHANGED auth_lock
      PROVE  LockHeld'
  <2>1. ASSUME NEW c \in Browser, Checking(request'[c].op) PROVE auth_lock' = c
    <3>1. c # b /\ request'[c] = request[c]
      BY <1>t, <1>1, <2>1
    <3>2. auth_lock = c
      BY <1>h, <2>1, <3>1
    <3> QED
      BY <1>1, <3>1, <3>2 DEF Unlock
  <2> QED
    BY <2>1 DEF LockHeld
<1>2. ASSUME NEW b \in Browser, Finish(b), Unlock(b) \/ UNCHANGED auth_lock PROVE LockHeld'
  <2>1. request' = [request EXCEPT ![b] = Idle] /\ ~Checking(Idle.op)
    BY <1>2 DEF Finish, Idle
  <2> HIDE DEF Checking
  <2> QED
    BY <1>1, <1>2, <2>1
<1>3. ASSUME NEW b \in Browser, NEW op, Then(b, op), ~Checking(op), Unlock(b) \/ UNCHANGED auth_lock
      PROVE  LockHeld'
  <2> DEFINE r == [request[b] EXCEPT !.op = op]
  <2>1. request' = [request EXCEPT ![b] = r] /\ r.op = op
    BY <1>t, <1>3 DEF Then, Request
  <2> HIDE DEF r, Checking
  <2> QED
    BY <1>1, <1>3, <2>1
<1>4. CASE UNCHANGED <<request, auth_lock>>
  BY <1>4 DEF LockHeld
<1>5. ASSUME NEW b \in Browser, NEW i \in Id, Lookup(b, i) PROVE LockHeld'
  <2>1. \A c \in Browser : ~Checking(request[c].op)
    BY <1>h, <1>5, NoneAssumption DEF Lookup, TakeLock
  <2>2. \A c \in Browser \ {b} : request'[c] = request[c]
    BY <1>t, <1>5 DEF Lookup
  <2>3. auth_lock' = b
    BY <1>5 DEF Lookup, TakeLock
  <2> QED
    BY <2>1, <2>2, <2>3 DEF LockHeld
<1>6. ASSUME NEW b \in Browser, CheckLocked(b) PROVE LockHeld'
  <2>1. CASE Finish(b) /\ Unlock(b)
    BY <1>2, <2>1
  <2>2. CASE (Then(b, "right") \/ Then(b, "wrong")) /\ UNCHANGED auth_lock
    <3>1. auth_lock = b
      BY <1>h, <1>6 DEF CheckLocked, At
    <3>2. \A c \in Browser \ {b} : request'[c] = request[c]
      BY <1>t, <2>2 DEF Then
    <3> QED
      BY <1>h, <2>2, <3>1, <3>2 DEF LockHeld
  <2> QED
    BY <1>6, <2>1, <2>2 DEF CheckLocked
<1>7. ASSUME NEW b \in Browser, NEW op \in {"change", "admin", "audit"}, Begin(b, op) PROVE LockHeld'
  <2>1. request'[b].op = op /\ \A c \in Browser \ {b} : request'[c] = request[c]
    BY <1>t, <1>7 DEF Begin, Request
  <2>2. auth_lock' = auth_lock
    BY <1>7 DEF Begin
  <2> QED
    BY <1>h, <2>1, <2>2 DEF LockHeld
<1>8. ASSUME NEW b \in Browser, SignInStep(b) PROVE LockHeld'
  BY <1>2, <1>3, <1>5, <1>6, <1>7, <1>8 DEF SignInStep, RecordSuccess, RecordFailure, Login, Logout, ChangePassword
<1>9. ASSUME NEW b \in Browser, NEW i \in Id, NEW role \in Grantable, update_role(b, i, role) PROVE LockHeld'
  <2>1. \/ Then(b, "audit")
        \/ request'[b].op = "why" /\ \A c \in Browser \ {b} : request'[c] = request[c]
    BY <1>t, <1>9 DEF update_role, Request
  <2>2. auth_lock' = auth_lock
    BY <1>9 DEF update_role, UserPage
  <2> QED
    BY <1>h, <1>3, <2>1, <2>2 DEF LockHeld
<1>10. ASSUME NEW b \in Browser, WhyRefused(b) PROVE LockHeld'
  <2>1. \/ Finish(b)
        \/ request'[b].op = "audit" /\ \A c \in Browser \ {b} : request'[c] = request[c]
    BY <1>t, <1>10 DEF WhyRefused, Idle
  <2>2. auth_lock' = auth_lock
    BY <1>10 DEF WhyRefused, UserPage
  <2> QED
    BY <1>h, <1>2, <2>1, <2>2 DEF LockHeld
<1>11. ASSUME NEW b \in Browser, PageStep(b) PROVE LockHeld'
  BY <1>2, <1>3, <1>9, <1>10, <1>11
     DEF PageStep, create_user, delete_user, reset_password, unlock, Audit, UserPage
<1>12. ASSUME NEW b \in Browser, SetupStep(b) \/ HangUp(b) PROVE LockHeld'
  BY <1>2, <1>3, <1>12 DEF SetupStep, SetupSubmit, SetupClaim, SetupFlag, HangUp
<1>13. CASE Restart
  BY <1>13 DEF Restart, Idle, LockHeld
<1>14. CASE (\E i \in Id : CliReset(i)) \/ Tick \/ UNCHANGED vars
  BY <1>4, <1>14 DEF CliReset, Tick, UserPage, vars
<1> QED
  BY <1>8, <1>11, <1>12, <1>13, <1>14 DEF Next

(* Nothing but a recorded failure locks an account. *)
LocksKept == \A i \in Id : is_locked(i)' => is_locked(i)

LEMMA LocksStep ==
  ASSUME TypeOK, RequestFilled, [Next]_vars, \A b \in Browser : ~RecordFailure(b)
  PROVE  LocksKept
<1>t. users \in [Id -> User \cup {None}]
  BY DEF TypeOK, UsersOK
<1>r. \A i \in Id : Exists(i) => users[i] \in User
  BY <1>t DEF Exists
<1>1. CASE UNCHANGED users
  BY <1>1 DEF LocksKept, is_locked, Exists
<1>2. ASSUME NEW i \in Id, NEW row, row # None => row.locked = 0 \/ (Exists(i) /\ row.locked = users[i].locked),
             users' = [users EXCEPT ![i] = row]
      PROVE  LocksKept
  BY <1>t, <1>2 DEF LocksKept, is_locked, Exists
<1>3. ASSUME NEW i \in Id, Exists(i) PROVE cleared(users[i]).locked = 0
  BY <1>3, <1>r DEF cleared, User
<1>4. ASSUME NEW b \in Browser, SignInStep(b) PROVE LocksKept
  <2>1. CASE RecordSuccess(b)
    <3>1. request[b].id \in Id
      BY <2>1 DEF RecordSuccess, At, RequestFilled, SigningIn
    <3> QED
      BY <1>1, <1>2, <1>3, <2>1, <3>1 DEF RecordSuccess, Update
  <2>2. CASE ChangePassword(b)
    <3>1. request[b].id \in Id
      BY <2>2 DEF ChangePassword, At, RequestFilled, SignedIn
    <3>2. PICK h \in Hash : Update(request[b].id, [users[request[b].id] EXCEPT !.hash = h, !.must_change_pw = FALSE])
      BY <2>2 DEF ChangePassword
    <3>3. Exists(request[b].id) =>
            [users[request[b].id] EXCEPT !.hash = h, !.must_change_pw = FALSE].locked = users[request[b].id].locked
      BY <1>r, <3>1 DEF User
    <3> QED
      BY <1>1, <1>2, <3>1, <3>2, <3>3 DEF Update
  <2> QED
    BY <1>1, <1>4, <2>1, <2>2 DEF SignInStep, Lookup, CheckLocked, Login, Logout, Begin, db
<1>5. ASSUME NEW i \in Id, Reset(i) PROVE LocksKept
  <2>1. PICK h \in Hash : users' = [users EXCEPT ![i] = [cleared(users[i]) EXCEPT !.hash = h, !.must_change_pw = TRUE]]
    BY <1>5 DEF Reset
  <2>2. cleared(users[i]) \in User /\ cleared(users[i]).locked = 0
    BY <1>3, <1>5, <1>r, RowsTyped DEF Reset
  <2>3. [cleared(users[i]) EXCEPT !.hash = h, !.must_change_pw = TRUE].locked = 0
    BY <2>2 DEF User
  <2> QED
    BY <1>2, <2>1, <2>3
<1>6. ASSUME NEW b \in Browser, PageStep(b) PROVE LocksKept
  <2>1. CASE create_user(b)
    <3> DEFINE row(h, role) ==
          [role |-> role, hash |-> h, must_change_pw |-> TRUE, failed_attempts |-> 0, locked |-> 0]
    <3>1. PICK i \in Id, h \in Hash, role \in Grantable : users' = [users EXCEPT ![i] = row(h, role)]
      BY <2>1 DEF create_user
    <3>2. row(h, role).locked = 0
      OBVIOUS
    <3> HIDE DEF row
    <3> QED
      BY <1>2, <3>1, <3>2
  <2>2. ASSUME NEW i \in Id, delete_user(b, i) PROVE LocksKept
    BY <1>1, <1>2, <2>2 DEF delete_user
  <2>3. ASSUME NEW i \in Id, NEW role \in Grantable, update_role(b, i, role) PROVE LocksKept
    <3>1. CASE Exists(i) /\ users' = [users EXCEPT ![i].role = role]
      <4>1. [users[i] EXCEPT !.role = role].locked = users[i].locked
        BY <1>r, <3>1 DEF User
      <4> QED
        BY <1>2, <3>1, <4>1
    <3> QED
      BY <1>1, <2>3, <3>1 DEF update_role
  <2>4. ASSUME NEW i \in Id, unlock(b, i) PROVE LocksKept
    BY <1>2, <1>3, <2>4 DEF unlock
  <2> QED
    BY <1>1, <1>5, <1>6, <2>1, <2>2, <2>3, <2>4 DEF PageStep, WhyRefused, Audit, reset_password
<1>7. ASSUME NEW b \in Browser, SetupStep(b) \/ HangUp(b) PROVE LocksKept
  <2>1. CASE UNCHANGED users
    BY <1>1, <2>1
  <2> DEFINE row(h) ==
        [role |-> "admin", hash |-> h, must_change_pw |-> FALSE, failed_attempts |-> 0, locked |-> 0]
  <2>2. ASSUME NEW i \in Id, NEW h \in Hash, users' = [users EXCEPT ![i] = row(h)] PROVE LocksKept
    <3>1. row(h).locked = 0
      OBVIOUS
    <3> HIDE DEF row
    <3> QED
      BY <1>2, <2>2, <3>1
  <2>3. CASE SetupClaim(b)
    <3>1. UNCHANGED users \/ \E i \in Id, h \in Hash : users' = [users EXCEPT ![i] = row(h)]
      BY <2>3 DEF SetupClaim
    <3> HIDE DEF row
    <3> QED
      BY <2>1, <2>2, <3>1
  <2> QED
    BY <1>7, <2>1, <2>3 DEF SetupStep, SetupSubmit, SetupFlag, HangUp, db
<1>8. CASE Tick
  BY <1>t, <1>8 DEF Tick, LocksKept, is_locked, Exists
<1>9. CASE (\E i \in Id : CliReset(i)) \/ Restart \/ UNCHANGED vars
  BY <1>1, <1>5, <1>9 DEF CliReset, Restart, vars, db
<1> QED
  BY <1>4, <1>6, <1>7, <1>8, <1>9 DEF Next

(* No password is compared for a locked account. *)
LEMMA ThrottleStep ==
  TypeOK /\ RequestFilled /\ LockHeld /\ ThrottleHolds /\ [Next]_vars => ThrottleHolds'
<1> SUFFICES ASSUME TypeOK, RequestFilled, LockHeld, ThrottleHolds, [Next]_vars PROVE ThrottleHolds'
  OBVIOUS
<1>t. request \in [Browser -> Request]
  BY DEF TypeOK, RequestOK
<1>1. ASSUME NEW b \in Browser, RecordFailure(b) PROVE ThrottleHolds'
  <2>1. auth_lock = b
    BY <1>1 DEF RecordFailure, At, LockHeld
  <2>2. \A c \in Browser : request'[c].op \notin {"right", "wrong"}
    BY <1>t, <1>1, <2>1 DEF RecordFailure, Finish, LockHeld, Idle
  <2> QED
    BY <2>2 DEF ThrottleHolds
<1>2. CASE \A b \in Browser : ~RecordFailure(b)
  <2>1. LocksKept
    BY <1>2, LocksStep
  <2>2. ASSUME NEW c \in Browser, request'[c].op \in {"right", "wrong"}
        PROVE  request'[c].id \in Id /\ ~is_locked(request'[c].id)
    <3> DEFINE Checked == /\ request[c].op = "check" /\ ~is_locked(request[c].id)
                          /\ request'[c].id = request[c].id
    <3>1. Checked \/ request'[c] = request[c]
      <4>a. ASSUME NEW b \in Browser, NEW r, r.op \notin {"right", "wrong"}, request' = [request EXCEPT ![b] = r]
            PROVE  request'[c] = request[c]
        BY <1>t, <2>2, <4>a
      <4>b. ASSUME NEW b \in Browser, Finish(b) PROVE request'[c] = request[c]
        <5>1. Idle.op \notin {"right", "wrong"}
          BY DEF Idle
        <5> QED
          BY <4>a, <4>b, <5>1 DEF Finish
      <4>c. ASSUME NEW b \in Browser, NEW op, op \notin {"right", "wrong"}, Then(b, op) PROVE request'[c] = request[c]
        BY <1>t, <2>2, <4>c DEF Then, Request
      <4>1. ASSUME NEW b \in Browser, SignInStep(b) PROVE Checked \/ request'[c] = request[c]
        <5>1. ASSUME NEW i \in Id, Lookup(b, i) PROVE request'[c] = request[c]
          BY <1>t, <2>2, <5>1 DEF Lookup, Idle
        <5>2. ASSUME CheckLocked(b) PROVE Checked \/ request'[c] = request[c]
          <6>1. CASE b # c
            BY <1>t, <5>2, <6>1 DEF CheckLocked, Finish, Then
          <6>2. CASE b = c
            BY <1>t, <2>2, <4>b, <5>2, <6>2 DEF CheckLocked, At, Then, Request
          <6> QED
            BY <6>1, <6>2
        <5>3. ASSUME NEW op \in {"change", "admin", "audit"}, Begin(b, op) PROVE request'[c] = request[c]
          BY <1>t, <2>2, <5>3 DEF Begin, Request
        <5>4. ASSUME RecordSuccess(b) \/ ChangePassword(b) PROVE request'[c] = request[c]
          BY <4>c, <5>4 DEF RecordSuccess, ChangePassword
        <5>5. ASSUME RecordFailure(b) \/ Login(b) \/ Logout(b) PROVE request'[c] = request[c]
          BY <4>b, <5>5 DEF RecordFailure, Login, Logout
        <5> HIDE DEF Checked
        <5> QED
          BY <4>1, <5>1, <5>2, <5>3, <5>4, <5>5 DEF SignInStep
      <4>2. ASSUME NEW b \in Browser, PageStep(b) PROVE request'[c] = request[c]
        <5>1. ASSUME NEW i \in Id, NEW role \in Grantable, update_role(b, i, role) PROVE request'[c] = request[c]
          BY <1>t, <2>2, <4>c, <5>1 DEF update_role, Request
        <5>2. CASE WhyRefused(b)
          BY <1>t, <2>2, <4>b, <5>2 DEF WhyRefused, Idle
        <5> QED
          BY <4>b, <4>c, <4>2, <5>1, <5>2 DEF PageStep, create_user, delete_user, reset_password, unlock, Audit
      <4>3. ASSUME NEW b \in Browser, SetupStep(b) \/ HangUp(b) PROVE request'[c] = request[c]
        BY <4>b, <4>c, <4>3 DEF SetupStep, SetupSubmit, SetupClaim, SetupFlag, HangUp
      <4>4. ASSUME (\E i \in Id : CliReset(i)) \/ Tick \/ UNCHANGED vars PROVE request'[c] = request[c]
        BY <4>4 DEF CliReset, Tick, vars
      <4>5. ~Restart
        <5>1. Restart => request'[c] = Idle
          BY DEF Restart
        <5>2. Idle.op = "none"
          BY DEF Idle
        <5> QED
          BY <2>2, <5>1, <5>2
      <4> QED
        BY <4>1, <4>2, <4>3, <4>4, <4>5 DEF Next
    <3>2. CASE request'[c] = request[c]
      BY <2>2, <3>2 DEF ThrottleHolds, RequestFilled, SigningIn
    <3>3. CASE Checked
      BY <3>3 DEF RequestFilled, SigningIn
    <3> QED
      BY <3>1, <3>2, <3>3
  <2>3. ASSUME NEW c \in Browser, request'[c].op \in {"right", "wrong"} PROVE ~is_locked(request[c].id)'
    BY <2>1, <2>2, <2>3 DEF LocksKept, is_locked, Exists
  <2> QED
    BY <2>3 DEF ThrottleHolds
<1> QED
  BY <1>1, <1>2


-----------------------------------------------------------------------------
(* b's session, or its sign-in, rests on the hash h of account i. *)
Holds(b, i, h) ==
  \/ session[b] # None /\ session[b].id = i /\ session[b].hash = h
  \/ request[b].op \in SigningIn /\ request[b].id = i /\ request[b].hash = h

Stale(i, h) == Exists(i) => users[i].hash # h

(* Who is revoked holds nothing but what is not its account's any more. *)
RevokedStale ==
  /\ \A b \in revoked, i \in Id, h \in Hash : Holds(b, i, h) => Stale(i, h)
  /\ \A b \in Browser : request[b].op \in SigningIn => session[b] = None

(* What is stale stays stale: every password that is written is a new one. *)
HashesKept == \A i \in Id, h \in Hash : InUse(h) /\ Stale(i, h) => Stale(i, h)'

LEMMA RowHash ==
  ASSUME TypeOK, NEW i \in Id, NEW row,
         row # None => ~InUse(row.hash) \/ (Exists(i) /\ row.hash = users[i].hash),
         users' = [users EXCEPT ![i] = row]
  PROVE  HashesKept
  BY DEF HashesKept, Stale, Exists, TypeOK, UsersOK

LEMMA HashStep == TypeOK /\ RequestFilled /\ [Next]_vars => HashesKept
<1> SUFFICES ASSUME TypeOK, RequestFilled, [Next]_vars PROVE HashesKept
  OBVIOUS
<1>t. users \in [Id -> User \cup {None}]
  BY DEF TypeOK, UsersOK
<1>r. \A i \in Id : Exists(i) => users[i] \in User
  BY <1>t DEF Exists
<1>c. \A i \in Id : Exists(i) => /\ cleared(users[i]) \in User /\ failed(users[i]) \in User
                                 /\ cleared(users[i]).hash = users[i].hash
                                 /\ failed(users[i]).hash = users[i].hash
  BY <1>r, RowsTyped DEF cleared, failed, User
<1>1. CASE UNCHANGED users
  BY <1>1 DEF HashesKept, Stale, Exists
<1>2. ASSUME NEW b \in Browser, SignInStep(b) PROVE HashesKept
  <2>1. CASE RecordSuccess(b) \/ RecordFailure(b)
    <3>1. request[b].id \in Id
      BY <2>1 DEF RecordSuccess, RecordFailure, At, RequestFilled, SigningIn
    <3>2. \/ UNCHANGED users
          \/ Exists(request[b].id) /\ users' = [users EXCEPT ![request[b].id] = cleared(users[request[b].id])]
          \/ Exists(request[b].id) /\ users' = [users EXCEPT ![request[b].id] = failed(users[request[b].id])]
      BY <2>1 DEF RecordSuccess, RecordFailure, Update
    <3> QED
      BY <1>1, <1>c, <3>1, <3>2, RowHash
  <2>2. CASE ChangePassword(b)
    <3>1. request[b].id \in Id
      BY <2>2 DEF ChangePassword, At, RequestFilled, SignedIn
    <3>2. PICK h \in Hash :
            hash_password(h) /\ Update(request[b].id, [users[request[b].id] EXCEPT !.hash = h, !.must_change_pw = FALSE])
      BY <2>2 DEF ChangePassword
    <3>3. Exists(request[b].id) =>
            [users[request[b].id] EXCEPT !.hash = h, !.must_change_pw = FALSE].hash = h
      BY <1>r, <3>1 DEF User
    <3> QED
      BY <1>1, <3>1, <3>2, <3>3, RowHash DEF Update, hash_password
  <2> QED
    BY <1>1, <1>2, <2>1, <2>2 DEF SignInStep, Lookup, CheckLocked, Login, Logout, Begin, db
<1>3. ASSUME NEW i \in Id, Reset(i) PROVE HashesKept
  <2>1. PICK h \in Hash :
          /\ hash_password(h)
          /\ users' = [users EXCEPT ![i] = [cleared(users[i]) EXCEPT !.hash = h, !.must_change_pw = TRUE]]
    BY <1>3 DEF Reset
  <2>2. cleared(users[i]) \in User
    BY <1>3, <1>c DEF Reset
  <2>3. [cleared(users[i]) EXCEPT !.hash = h, !.must_change_pw = TRUE].hash = h
    BY <2>2 DEF User
  <2> QED
    BY <2>1, <2>3, RowHash DEF hash_password
<1>4. ASSUME NEW b \in Browser, PageStep(b) PROVE HashesKept
  <2>1. CASE create_user(b)
    <3> DEFINE row(h, role) ==
          [role |-> role, hash |-> h, must_change_pw |-> TRUE, failed_attempts |-> 0, locked |-> 0]
    <3>1. PICK i \in Id, h \in Hash, role \in Grantable :
            hash_password(h) /\ users' = [users EXCEPT ![i] = row(h, role)]
      BY <2>1 DEF create_user
    <3>2. row(h, role).hash = h
      OBVIOUS
    <3> HIDE DEF row
    <3> QED
      BY <3>1, <3>2, RowHash DEF hash_password
  <2>2. ASSUME NEW i \in Id, delete_user(b, i) PROVE HashesKept
    BY <1>1, <2>2, RowHash DEF delete_user
  <2>3. ASSUME NEW i \in Id, NEW role \in Grantable, update_role(b, i, role) PROVE HashesKept
    <3>1. CASE Exists(i) /\ users' = [users EXCEPT ![i].role = role]
      <4>1. [users[i] EXCEPT !.role = role].hash = users[i].hash
        BY <1>r, <3>1 DEF User
      <4> QED
        BY <3>1, <4>1, RowHash
    <3> QED
      BY <1>1, <2>3, <3>1 DEF update_role
  <2>4. ASSUME NEW i \in Id, unlock(b, i) PROVE HashesKept
    BY <1>c, <2>4, RowHash DEF unlock
  <2> QED
    BY <1>1, <1>3, <1>4, <2>1, <2>2, <2>3, <2>4 DEF PageStep, WhyRefused, Audit, reset_password
<1>5. ASSUME NEW b \in Browser, SetupStep(b) \/ HangUp(b) PROVE HashesKept
  <2> DEFINE row(h) ==
        [role |-> "admin", hash |-> h, must_change_pw |-> FALSE, failed_attempts |-> 0, locked |-> 0]
  <2>1. ASSUME NEW i \in Id, NEW h \in Hash, hash_password(h), users' = [users EXCEPT ![i] = row(h)] PROVE HashesKept
    <3>1. row(h).hash = h
      OBVIOUS
    <3> HIDE DEF row
    <3> QED
      BY <2>1, <3>1, RowHash DEF hash_password
  <2>2. CASE SetupClaim(b)
    <3>1. UNCHANGED users \/ \E i \in Id, h \in Hash : hash_password(h) /\ users' = [users EXCEPT ![i] = row(h)]
      BY <2>2 DEF SetupClaim
    <3> HIDE DEF row
    <3> QED
      BY <1>1, <2>1, <3>1
  <2> QED
    BY <1>1, <1>5, <2>2 DEF SetupStep, SetupSubmit, SetupFlag, HangUp, db
<1>6. CASE Tick
  <2>1. \A i \in Id : Exists(i)' => Exists(i) /\ users'[i].hash = users[i].hash
    BY <1>r, <1>6 DEF Tick, is_locked, Exists, User
  <2> QED
    BY <2>1 DEF HashesKept, Stale
<1>7. CASE (\E i \in Id : CliReset(i)) \/ Restart \/ UNCHANGED vars
  BY <1>1, <1>3, <1>7 DEF CliReset, Restart, vars, db
<1> QED
  BY <1>2, <1>4, <1>5, <1>6, <1>7 DEF Next

(* Only reading a row makes a browser hold what it did not.                *)
LEMMA HoldsStep ==
  TypeOK /\ RequestFilled /\ RevokedStale /\ [Next]_vars =>
    \A b \in Browser : /\ request'[b].op \in SigningIn => session'[b] = None
                       /\ \A i \in Id, h \in Hash : Holds(b, i, h)' => Holds(b, i, h) \/ b \notin revoked'
<1> SUFFICES ASSUME TypeOK, RequestFilled, RevokedStale, [Next]_vars, NEW c \in Browser
             PROVE  /\ request'[c].op \in SigningIn => session'[c] = None
                    /\ \A i \in Id, h \in Hash : Holds(c, i, h)' => Holds(c, i, h) \/ c \notin revoked'
  OBVIOUS
<1> DEFINE Goal == /\ request'[c].op \in SigningIn => session'[c] = None
                   /\ \A i \in Id, h \in Hash : Holds(c, i, h)' => Holds(c, i, h) \/ c \notin revoked'
<1>t. request \in [Browser -> Request] /\ session \in [Browser -> [id : Id, hash : Hash] \cup {None}]
  BY DEF TypeOK, RequestOK, SessionOK
<1>o. \A b \in Browser : request[b].op \in SigningIn => session[b] = None
  BY DEF RevokedStale
<1>1. ASSUME UNCHANGED session,
             \/ request'[c] = request[c]
             \/ request'[c].op \notin SigningIn
             \/ request[c].op \in SigningIn /\ request'[c].id = request[c].id /\ request'[c].hash = request[c].hash
      PROVE  Goal
  BY <1>o, <1>1 DEF Holds
<1>2. ASSUME NEW b \in Browser, UNCHANGED session, Finish(b) PROVE Goal
  <2>1. Idle.op \notin SigningIn
    BY DEF Idle, SigningIn
  <2>2. request'[c] = request[c] \/ request'[c] = Idle
    BY <1>t, <1>2 DEF Finish
  <2> HIDE DEF Goal
  <2> QED
    BY <1>1, <1>2, <2>1, <2>2
<1>3. ASSUME NEW b \in Browser, NEW op, op \notin SigningIn \/ request[b].op \in SigningIn, UNCHANGED session, Then(b, op)
      PROVE  Goal
  <2>1. \/ request'[c] = request[c]
        \/ c = b /\ request'[c].op = op /\ request'[c].id = request[c].id /\ request'[c].hash = request[c].hash
    BY <1>t, <1>3 DEF Then, Request
  <2> HIDE DEF Goal
  <2> QED
    BY <1>1, <1>3, <2>1
<1>4. ASSUME NEW b \in Browser, SignInStep(b) PROVE Goal
  <2>1. ASSUME NEW i \in Id, Lookup(b, i) PROVE Goal
    <3>1. CASE c # b
      <4>1. request'[c] = request[c] /\ UNCHANGED session
        BY <1>t, <2>1, <3>1 DEF Lookup
      <4> HIDE DEF Goal
      <4> QED
        BY <1>1, <4>1
    <3>2. CASE c = b
      BY <2>1, <3>2 DEF Lookup, Unrevoke
    <3> QED
      BY <3>1, <3>2
  <2>2. ASSUME CheckLocked(b) PROVE Goal
    <3> HIDE DEF Goal
    <3> QED
      BY <1>2, <1>3, <2>2 DEF CheckLocked, At, SigningIn
  <2>3. ASSUME RecordSuccess(b) \/ RecordFailure(b) \/ ChangePassword(b) PROVE Goal
    <3> HIDE DEF Goal
    <3> QED
      BY <1>2, <1>3, <2>3 DEF RecordSuccess, RecordFailure, ChangePassword, At, SigningIn
  <2>4. ASSUME Login(b) PROVE Goal
    <3>1. request'[b] = Idle /\ Idle.op \notin SigningIn
      BY <1>t, <2>4 DEF Login, Finish, Idle, SigningIn
    <3>2. session'[b] = [id |-> request[b].id, hash |-> request[b].hash] /\ request[b].op \in SigningIn
      BY <1>t, <2>4 DEF Login, session_auth_hash, At, SigningIn
    <3>3. c # b => request'[c] = request[c] /\ session'[c] = session[c]
      BY <1>t, <2>4 DEF Login, Finish
    <3>4. CASE c = b
      BY <3>1, <3>2, <3>4 DEF Holds
    <3>5. CASE c # b
      BY <1>o, <3>3, <3>5 DEF Holds
    <3> QED
      BY <3>4, <3>5
  <2>5. ASSUME Logout(b) PROVE Goal
    <3>1. request'[b] = Idle /\ Idle.op \notin SigningIn /\ session'[b] = None
      BY <1>t, <2>5 DEF Logout, Finish, Idle, SigningIn
    <3>2. c # b => request'[c] = request[c] /\ session'[c] = session[c]
      BY <1>t, <2>5 DEF Logout, Finish
    <3>3. CASE c = b
      BY <3>1, <3>3 DEF Holds
    <3>4. CASE c # b
      BY <1>o, <3>2, <3>4 DEF Holds
    <3> QED
      BY <3>3, <3>4
  <2>6. ASSUME NEW op \in {"change", "admin", "audit"}, Begin(b, op) PROVE Goal
    <3>1. UNCHANGED session /\ (request'[c] = request[c] \/ request'[c].op \notin SigningIn)
      BY <1>t, <2>6 DEF Begin, Request, SigningIn
    <3> HIDE DEF Goal
    <3> QED
      BY <1>1, <3>1
  <2> HIDE DEF Goal
  <2> QED
    BY <1>4, <2>1, <2>2, <2>3, <2>4, <2>5, <2>6 DEF SignInStep
<1>5. ASSUME NEW b \in Browser, PageStep(b) PROVE Goal
  <2>1. ASSUME NEW i \in Id, NEW role \in Grantable, update_role(b, i, role) PROVE Goal
    <3>1. UNCHANGED session /\ (Then(b, "audit") \/ request'[c] = request[c] \/ request'[c].op \notin SigningIn)
      BY <1>t, <2>1 DEF update_role, UserPage, Request, SigningIn
    <3> HIDE DEF Goal
    <3> QED
      BY <1>1, <1>3, <3>1 DEF SigningIn
  <2>2. ASSUME WhyRefused(b) PROVE Goal
    <3>1. UNCHANGED session /\ (Finish(b) \/ request'[c] = request[c] \/ request'[c].op \notin SigningIn)
      BY <1>t, <2>2 DEF WhyRefused, UserPage, Idle, SigningIn
    <3> HIDE DEF Goal
    <3> QED
      BY <1>1, <1>2, <3>1
  <2> HIDE DEF Goal
  <2> QED
    BY <1>2, <1>3, <1>5, <2>1, <2>2
       DEF PageStep, create_user, delete_user, reset_password, unlock, Audit, UserPage, SigningIn
<1>6. ASSUME NEW b \in Browser, SetupStep(b) \/ HangUp(b) PROVE Goal
  <2> HIDE DEF Goal
  <2> QED
    BY <1>2, <1>3, <1>6 DEF SetupStep, SetupSubmit, SetupClaim, SetupFlag, HangUp, SigningIn
<1>7. ASSUME Restart PROVE Goal
  <2>1. request'[c] = Idle /\ Idle.op \notin SigningIn /\ UNCHANGED session
    BY <1>7 DEF Restart, Idle, SigningIn
  <2> HIDE DEF Goal
  <2> QED
    BY <1>1, <2>1
<1>8. ASSUME (\E i \in Id : CliReset(i)) \/ Tick \/ UNCHANGED vars PROVE Goal
  <2>1. UNCHANGED <<session, request>>
    BY <1>8 DEF CliReset, Tick, UserPage, vars
  <2> HIDE DEF Goal
  <2> QED
    BY <1>1, <2>1
<1> HIDE DEF Goal
<1>9. Goal
  BY <1>4, <1>5, <1>6, <1>7, <1>8 DEF Next
<1> QED
  BY <1>9 DEF Goal

(* A revocation reaches everybody who is signed in, or signing in, as i.   *)
LEMMA RevokedStep == TypeOK /\ RequestFilled /\ RevokedStale /\ [Next]_vars => RevokedStale'
<1> SUFFICES ASSUME TypeOK, RequestFilled, RevokedStale, [Next]_vars PROVE RevokedStale'
  OBVIOUS
<1>1. HashesKept
  BY HashStep
<1>2. \A b \in Browser : /\ request'[b].op \in SigningIn => session'[b] = None
                         /\ \A i \in Id, h \in Hash : Holds(b, i, h)' => Holds(b, i, h) \/ b \notin revoked'
  BY HoldsStep
<1>3. revoked \subseteq Browser /\ \A b \in Browser : request[b].op \in SigningIn => session[b] = None
  BY DEF TypeOK, OthersOK, RevokedStale
<1>4. \A b \in Browser, i \in Id, h \in Hash : Holds(b, i, h) => InUse(h)
  BY DEF Holds, InUse
<1>5. ASSUME revoked' \subseteq revoked PROVE RevokedStale'
  <2>1. ASSUME NEW b \in revoked', NEW i \in Id, NEW h \in Hash, Holds(b, i, h)' PROVE Stale(i, h)'
    <3>1. b \in revoked /\ Holds(b, i, h)
      BY <1>2, <1>3, <1>5, <2>1
    <3>2. Stale(i, h)
      BY <3>1 DEF RevokedStale
    <3> QED
      BY <1>1, <1>3, <1>4, <3>1, <3>2 DEF HashesKept
  <2> QED
    BY <1>2, <2>1 DEF RevokedStale
<1>6. ASSUME NEW j \in Id, Revoke(j), \A h \in Hash : InUse(h) => Stale(j, h)' PROVE RevokedStale'
  <2>1. ASSUME NEW b \in revoked', NEW i \in Id, NEW h \in Hash, Holds(b, i, h)' PROVE Stale(i, h)'
    <3>1. b \in Browser /\ Holds(b, i, h)
      BY <1>2, <1>3, <1>6, <2>1 DEF Revoke
    <3>2. CASE b \in revoked
      <4>1. Stale(i, h)
        BY <3>1, <3>2 DEF RevokedStale
      <4> QED
        BY <1>1, <1>4, <3>1, <4>1 DEF HashesKept
    <3>3. CASE b \notin revoked
      <4>1. i = j
        BY <1>3, <1>6, <2>1, <3>1, <3>3 DEF Revoke, Holds
      <4> QED
        BY <1>4, <1>6, <3>1, <4>1
    <3> QED
      BY <3>2, <3>3
  <2> QED
    BY <1>2, <2>1 DEF RevokedStale
<1>7. ASSUME NEW j \in Id, NEW row, row # None => ~InUse(row.hash), users' = [users EXCEPT ![j] = row]
      PROVE  \A h \in Hash : InUse(h) => Stale(j, h)'
  BY <1>7 DEF Stale, Exists, TypeOK, UsersOK
<1>8. ASSUME NEW j \in Id, Reset(j) PROVE RevokedStale'
  <2>1. PICK h \in Hash :
          /\ hash_password(h)
          /\ users' = [users EXCEPT ![j] = [cleared(users[j]) EXCEPT !.hash = h, !.must_change_pw = TRUE]]
    BY <1>8 DEF Reset
  <2>2. cleared(users[j]) \in User
    BY <1>8, RowsTyped DEF Reset, Exists, TypeOK, UsersOK
  <2>3. [cleared(users[j]) EXCEPT !.hash = h, !.must_change_pw = TRUE].hash = h
    BY <2>2 DEF User
  <2>4. \A g \in Hash : InUse(g) => Stale(j, g)'
    BY <1>7, <2>1, <2>3 DEF hash_password
  <2> QED
    BY <1>6, <1>8, <2>4 DEF Reset
<1>9. ASSUME NEW b \in Browser, ChangePassword(b) PROVE RevokedStale'
  <2>1. PICK j \in Id : j = request[b].id /\ Revoke(j)
    BY <1>9 DEF ChangePassword, At, RequestFilled, SignedIn
  <2>2. PICK h \in Hash : hash_password(h) /\ Update(j, [users[j] EXCEPT !.hash = h, !.must_change_pw = FALSE])
    BY <1>9, <2>1 DEF ChangePassword
  <2>3. CASE Exists(j)
    <3>1. [users[j] EXCEPT !.hash = h, !.must_change_pw = FALSE].hash = h
      BY <2>1, <2>3 DEF Exists, TypeOK, UsersOK, User
    <3>2. \A g \in Hash : InUse(g) => Stale(j, g)'
      BY <1>7, <2>1, <2>2, <2>3, <3>1 DEF hash_password, Update
    <3> QED
      BY <1>6, <2>1, <3>2
  <2>4. CASE ~Exists(j)
    <3>1. users' = users
      BY <2>2, <2>4 DEF Update
    <3>2. \A g \in Hash : InUse(g) => Stale(j, g)'
      BY <2>4, <3>1 DEF Stale, Exists
    <3> QED
      BY <1>6, <2>1, <3>2
  <2> QED
    BY <2>3, <2>4
<1>10. ASSUME NEW b \in Browser, NEW i \in Id, delete_user(b, i) PROVE RevokedStale'
  <2>1. CASE users' = [users EXCEPT ![i] = None] /\ Revoke(i)
    BY <1>6, <1>7, <2>1
  <2> QED
    BY <1>5, <1>10, <2>1 DEF delete_user
<1>11. ASSUME NEW b \in Browser, SignInStep(b) PROVE RevokedStale'
  BY <1>5, <1>9, <1>11
     DEF SignInStep, Lookup, CheckLocked, RecordSuccess, RecordFailure, Login, Logout, Begin, Unrevoke
<1>12. ASSUME NEW b \in Browser, PageStep(b) PROVE RevokedStale'
  BY <1>5, <1>8, <1>10, <1>12 DEF PageStep, create_user, update_role, WhyRefused, reset_password, unlock, Audit
<1>13. ASSUME NEW b \in Browser, SetupStep(b) \/ HangUp(b) PROVE RevokedStale'
  BY <1>5, <1>13 DEF SetupStep, SetupSubmit, SetupClaim, SetupFlag, HangUp
<1>14. ASSUME (\E i \in Id : CliReset(i)) \/ Restart \/ Tick \/ UNCHANGED vars PROVE RevokedStale'
  BY <1>5, <1>8, <1>14 DEF CliReset, Restart, Tick, vars
<1> QED
  BY <1>11, <1>12, <1>13, <1>14 DEF Next

-----------------------------------------------------------------------------
(* The inductive invariant, of everything above. *)
IInv ==
  /\ TypeOK /\ RequestFilled
  /\ AdminRemains /\ OnlyAfterSetup /\ OneFirstAdmin
  /\ LockHeld /\ ThrottleHolds
  /\ GateAccounted
  /\ RevokedStale

LEMMA IInvInit == Init => IInv
<1> SUFFICES ASSUME Init PROVE IInv
  OBVIOUS
<1>1. TypeOK /\ RequestFilled
  BY TypeInit
<1>2. \A b \in Browser : request[b].op = "none"
  BY DEF Init, Idle
<1>3. AdminRemains /\ OneFirstAdmin /\ GateAccounted
  BY DEF Init, AdminRemains, Exists, OneFirstAdmin, GateAccounted
<1>4. OnlyAfterSetup /\ LockHeld /\ ThrottleHolds
  BY <1>2 DEF OnlyAfterSetup, LockHeld, ThrottleHolds, SigningIn, SignedIn
<1>5. RevokedStale
  BY <1>2 DEF Init, RevokedStale, SigningIn
<1> QED
  BY <1>1, <1>3, <1>4, <1>5 DEF IInv

LEMMA IInvStep == IInv /\ [Next]_vars => IInv'
  BY TypeInductive, AdminStep, OnlyAfterSetupStep, FirstStep, LockStep, ThrottleStep, GateStep, RevokedStep DEF IInv

LEMMA IInvAlways == Spec => []IInv
<1> QED
  BY IInvInit, IInvStep, PTL DEF Spec

(* Somebody can administer the device from the moment setup is claimed,    *)
(* for any number of accounts and of admins deleting and demoting one      *)
(* another at the same time.                                               *)
THEOREM AdminAlwaysRemains == Spec => []AdminRemains
<1>1. IInv => AdminRemains
  BY DEF IInv
<1> QED
  BY IInvAlways, <1>1, PTL

(* However many browsers submit the setup form, one makes a first admin.   *)
THEOREM FirstAdminOnce == Spec => []OneFirstAdmin
<1>1. IInv => OneFirstAdmin
  BY DEF IInv
<1> QED
  BY IInvAlways, <1>1, PTL

(* No password is compared for a locked account, however many attempts are *)
(* in flight and wherever they hang up.                                    *)
THEOREM ThrottleAlwaysHolds == Spec => []ThrottleHolds
<1>1. IInv => ThrottleHolds
  BY DEF IInv
<1> QED
  BY IInvAlways, <1>1, PTL

(* The setup gate is open after the claim, about to be, or excused.        *)
THEOREM GateAlwaysAccounted == Spec => []GateAccounted
<1>1. IInv => GateAccounted
  BY DEF IInv
<1> QED
  BY IInvAlways, <1>1, PTL

(* No request starts under a session whose account got another password,   *)
(* or was deleted, since.                                                  *)
THEOREM RevokedAlwaysRefused == Spec => RevokedIsRefused
<1> DEFINE Started(b) == request[b].op = "none" /\ request'[b].op \in SignedIn
<1>1. IInv /\ [Next]_vars => \A b \in Browser : Started(b) => b \notin revoked
  <2> SUFFICES ASSUME IInv, [Next]_vars, NEW c \in Browser, Started(c) PROVE c \notin revoked
    OBVIOUS
  <2>t. request \in [Browser -> Request] /\ session \in [Browser -> [id : Id, hash : Hash] \cup {None}]
    BY DEF IInv, TypeOK, RequestOK, SessionOK
  <2>1. request[c].op = "none" /\ request'[c].op \in SignedIn /\ request'[c] # request[c]
    BY <2>t DEF SignedIn
  <2>2. ASSUME NEW b \in Browser, SignInStep(b) PROVE get_user(session[c]) # None
    <3>1. b = c
      BY <2>t, <2>1, <2>2 DEF SignInStep, Lookup, CheckLocked, RecordSuccess, RecordFailure, Login, Logout,
                             Begin, ChangePassword, Then, Finish
    <3>2. SignInStep(c)
      BY <2>2, <3>1
    <3>3. \E op \in {"change", "admin", "audit"} : Begin(c, op)
      <4>1. ASSUME NEW i \in Id, Lookup(c, i) PROVE FALSE
        BY <2>t, <2>1, <4>1 DEF Lookup, SignedIn, Idle
      <4>2. ASSUME Logout(c) PROVE FALSE
        BY <2>t, <2>1, <4>2 DEF Logout, Finish, SignedIn, Idle
      <4> QED
        BY <2>1, <3>2, <4>1, <4>2 DEF SignInStep, CheckLocked, RecordSuccess, RecordFailure, Login, ChangePassword, At
    <3> QED
      BY <3>3 DEF Begin
  <2>3. get_user(session[c]) # None
    <3>0. \A b \in Browser : b # c /\ (Finish(b) \/ \E op \in Op : Then(b, op)) => request'[c] = request[c]
      BY <2>t DEF Finish, Then
    <3>1. ASSUME NEW b \in Browser, PageStep(b) PROVE FALSE
      <4>1. b # c
        BY <2>1, <3>1 DEF PageStep, create_user, delete_user, update_role, WhyRefused, reset_password, unlock, Audit, At
      <4>2. Finish(b) \/ (\E op \in Op : Then(b, op)) \/ request'[c] = request[c]
        BY <2>t, <3>1, <4>1 DEF PageStep, create_user, delete_user, update_role, WhyRefused, reset_password, unlock,
                                Audit, Op, SigningIn, SignedIn
      <4> QED
        BY <2>1, <3>0, <4>1, <4>2
    <3>2. ASSUME NEW b \in Browser, SetupStep(b) \/ HangUp(b) PROVE FALSE
      <4>1. request' = [request EXCEPT ![b] = Idle] \/ Then(b, "claim") \/ Then(b, "flag")
        BY <3>2 DEF SetupStep, SetupSubmit, SetupClaim, SetupFlag, HangUp, Finish
      <4>2. request'[c].op \in {"none", "claim", "flag", request[c].op}
        BY <2>t, <4>1 DEF Then, Idle, Request
      <4> QED
        BY <2>1, <4>2 DEF SignedIn
    <3>3. ASSUME (\E i \in Id : CliReset(i)) \/ Restart \/ Tick \/ UNCHANGED vars PROVE FALSE
      <4>1. request' = request \/ request' = [b \in Browser |-> Idle]
        BY <3>3 DEF CliReset, Restart, Tick, vars
      <4> QED
        BY <2>1, <4>1 DEF Idle, SignedIn
    <3> QED
      BY <2>2, <3>1, <3>2, <3>3 DEF Next, IInv
  <2>4. session[c] # None /\ Exists(session[c].id) /\ users[session[c].id].hash = session[c].hash
    BY <2>3 DEF get_user, session_auth_hash
  <2>5. session[c].id \in Id /\ session[c].hash \in Hash
    BY <2>t, <2>4
  <2> QED
    BY <2>4, <2>5 DEF IInv, RevokedStale, Holds, Stale
<1> QED
  BY IInvAlways, <1>1, PTL DEF Spec, RevokedIsRefused
=============================================================================
