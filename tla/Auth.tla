--------------------------------- MODULE Auth ---------------------------------
(***************************************************************************)
(* Accounts, sessions, tokens and devices of the Fabrixe backend: the      *)
(* handlers of api/handlers/auth.go and of the user, session and device    *)
(* part of security.go, behind the requireAuth and requireRole wrappers.   *)
(*                                                                         *)
(* The server runs every request in a goroutine of its own and keeps one   *)
(* database connection (db.go:23), so a handler is a sequence of atomic    *)
(* SQL statements between which any other request may run.  No handler     *)
(* opens a transaction.  A worker below is a goroutine, req[w] what its    *)
(* handler has in local variables, and an action one statement together    *)
(* with the computation up to it.                                          *)
(***************************************************************************)
EXTENDS Integers, FiniteSets

CONSTANTS
  UserIds,          (* rows of users; AUTOINCREMENT, an id is never reused   *)
  Admin,            (* the account Bootstrap creates                         *)
  Passwords,        (* passwords, and their hashes                           *)
  AdminPassword,    (* the password Bootstrap gives the administrator        *)
  Tokens,           (* the random values a token pair is made of             *)
  Fingerprints,     (* devices: User-Agent and address                       *)
  DeviceIds,        (* ids of rows of devices                                *)
  Workers,          (* goroutines serving requests at the same time          *)
  None,             (* NULL, nil, an absent row                              *)
  MaxLoginFails, LockoutMinutes, AccessTokenTTL, RefreshTokenTTL, (* config  *)
  RouterKey,        (* the context key requireAuth stores the claims under   *)
  HandlerKey,       (* the context key claimsFromCtx reads                   *)
  Requests,         (* the requests clients send in this instance            *)
  MaxTime,          (* bound on the clock                                    *)
  MaxWrong          (* bound on wrong passwords per account                  *)

ASSUME ConfigAssumption ==
  /\ MaxLoginFails \in Nat /\ LockoutMinutes \in Nat
  /\ AccessTokenTTL \in Nat /\ RefreshTokenTTL \in Nat
  /\ MaxTime \in Nat /\ MaxWrong \in Nat

ASSUME TableAssumption ==
  /\ Admin \in UserIds /\ AdminPassword \in Passwords
  /\ None \notin UserIds /\ None \notin Tokens /\ None \notin Passwords

Roles == {"administrator", "operator", "viewer"}

Events == {"auth.login", "auth.login_failed", "security.password_changed",
           "security.user_created", "security.user_updated",
           "security.user_deleted", "security.user_unlocked",
           "security.session_revoked", "security.device_trusted",
           "security.device_revoked", "security.device_deleted"}

UserRow == [active: BOOLEAN, role: Roles, pwd: Passwords,
            failed: Nat, locked: Nat]              \* locked = 0 is NULL
SessionRow == [user: UserIds, token: Tokens, expires: Nat]
DeviceRow == [id: DeviceIds, trusted: BOOLEAN]
AuditRow == [event: Events, user: UserIds \cup {None}]

(* The two tokens made together: the claims the access token carries, and  *)
(* whether a reply has delivered them.  sid, the session they were made    *)
(* for, is the model's: the "sid" claim of the code is a random value that *)
(* no table holds.                                                         *)
Pair == [user: UserIds, role: Roles \cup {None}, expires: Nat,
         sid: Tokens, sent: BOOLEAN]

ASSUME RowAssumption ==
  /\ None \notin UserRow /\ None \notin SessionRow
  /\ None \notin DeviceRow /\ None \notin Pair

Pcs == {"idle", "panicked", "audit",
        "login_failed", "login_insert", "login_reset", "login_device",
        "refresh_expired", "refresh_user", "refresh_rotate",
        "password_update", "password_sessions",
        "update_password", "update_role", "update_active"}

Request == [pc: Pcs, user: UserIds \cup {None}, fails: Nat,
            role: Roles \cup {None}, pwd: Passwords \cup {None},
            active: BOOLEAN \cup {None}, token: Tokens \cup {None},
            sid: Tokens \cup {None}, device: Fingerprints \cup {None},
            who: UserIds \cup {None}, event: Events \cup {None}]

Idle == [pc |-> "idle", user |-> None, fails |-> 0, role |-> None,
         pwd |-> None, active |-> None, token |-> None, sid |-> None,
         device |-> None, who |-> None, event |-> None]

VARIABLES
  now,        (* the clock                                                   *)
  users,      (* table users                                                 *)
  born,       (* its AUTOINCREMENT sequence: ids given so far                *)
  sessions,   (* table sessions, by session id                               *)
  devices,    (* table devices, by fingerprint                               *)
  listed,     (* its AUTOINCREMENT sequence: <<fingerprint, id>> so far      *)
  audit,      (* table audit_logs, as a set                                  *)
  pairs,      (* token pairs made so far, by refresh token                   *)
  req,        (* the request each worker is serving                          *)
  wrong,      (* history: wrong passwords counted (auth.go:90), per account  *)
  strikes,    (* history: of these, since the last reset of the counter      *)
  pardoned,   (* history: wrong, as it was at the last unlock                *)
  vetted      (* history: the devices the last decision on which was Trust   *)

vars == <<now, users, born, sessions, devices, listed, audit, pairs, req,
          wrong, strikes, pardoned, vetted>>

historyVars == <<wrong, strikes, pardoned>>
accountVars == <<users, born, historyVars>>
deviceVars == <<devices, listed, vetted>>

TypeOK ==
  /\ now \in Nat
  /\ users \in [UserIds -> UserRow \cup {None}]
  /\ born \subseteq UserIds
  /\ sessions \in [Tokens -> SessionRow \cup {None}]
  /\ devices \in [Fingerprints -> DeviceRow \cup {None}]
  /\ listed \subseteq Fingerprints \X DeviceIds
  /\ audit \subseteq AuditRow
  /\ pairs \in [Tokens -> Pair \cup {None}]
  /\ req \in [Workers -> Request]
  /\ wrong \in [UserIds -> Nat]
  /\ strikes \in [UserIds -> Nat]
  /\ pardoned \in [UserIds -> Nat]
  /\ vetted \subseteq Fingerprints \X DeviceIds

(* A database Bootstrap has just filled.  The clock starts at 1 so that a  *)
(* lock time is never the 0 that stands for NULL.                          *)
Init ==
  /\ now = 1
  /\ users = [u \in UserIds |->
       IF u = Admin THEN [active |-> TRUE, role |-> "administrator",
                          pwd |-> AdminPassword, failed |-> 0, locked |-> 0]
                    ELSE None]
  /\ born = {Admin}
  /\ sessions = [s \in Tokens |-> None]
  /\ devices = [d \in Fingerprints |-> None]
  /\ listed = {}
  /\ audit = {}
  /\ pairs = [t \in Tokens |-> None]
  /\ req = [w \in Workers |-> Idle]
  /\ wrong = [u \in UserIds |-> 0]
  /\ strikes = [u \in UserIds |-> 0]
  /\ pardoned = [u \in UserIds |-> 0]
  /\ vetted = {}

-----------------------------------------------------------------------------
(* Tokens and claims.                                                      *)

RoleWeight(role) == CASE role = "administrator" -> 3
                      [] role = "operator" -> 2
                      [] role = "viewer" -> 1
                      [] OTHER -> 0

HasPermission(userRole, requiredRole) ==
  RoleWeight(userRole) >= RoleWeight(requiredRole)

Made == {t \in Tokens : pairs[t] # None}
Sent == {t \in Made : pairs[t].sent}

(* IssueTokenPair: values no one has seen before.                          *)
Unused == Tokens \ Made

NewPair(user, role, sid, sent) ==
  [user |-> user, role |-> role, expires |-> now + AccessTokenTTL,
   sid |-> sid, sent |-> sent]

(* ValidateToken reads the signature and the clock, and no table.          *)
ValidToken(t) == t \in Sent /\ now < pairs[t].expires

(* The claims of the callers requireAuth or requireRole lets through.      *)
Callers(requiredRole) ==
  {pairs[t].user : t \in {v \in Tokens :
     ValidToken(v) /\ HasPermission(pairs[v].role, requiredRole)}}

(* context.WithValue under the router's key, Value under the handler's.    *)
ClaimsFromCtx(claims) == IF HandlerKey = RouterKey THEN claims ELSE None

-----------------------------------------------------------------------------
(* Statements.                                                             *)

Exists(u) == users[u] # None

(* UPDATE users ... WHERE id = u: no row, no effect.                       *)
UpdateUserRow(u, row) ==
  users' = IF Exists(u) THEN [users EXCEPT ![u] = row] ELSE users

(* INSERT INTO audit_logs: the foreign key refuses a user who is gone, and *)
(* writeAuditLog ignores the error.                                        *)
WriteAuditLog(event, u) ==
  audit' = IF u = None \/ Exists(u)
           THEN audit \cup {[event |-> event, user |-> u]} ELSE audit

SessionsWith(t) == {s \in Tokens : sessions[s] # None /\ sessions[s].token = t}
SessionsOf(u) == {s \in Tokens : sessions[s] # None /\ sessions[s].user = u}

DeleteSessions(S) ==
  sessions' = [s \in Tokens |-> IF s \in S THEN None ELSE sessions[s]]

(* Mutant: foreign keys not switched on (db.go:19).                        *)
InsertUnchecked(s, u) ==
  sessions' = [sessions EXCEPT ![s] = [user |-> u, token |-> s,
                                       expires |-> now + RefreshTokenTTL]]

(* INSERT INTO sessions: the foreign key again, and the error ignored.     *)
InsertSession(s, u) ==
  sessions' = IF Exists(u)
              THEN [sessions EXCEPT ![s] = [user |-> u, token |-> s,
                                            expires |-> now + RefreshTokenTTL]]
              ELSE sessions

(* Mutant: an upsert, which brings a deleted session back.                 *)
RotateOrReopen(old, new) ==
  LET row == [user |-> pairs[old].user, token |-> new,
              expires |-> now + RefreshTokenTTL]
  IN sessions' = [sessions EXCEPT ![pairs[old].sid] = row]

(* Mutant: WHERE user_id instead of WHERE refresh_token.                   *)
RotateAllOfUser(old, new) ==
  sessions' = [s \in Tokens |->
    IF s \in SessionsOf(pairs[old].user)
    THEN [sessions[s] EXCEPT !.token = new] ELSE sessions[s]]

(* Mutant: SET extends the session and leaves refresh_token out.           *)
RotateExpiryOnly(old, new) ==
  sessions' = [s \in Tokens |->
    IF s \in SessionsWith(old)
    THEN [sessions[s] EXCEPT !.expires = now + RefreshTokenTTL] ELSE sessions[s]]

(* UPDATE sessions SET refresh_token ... WHERE refresh_token = old.        *)
RotateSession(old, new) ==
  sessions' = [s \in Tokens |->
    IF s \in SessionsWith(old)
    THEN [sessions[s] EXCEPT !.token = new, !.expires = now + RefreshTokenTTL]
    ELSE sessions[s]]

-----------------------------------------------------------------------------
(* Serving a request.  A handler that fails has unwound to net/http, which *)
(* aborts the response: the worker is free again.                          *)

Free(w) == req[w].pc \in {"idle", "panicked"}

Serve(w, r) == req' = [req EXCEPT ![w] = r]
Return(w) == Serve(w, Idle)

(* The end of a handler whose last statement is its audit row.  The row    *)
(* needs the caller's claims, and evaluating them when they are nil panics.*)
Conclude(w, claims, event) ==
  Serve(w, IF claims = None THEN [Idle EXCEPT !.pc = "panicked", !.event = event]
           ELSE [Idle EXCEPT !.pc = "audit", !.who = claims, !.event = event])

(* Bound: a request that makes tokens is taken in while some are left.     *)
MakingTokens == {"login_insert", "refresh_user", "refresh_rotate"}
Room == Cardinality(Unused) > Cardinality({w \in Workers : req[w].pc \in MakingTokens})

(* A request answered before it writes: a malformed body, a bad token, a   *)
(* locked or disabled account, and every handler that only reads.          *)
Refuse(w) == Free(w) /\ UNCHANGED vars

-----------------------------------------------------------------------------
(* Login.                                                                  *)

(* Now().Before(locked_until)                                              *)
LockedOut(row) == now < row.locked

(* Mutant: the lock is not consulted.                                      *)
MayLogInLocked(row) == row.active

MayLogIn(row) == row.active /\ ~LockedOut(row)

LoginSelect(w, u, p, d) ==
  /\ "login" \in Requests /\ Free(w)
  /\ \/ /\ ~Exists(u)
        /\ Serve(w, [Idle EXCEPT !.pc = "audit", !.event = "auth.login_failed"])
     \/ /\ Exists(u) /\ MayLogIn(users[u])
        /\ users[u].pwd # p /\ wrong[u] < MaxWrong
        /\ Serve(w, [Idle EXCEPT !.pc = "login_failed", !.user = u,
                                 !.fails = users[u].failed])
     \/ /\ Exists(u) /\ MayLogIn(users[u])
        /\ users[u].pwd = p /\ Room
        /\ Serve(w, [Idle EXCEPT !.pc = "login_insert", !.user = u,
                                 !.role = users[u].role, !.device = d])
  /\ UNCHANGED <<now, accountVars, sessions, deviceVars, audit, pairs>>

(* Mutants: one attempt too late, one too early.                           *)
LocksLate(newFailed) == newFailed > MaxLoginFails
LocksEarly(newFailed) == newFailed + 1 >= MaxLoginFails

(* newFailed >= MaxLoginFails                                              *)
Locks(newFailed) == newFailed >= MaxLoginFails

Counted(row, newFailed) ==
  [row EXCEPT !.failed = newFailed,
              !.locked = IF Locks(newFailed) THEN now + LockoutMinutes ELSE row.locked]

LoginFailed(w) ==
  LET u == req[w].user
  IN /\ req[w].pc = "login_failed"
     /\ UpdateUserRow(u, Counted(users[u], req[w].fails + 1))
     /\ wrong' = [wrong EXCEPT ![u] = @ + 1]
     /\ strikes' = [strikes EXCEPT ![u] = @ + 1]
     /\ Serve(w, [Idle EXCEPT !.pc = "audit", !.who = u,
                              !.event = "auth.login_failed"])
     /\ UNCHANGED <<now, born, sessions, deviceVars, audit, pairs, pardoned>>

LoginInsert(w) ==
  /\ req[w].pc = "login_insert"
  /\ \E t \in Unused :
       /\ pairs' = [pairs EXCEPT ![t] = NewPair(req[w].user, req[w].role, t, FALSE)]
       /\ InsertSession(t, req[w].user)
       /\ Serve(w, [req[w] EXCEPT !.pc = "login_reset", !.role = None, !.token = t])
  /\ UNCHANGED <<now, accountVars, deviceVars, audit>>

(* Mutants: the counter survives the reset; the counter becomes NULL.      *)
ClearedLockOnly(row) == [row EXCEPT !.locked = 0]
ClearedToNull(row) == [row EXCEPT !.failed = None, !.locked = 0]

Cleared(row) == [row EXCEPT !.failed = 0, !.locked = 0]

LoginReset(w) ==
  LET u == req[w].user
  IN /\ req[w].pc = "login_reset"
     /\ UpdateUserRow(u, Cleared(users[u]))
     /\ strikes' = [strikes EXCEPT ![u] = 0]
     /\ Serve(w, [req[w] EXCEPT !.pc = "login_device"])
     /\ UNCHANGED <<now, born, sessions, deviceVars, audit, pairs, wrong, pardoned>>

(* Mutant: a primary key without AUTOINCREMENT.                            *)
IdsNotInUse ==
  {i \in DeviceIds : \A d \in Fingerprints : devices[d] = None \/ devices[d].id # i}

UnusedIds == {i \in DeviceIds : \A d \in Fingerprints : <<d, i>> \notin listed}

(* trackDevice: a conflict on the fingerprint keeps the row and its trust. *)
TrackDevice(w) ==
  LET d == req[w].device
  IN /\ req[w].pc = "login_device"
     /\ \/ devices[d] # None /\ UNCHANGED <<devices, listed>>
        \/ /\ devices[d] = None
           /\ \E i \in UnusedIds :
                /\ devices' = [devices EXCEPT ![d] = [id |-> i, trusted |-> FALSE]]
                /\ listed' = listed \cup {<<d, i>>}
     /\ Serve(w, [Idle EXCEPT !.pc = "audit", !.who = req[w].user,
                              !.token = req[w].token, !.event = "auth.login"])
     /\ UNCHANGED <<now, accountVars, sessions, audit, pairs, vetted>>

(* The audit row of any handler, and the reply, which for a login carries  *)
(* the token pair.                                                         *)
Audit(w) ==
  LET t == req[w].token
  IN /\ req[w].pc = "audit"
     /\ WriteAuditLog(req[w].event, req[w].who)
     /\ pairs' = IF t = None THEN pairs ELSE [pairs EXCEPT ![t].sent = TRUE]
     /\ Return(w)
     /\ UNCHANGED <<now, accountVars, sessions, deviceVars>>

-----------------------------------------------------------------------------
(* Logout and refresh, on any refresh token a client has been sent.        *)

(* The route is not behind requireAuth: no claims, hence no audit row.     *)
Logout(w, t) ==
  /\ "logout" \in Requests /\ Free(w) /\ t \in Sent
  /\ DeleteSessions(SessionsWith(t))
  /\ Return(w)
  /\ UNCHANGED <<now, accountVars, deviceVars, audit, pairs>>

RefreshSelect(w, t) ==
  /\ "refresh" \in Requests /\ Free(w) /\ t \in Sent /\ Room
  /\ \E s \in SessionsWith(t) :
       Serve(w, [Idle EXCEPT
         !.pc = IF now > sessions[s].expires THEN "refresh_expired" ELSE "refresh_user",
         !.user = sessions[s].user, !.token = t, !.sid = s])
  /\ UNCHANGED <<now, accountVars, sessions, deviceVars, audit, pairs>>

RefreshExpired(w) ==
  /\ req[w].pc = "refresh_expired"
  /\ DeleteSessions(SessionsWith(req[w].token))
  /\ Return(w)
  /\ UNCHANGED <<now, accountVars, deviceVars, audit, pairs>>

(* Mutant: the role of the presented token's claims instead of the row's.  *)
RefreshUserFromToken(w) ==
  /\ req[w].pc = "refresh_user"
  /\ Serve(w, [req[w] EXCEPT !.pc = "refresh_rotate", !.role = pairs[req[w].token].role])
  /\ UNCHANGED <<now, accountVars, sessions, deviceVars, audit, pairs>>

(* SELECT username, role; the error of an absent row is ignored and leaves *)
(* the role empty.  is_active is not read.                                 *)
RefreshUser(w) ==
  LET u == req[w].user
  IN /\ req[w].pc = "refresh_user"
     /\ Serve(w, [req[w] EXCEPT !.pc = "refresh_rotate",
                   !.role = IF Exists(u) THEN users[u].role ELSE None])
     /\ UNCHANGED <<now, accountVars, sessions, deviceVars, audit, pairs>>

(* The reply follows whether or not the UPDATE found a row.                *)
RefreshRotate(w) ==
  /\ req[w].pc = "refresh_rotate"
  /\ \E t \in Unused :
       /\ pairs' = [pairs EXCEPT ![t] =
            NewPair(req[w].user, req[w].role, req[w].sid, TRUE)]
       /\ RotateSession(req[w].token, t)
  /\ Return(w)
  /\ UNCHANGED <<now, accountVars, deviceVars, audit>>

-----------------------------------------------------------------------------
(* Changing one's password: the claims are first used in the SELECT.       *)

ChangePassword(w, old, new) ==
  /\ "change_password" \in Requests /\ Free(w)
  /\ \E caller \in Callers("viewer") :
       LET u == ClaimsFromCtx(caller)
       IN \/ u = None /\ Serve(w, [Idle EXCEPT !.pc = "panicked"])
          \/ /\ u # None /\ Exists(u) /\ users[u].pwd = old
             /\ Serve(w, [Idle EXCEPT !.pc = "password_update",
                                      !.user = u, !.pwd = new])
  /\ UNCHANGED <<now, accountVars, sessions, deviceVars, audit, pairs>>

PasswordUpdate(w) ==
  LET u == req[w].user
  IN /\ req[w].pc = "password_update"
     /\ UpdateUserRow(u, [users[u] EXCEPT !.pwd = req[w].pwd])
     /\ Serve(w, [req[w] EXCEPT !.pc = "password_sessions", !.pwd = None])
     /\ UNCHANGED <<now, born, sessions, deviceVars, audit, pairs, historyVars>>

PasswordSessions(w) ==
  /\ req[w].pc = "password_sessions"
  /\ DeleteSessions(SessionsOf(req[w].user))
  /\ Conclude(w, req[w].user, "security.password_changed")
  /\ UNCHANGED <<now, accountVars, deviceVars, audit, pairs>>

-----------------------------------------------------------------------------
(* Account administration, behind requireRole(administrator).              *)

CreateUser(w, u, p, role) ==
  /\ "create_user" \in Requests /\ Free(w) /\ u \notin born
  /\ users' = [users EXCEPT ![u] = [active |-> TRUE, role |-> role, pwd |-> p,
                                    failed |-> 0, locked |-> 0]]
  /\ born' = born \cup {u}
  /\ \E caller \in Callers("administrator") :
       Conclude(w, ClaimsFromCtx(caller), "security.user_created")
  /\ UNCHANGED <<now, historyVars, sessions, deviceVars, audit, pairs>>

(* The fields present in the body are written one statement each, in the   *)
(* order password, (email,) role, (full_name,) is_active; None is a field  *)
(* left out.                                                               *)
UpdateUser(w, u, p, role, active) ==
  /\ "update_user" \in Requests /\ Free(w)
  /\ \E caller \in Callers("administrator") :
       Serve(w, [Idle EXCEPT !.pc = "update_password", !.user = u, !.pwd = p,
                   !.role = role, !.active = active, !.who = ClaimsFromCtx(caller)])
  /\ UNCHANGED <<now, accountVars, sessions, deviceVars, audit, pairs>>

UpdatePassword(w) ==
  LET u == req[w].user
  IN /\ req[w].pc = "update_password"
     /\ IF req[w].pwd = None THEN UNCHANGED users
        ELSE UpdateUserRow(u, [users[u] EXCEPT !.pwd = req[w].pwd])
     /\ Serve(w, [req[w] EXCEPT !.pc = "update_role", !.pwd = None])
     /\ UNCHANGED <<now, born, historyVars, sessions, deviceVars, audit, pairs>>

UpdateRole(w) ==
  LET u == req[w].user
  IN /\ req[w].pc = "update_role"
     /\ IF req[w].role = None THEN UNCHANGED users
        ELSE UpdateUserRow(u, [users[u] EXCEPT !.role = req[w].role])
     /\ Serve(w, [req[w] EXCEPT !.pc = "update_active", !.role = None])
     /\ UNCHANGED <<now, born, historyVars, sessions, deviceVars, audit, pairs>>

UpdateActive(w) ==
  LET u == req[w].user
  IN /\ req[w].pc = "update_active"
     /\ IF req[w].active = None THEN UNCHANGED users
        ELSE UpdateUserRow(u, [users[u] EXCEPT !.active = req[w].active])
     /\ Conclude(w, req[w].who, "security.user_updated")
     /\ UNCHANGED <<now, born, historyVars, sessions, deviceVars, audit, pairs>>

(* DELETE FROM users: refused by the foreign key of audit_logs, cascaded   *)
(* by that of sessions.                                                    *)
Referenced(u) == \E a \in audit : a.user = u

DeleteUserRow(u) ==
  IF Exists(u) /\ ~Referenced(u)
  THEN users' = [users EXCEPT ![u] = None] /\ DeleteSessions(SessionsOf(u))
  ELSE UNCHANGED <<users, sessions>>

(* The caller is compared with the target first, which needs the claims.   *)
DeleteUser(w, u) ==
  /\ "delete_user" \in Requests /\ Free(w)
  /\ \E caller \in Callers("administrator") :
       LET claims == ClaimsFromCtx(caller)
       IN \/ /\ claims = None
             /\ Serve(w, [Idle EXCEPT !.pc = "panicked", !.user = u, !.who = caller])
             /\ UNCHANGED <<users, sessions>>
          \/ /\ claims # None /\ claims # u
             /\ DeleteUserRow(u)
             /\ Conclude(w, claims, "security.user_deleted")
  /\ UNCHANGED <<now, born, historyVars, deviceVars, audit, pairs>>

UnlockUser(w, u) ==
  /\ "unlock_user" \in Requests /\ Free(w)
  /\ UpdateUserRow(u, Cleared(users[u]))
  /\ strikes' = [strikes EXCEPT ![u] = 0]
  /\ pardoned' = [pardoned EXCEPT ![u] = wrong[u]]
  /\ \E caller \in Callers("administrator") :
       Conclude(w, ClaimsFromCtx(caller), "security.user_unlocked")
  /\ UNCHANGED <<now, born, wrong, sessions, deviceVars, audit, pairs>>

RevokeSession(w, s) ==
  /\ "revoke_session" \in Requests /\ Free(w) /\ s \in Made
  /\ DeleteSessions({s})
  /\ \E caller \in Callers("administrator") :
       Conclude(w, ClaimsFromCtx(caller), "security.session_revoked")
  /\ UNCHANGED <<now, accountVars, deviceVars, audit, pairs>>

-----------------------------------------------------------------------------
(* Devices.  The administrator acts on a row of a list read some time ago, *)
(* and the request carries its id only.                                    *)

SetTrust(i, trusted) ==
  devices' = [d \in Fingerprints |->
    IF devices[d] # None /\ devices[d].id = i
    THEN [devices[d] EXCEPT !.trusted = trusted] ELSE devices[d]]

TrustDevice(w, row) ==
  /\ "trust_device" \in Requests /\ Free(w)
  /\ SetTrust(row[2], TRUE)
  /\ vetted' = vetted \cup {row}
  /\ \E caller \in Callers("administrator") :
       Conclude(w, ClaimsFromCtx(caller), "security.device_trusted")
  /\ UNCHANGED <<now, accountVars, sessions, listed, audit, pairs>>

RevokeDevice(w, row) ==
  /\ "revoke_device" \in Requests /\ Free(w)
  /\ SetTrust(row[2], FALSE)
  /\ vetted' = vetted \ {row}
  /\ \E caller \in Callers("administrator") :
       Conclude(w, ClaimsFromCtx(caller), "security.device_revoked")
  /\ UNCHANGED <<now, accountVars, sessions, listed, audit, pairs>>

(* Bound: a device is deleted while an id is left for its successor.       *)
RoomForDevice ==
  Cardinality(UnusedIds) > Cardinality({d \in Fingerprints : devices[d] = None})

DeleteDevice(w, row) ==
  /\ "delete_device" \in Requests /\ Free(w) /\ RoomForDevice
  /\ devices' = [d \in Fingerprints |->
       IF devices[d] # None /\ devices[d].id = row[2] THEN None ELSE devices[d]]
  /\ \E caller \in Callers("administrator") :
       Conclude(w, ClaimsFromCtx(caller), "security.device_deleted")
  /\ UNCHANGED <<now, accountVars, sessions, listed, vetted, audit, pairs>>

-----------------------------------------------------------------------------
(* The process stops, at any statement of any handler, and is started      *)
(* again: the tables are on disk, and so is the key that signs tokens.     *)
Restart ==
  /\ "restart" \in Requests
  /\ req' = [w \in Workers |-> Idle]
  /\ UNCHANGED <<now, accountVars, sessions, deviceVars, audit, pairs>>

Tick ==
  /\ now < MaxTime /\ now' = now + 1
  /\ UNCHANGED <<accountVars, sessions, deviceVars, audit, pairs, req>>

LoginStep(w) == LoginFailed(w) \/ LoginInsert(w) \/ LoginReset(w) \/ TrackDevice(w)
RefreshStep(w) == RefreshExpired(w) \/ RefreshUser(w) \/ RefreshRotate(w)
PasswordStep(w) == PasswordUpdate(w) \/ PasswordSessions(w)
UpdateStep(w) == UpdatePassword(w) \/ UpdateRole(w) \/ UpdateActive(w)

(* The rest of a request that has been taken in.                           *)
Continue(w) ==
  LoginStep(w) \/ RefreshStep(w) \/ PasswordStep(w) \/ UpdateStep(w) \/ Audit(w)

Receive(w) ==
  \/ Refuse(w)
  \/ \E u \in UserIds, p \in Passwords, d \in Fingerprints : LoginSelect(w, u, p, d)
  \/ \E t \in Tokens : Logout(w, t) \/ RefreshSelect(w, t) \/ RevokeSession(w, t)
  \/ \E p, q \in Passwords : ChangePassword(w, p, q)
  \/ \E u \in UserIds, p \in Passwords, r \in Roles : CreateUser(w, u, p, r)
  \/ \E u \in UserIds, p \in Passwords \cup {None}, r \in Roles \cup {None},
        a \in BOOLEAN \cup {None} : UpdateUser(w, u, p, r, a)
  \/ \E u \in UserIds : DeleteUser(w, u) \/ UnlockUser(w, u)
  \/ \E row \in listed : TrustDevice(w, row) \/ RevokeDevice(w, row) \/ DeleteDevice(w, row)

Next == (\E w \in Workers : Receive(w) \/ Continue(w)) \/ Restart \/ Tick

Spec == Init /\ [][Next]_vars

-----------------------------------------------------------------------------
(* Properties.                                                             *)

(* The session table under all these handlers is a table of token chains:  *)
(* rotation, logout, revocation, deletion and expiry (auth.go:108, 149,    *)
(* 189, 206, 283, security.go:211, 404), in any interleaving, never revive *)
(* a session or a token and never leave a token with two sessions.         *)
Chain == INSTANCE TokenChain WITH
  holds <- [s \in Tokens |-> IF sessions[s] = None THEN None ELSE sessions[s].token],
  spent <- {t \in Made : SessionsWith(t) = {}}

SessionsAreChains == Chain!Spec

(* The token a session accepts was made for that session and carries its   *)
(* user: a refresh never gives one user the tokens of another, although    *)
(* auth.go:175, 195 and 206 are separate statements.                       *)
TokensKeepOwner ==
  \A s \in Tokens : sessions[s] # None =>
    LET t == sessions[s].token
    IN t \in Made /\ pairs[t].user = sessions[s].user /\ pairs[t].sid = s

(* What a handler's local variables hold when it runs a statement.         *)
Sound(r, made) ==
  /\ r.pc \notin {"idle", "panicked", "audit"} => r.user \in UserIds
  /\ r.pc \in {"login_insert", "login_reset", "login_device"} => r.device \in Fingerprints
  /\ r.pc \in {"login_reset", "login_device", "refresh_expired",
                "refresh_user", "refresh_rotate"} => r.token \in made
  /\ r.pc \in {"refresh_user", "refresh_rotate"} => r.sid \in Tokens
  /\ r.pc = "password_update" => r.pwd \in Passwords
  /\ r.pc = "audit" => r.event \in Events /\ (r.token # None => r.token \in made)

RequestsSound == \A w \in Workers : Sound(req[w], Made)

(* No session and no audit row outlives its user (db.go:133, 162), with    *)
(* deletions racing logins that have already read the row.                 *)
ReferentialIntegrity ==
  /\ \A s \in Tokens : sessions[s] # None => Exists(sessions[s].user)
  /\ \A a \in audit : a.user # None => Exists(a.user)

(* An account is only ever locked after max_login_attempts wrong passwords *)
(* for it: the counter that stale reads write back (auth.go:78-90) errs on *)
(* the low side of all attempts ever made.                                 *)
NoLockWithoutWrongPasswords ==
  \A u \in UserIds : Exists(u) /\ users[u].locked # 0 => wrong[u] >= MaxLoginFails

(* Once max_login_attempts wrong passwords have been counted since the     *)
(* last reset, the account has been locked (auth.go:82).                   *)
LockoutAfterMax ==
  \A u \in UserIds : Exists(u) /\ strikes[u] >= MaxLoginFails => users[u].locked # 0

(* An account that is locked has had that many wrong passwords since an    *)
(* administrator last unlocked it (security.go:225).                       *)
UnlockHolds ==
  \A u \in UserIds : Exists(u) /\ users[u].locked # 0
    => wrong[u] - pardoned[u] >= MaxLoginFails

(* While a lock runs, the only step that clears it is an administrator's   *)
(* unlock of that account (security.go:225); a login does not clear it     *)
(* (auth.go:70, 114).                                                      *)
LockLasts ==
  [][\A u \in UserIds :
       /\ Exists(u) /\ LockedOut(users[u])
       /\ users'[u] # None /\ users'[u].locked = 0
       => \E w \in Workers : UnlockUser(w, u)]_vars

(* A refresh token that is handed out is, at that moment, the token of a   *)
(* session (auth.go:108 before 121, 206 before 210).                       *)
SentTokenIsStored ==
  [][\A t \in Sent' \ Sent : \E s \in Tokens :
       sessions'[s] # None /\ sessions'[s].token = t]_vars

(* An access token is made with the role the account has at that moment    *)
(* (auth.go:98, 195-197).                                                  *)
MadeWithCurrentRole ==
  [][\A t \in Made' \ Made : LET u == pairs'[t].user
       IN Exists(u) /\ pairs'[t].role = users[u].role]_vars

(* A device is trusted exactly when the last administrator to decide about *)
(* that record trusted it: logging in again keeps the decision             *)
(* (auth.go:311), and a decision about a deleted record never lands on the *)
(* one that replaced it (db.go:144).                                       *)
TrustIsLastDecision ==
  \A d \in Fingerprints : devices[d] # None =>
    (devices[d].trusted <=> <<d, devices[d].id>> \in vetted)

(* Every access token that is accepted belongs to a session that is still  *)
(* in the table: revoking the session stops it.                            *)
AccessNeedsSession ==
  \A t \in Tokens : ValidToken(t) => sessions[pairs[t].sid] # None

(* An administrator's change that has been applied is in the audit log     *)
(* when its request is over.                                               *)
EveryChangeRecorded ==
  \A w \in Workers : req[w].pc = "panicked" /\ req[w].event # None =>
    \E a \in audit : a.event = req[w].event
=============================================================================
